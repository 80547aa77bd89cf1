------------------------ MODULE BrowserSessionProofs -------------------------
(***************************************************************************)
(* Proofs about BrowserSession, for any number of tabs and of requests.    *)
(***************************************************************************)
EXTENDS BrowserSession, TLAPS

USE DEF Pairs, NoPair, Pair

-----------------------------------------------------------------------------
\* What is known of a pair was issued before.
Issued ==
    /\ stored < nextPair /\ ended \subseteq 1..(nextPair - 1)
    /\ \A b \in Tabs : /\ refresh[b].old < nextPair /\ refresh[b].new < nextPair
                       /\ leave[b].tok < nextPair
                       /\ presented[b] \subseteq 1..(nextPair - 1)

Copied == \A b \in Tabs : copy[b] < nextPair

\* The pair answered to a refresh or a login is nowhere else: not in
\* localStorage, not in another answer, not in a session a logout has ended,
\* and its refresh token has not been presented.
Unseen ==
    \A b \in Tabs :
        /\ refresh[b].pc = "granted" =>
              /\ refresh[b].new # stored /\ refresh[b].new \notin ended
              /\ \A c \in Tabs : /\ refresh[b].new \notin presented[c]
                                 /\ refresh[b].new \notin logins[c]
                                 /\ refresh[c].pc = "granted" /\ refresh[c].new = refresh[b].new
                                    => c = b
        /\ \A k \in logins[b] : /\ k # stored /\ k \notin ended
                                /\ \A c \in Tabs : /\ k \notin presented[c]
                                                   /\ k \in logins[c] => c = b

\* Only a tab whose refresh is under way has presented what is stored.
Shared ==
    \A b \in Tabs : stored \in presented[b] => refresh[b].pc # "none"

\* What was presented and answered, or revoked, is not alive.
Consumed ==
    \A b \in Tabs : /\ refresh[b].pc \in {"granted", "denied"} => refresh[b].old \notin alive
                    /\ leave[b].pc = "revoked" => leave[b].tok \notin alive

\* A pair is on its way exactly when the refresh was granted.
Answers == \A b \in Tabs : refresh[b].pc = "granted" <=> refresh[b].new # NoPair

IInv == /\ TypeOK /\ Issued /\ Copied /\ Answers /\ Unseen /\ Shared
        /\ RefreshedOnce /\ Consumed /\ AccountedFor

-----------------------------------------------------------------------------
(***************************************************************************)
(* The steps.  What a request does is one of three things.                 *)
(***************************************************************************)
\* A request goes on, and nothing else happens.
Moves == /\ req' \in [Requests -> Request]
         /\ UNCHANGED <<stored, copy, refresh, logins, leave, nextPair, expired, alive, history>>

\* A request waits, and the tab presents the refresh token that is stored.
Asks(b) ==
    /\ req' \in [Requests -> Request]
    /\ refresh[b].pc = "none" /\ stored # NoPair
    /\ refresh' = [refresh EXCEPT ![b] = [pc |-> "asked", old |-> stored, new |-> NoPair]]
    /\ presented' = [presented EXCEPT ![b] = @ \cup {stored}]
    /\ again' = (again \/ stored \in presented[b])
    /\ UNCHANGED <<stored, copy, logins, leave, nextPair, expired, alive, loose, ended>>

\* A request or a login gives up, and so does the browser.
Drops(b) ==
    /\ req' \in [Requests -> Request]
    /\ Forget(b) /\ GiveUp({stored})
    /\ UNCHANGED <<refresh, logins, leave, nextPair, expired, alive, presented, again, ended>>

LEMMA AskCases ==
    ASSUME BrowserAssumption, TypeOK, NEW q \in Requests, NEW pc \in {"await", "await401"},
           RefreshAccessToken(q, pc), Joins(TabOf[q]) \/ stored # NoPair
    PROVE  Moves \/ Asks(TabOf[q])
<1>1. req' \in [Requests -> Request]
  <2>1. req' = [req EXCEPT ![q].pc = pc, ![q].tok = NoPair]
    BY DEF RefreshAccessToken
  <2>2. req \in [Requests -> Request]
    BY DEF TypeOK
  <2>3. [req[q] EXCEPT !.pc = pc, !.tok = NoPair] \in Request
    BY <2>2 DEF Request
  <2> QED BY <2>1, <2>2, <2>3
<1>2. CASE Joins(TabOf[q])
  BY <1>1, <1>2 DEF RefreshAccessToken, Moves, history
<1>3. CASE ~Joins(TabOf[q])
  BY <1>1, <1>3 DEF RefreshAccessToken, Joins, Asks
<1> QED BY <1>2, <1>3

LEMMA InterceptCases ==
    ASSUME BrowserAssumption, TypeOK, NEW q \in Requests, Intercept(q)
    PROVE  Moves \/ Asks(TabOf[q])
<1>1. CASE stored \in expired /\ RefreshAccessToken(q, "await")
  <2>1. stored # NoPair
    BY <1>1 DEF TypeOK
  <2> QED BY <1>1, <2>1, AskCases
<1>2. CASE /\ req' = [req EXCEPT ![q].pc = "sent", ![q].tok = stored]
           /\ UNCHANGED <<stored, copy, refresh, logins, leave, nextPair, expired, alive, history>>
  <2>1. req \in [Requests -> Request] /\ stored \in Pair
    BY DEF TypeOK
  <2>2. [req[q] EXCEPT !.pc = "sent", !.tok = stored] \in Request
    BY <2>1 DEF Request
  <2>3. req' \in [Requests -> Request]
    BY <1>2, <2>1, <2>2
  <2> QED BY <1>2, <2>3 DEF Moves
<1> QED BY <1>1, <1>2 DEF Intercept

LEMMA UnauthorizedCases ==
    ASSUME BrowserAssumption, TypeOK, NEW q \in Requests, Unauthorized(q)
    PROVE  Moves \/ Asks(TabOf[q]) \/ Drops(TabOf[q])
<1>1. CASE RedirectToLogin(q)
  <2>1. req' \in [Requests -> Request]
    BY <1>1 DEF RedirectToLogin, Idle, Request, TypeOK
  <2> QED BY <1>1, <2>1 DEF RedirectToLogin, Drops
<1>2. CASE ~NoToken(TabOf[q]) /\ RefreshAccessToken(q, "await401")
  BY <1>2, AskCases DEF NoToken
<1> QED BY <1>1, <1>2 DEF Unauthorized

\* The requests that waited go on as requests.
LEMMA ResumedType ==
    ASSUME TypeOK, NEW b \in Tabs, NEW k \in Pair
    PROVE  Resumed(b, k) \in [Requests -> Request]
<1> SUFFICES ASSUME NEW q \in Requests
             PROVE  Resumed(b, k)[q] \in Request
  BY DEF Resumed
<1>1. req[q] \in Request
  BY DEF TypeOK
<1>2. CASE ~Waits(q, b)
  BY <1>1, <1>2 DEF Resumed
<1>3. CASE Waits(q, b) /\ req[q].pc = "await"
  BY <1>1, <1>3 DEF Resumed, Request
<1>4. CASE Waits(q, b) /\ req[q].pc = "await401"
  BY <1>1, <1>4 DEF Resumed, Request
<1> QED BY <1>2, <1>3, <1>4 DEF Waits

\* Every step, in the terms of the proofs below.
LEMMA StepCases ==
    ASSUME BrowserAssumption, TypeOK, [Next]_vars
    PROVE  \/ UNCHANGED vars
           \/ Moves
           \/ \E b \in Tabs : Asks(b) \/ Drops(b) \/ ServeLogin(b) \/ CheckAuth(b) \/ Logout(b)
                              \/ Revoke(b) \/ LogoutEnds(b) \/ ServeRefresh(b)
                              \/ RefreshGranted(b) \/ RefreshRejected(b)
           \/ \E b \in Tabs, k \in Pairs : LoginAnswered(b, k) \/ LoginLost(b, k)
           \/ \E k \in Pairs : Expire(k)
<1>1. ASSUME NEW q \in Requests, Begin(q) \/ Step(q)
      PROVE  Moves \/ \E b \in Tabs : Asks(b) \/ Drops(b)
  <2>1. TabOf[q] \in Tabs
    BY DEF BrowserAssumption
  <2>2. CASE Begin(q) \/ Repeat(q)
    BY <2>1, <2>2, InterceptCases DEF Begin, Repeat
  <2>3. CASE Unauthorized(q)
    BY <2>1, <2>3, UnauthorizedCases
  <2>4. CASE Answered(q)
    <3>1. req' \in [Requests -> Request]
      BY <2>4 DEF Answered, Idle, Request, TypeOK
    <3> QED BY <2>4, <3>1 DEF Answered, Moves
  <2> QED BY <1>1, <2>2, <2>3, <2>4 DEF Step
<1>2. ASSUME NEW b \in Tabs, LoginRefused(b) PROVE Drops(b)
  BY <1>2 DEF LoginRefused, Drops, TypeOK
<1> QED BY <1>1, <1>2 DEF Next, Settle

-----------------------------------------------------------------------------
LEMMA InitInv == BrowserAssumption /\ Init => IInv
<1> SUFFICES ASSUME BrowserAssumption, Init PROVE IInv
  OBVIOUS
<1>1. TypeOK
  <2>1. NoRefresh \in Refresh /\ Idle \in Request /\ NoLeave \in Leave
    BY DEF Refresh, NoRefresh, Request, Idle, Leave, NoLeave
  <2>2. nextPair \in 1..(MaxPairs + 1)
    BY DEF BrowserAssumption, Init
  <2> QED BY <2>1, <2>2 DEF Init, TypeOK
<1>2. /\ Issued /\ Copied /\ Answers /\ Unseen /\ Shared
      /\ RefreshedOnce /\ Consumed /\ AccountedFor
  BY DEF Init, NoRefresh, NoLeave, Issued, Copied, Answers, Unseen, Shared, RefreshedOnce,
         Consumed, AccountedFor
<1> QED BY <1>1, <1>2 DEF IInv

LEMMA TypeStep ==
    ASSUME BrowserAssumption, TypeOK, Issued, [Next]_vars
    PROVE  TypeOK'
<1> USE DEF TypeOK
<1>1. CASE UNCHANGED vars
  BY <1>1 DEF vars
<1>2. CASE Moves
  BY <1>2 DEF Moves, history
<1>3. ASSUME NEW b \in Tabs, Asks(b) PROVE TypeOK'
  <2>1. [pc |-> "asked", old |-> stored, new |-> NoPair] \in Refresh
    BY DEF Refresh
  <2>2. refresh' \in [Tabs -> Refresh]
    BY <1>3, <2>1 DEF Asks
  <2>3. presented' \in [Tabs -> SUBSET Pairs]
    BY <1>3 DEF Asks
  <2>4. again' \in BOOLEAN
    BY <1>3 DEF Asks
  <2> QED BY <1>3, <2>2, <2>3, <2>4 DEF Asks
<1>4. ASSUME NEW b \in Tabs, Drops(b) PROVE TypeOK'
  BY <1>4 DEF Drops, Forget, GiveUp
<1>5. ASSUME NEW b \in Tabs, ServeLogin(b) PROVE TypeOK'
  <2>1. nextPair' \in 1..(MaxPairs + 1) /\ nextPair \in 1..(nextPair' - 1)
    BY <1>5 DEF ServeLogin, BrowserAssumption
  <2>2. /\ expired' \subseteq 1..(nextPair' - 1) /\ alive' \subseteq 1..(nextPair' - 1)
        /\ logins' \in [Tabs -> SUBSET (1..(nextPair' - 1))]
    BY <1>5, <2>1 DEF ServeLogin
  <2> QED BY <1>5, <2>1, <2>2 DEF ServeLogin, history
<1>14. ASSUME NEW b \in Tabs, NEW k \in Pairs, LoginAnswered(b, k) PROVE TypeOK'
  <2>1. logins' \in [Tabs -> SUBSET (1..(nextPair - 1))] /\ loose' \subseteq Pairs
    BY <1>14 DEF LoginAnswered, GiveUp
  <2> QED BY <1>14, <2>1 DEF LoginAnswered
<1>15. ASSUME NEW b \in Tabs, NEW k \in Pairs, LoginLost(b, k) PROVE TypeOK'
  <2>1. logins' \in [Tabs -> SUBSET (1..(nextPair - 1))] /\ loose' \subseteq Pairs
    BY <1>15 DEF LoginLost, GiveUp
  <2> QED BY <1>15, <2>1 DEF LoginLost
<1>6. ASSUME NEW b \in Tabs, CheckAuth(b) PROVE TypeOK'
  BY <1>6 DEF CheckAuth, history
<1>7. ASSUME NEW b \in Tabs, Logout(b) PROVE TypeOK'
  <2>1. [pc |-> "asked", tok |-> TokenToRevoke(b)] \in Leave
    BY DEF TokenToRevoke, Leave
  <2> QED BY <1>7, <2>1 DEF Logout, history
<1>8. ASSUME NEW b \in Tabs, Revoke(b) PROVE TypeOK'
  <2>1. leave' \in [Tabs -> Leave]
    BY <1>8 DEF Revoke, Leave
  <2> QED BY <1>8, <2>1 DEF Revoke
<1>9. ASSUME NEW b \in Tabs, LogoutEnds(b) PROVE TypeOK'
  <2>1. leave' \in [Tabs -> Leave]
    BY <1>9 DEF LogoutEnds, Leave, NoLeave
  <2>2. loose' \subseteq Pairs /\ ended' \subseteq Pairs
    BY <1>9 DEF LogoutEnds, GiveUp
  <2> QED BY <1>9, <2>1, <2>2 DEF LogoutEnds, Forget
<1>10. ASSUME NEW b \in Tabs, ServeRefresh(b) PROVE TypeOK'
  <2>1. CASE refresh[b].old \in alive
    <3>1. nextPair \in Pairs /\ nextPair' = nextPair + 1 /\ alive' = Rotate(b)
          /\ refresh' = [refresh EXCEPT ![b].pc = "granted", ![b].new = nextPair]
          /\ loose' = loose \ {refresh[b].old}
          /\ UNCHANGED <<stored, copy, req, logins, leave, expired, presented, again, ended>>
      BY <1>10, <2>1 DEF ServeRefresh
    <3>2. nextPair' \in 1..(MaxPairs + 1) /\ nextPair \in 1..(nextPair' - 1)
      BY <3>1 DEF BrowserAssumption
    <3>3. refresh' \in [Tabs -> Refresh]
      <4>1. refresh[b] \in Refresh /\ nextPair \in Pair
        BY <3>1
      <4>2. [refresh[b] EXCEPT !.pc = "granted", !.new = nextPair] \in Refresh
        BY ONLY <4>1 DEF Refresh
      <4> QED BY <3>1, <4>2
    <3>4. /\ expired' \subseteq 1..(nextPair' - 1) /\ alive' \subseteq 1..(nextPair' - 1)
          /\ logins' \in [Tabs -> SUBSET (1..(nextPair' - 1))]
      BY <3>1, <3>2 DEF Rotate
    <3> QED BY <3>1, <3>2, <3>3, <3>4
  <2>2. CASE refresh[b].old \notin alive
    <3>1. refresh' = [refresh EXCEPT ![b].pc = "denied"]
          /\ UNCHANGED <<stored, copy, req, logins, leave, expired, alive, nextPair, history>>
      BY <1>10, <2>2 DEF ServeRefresh, history
    <3>2. refresh' \in [Tabs -> Refresh]
      <4>1. refresh[b] \in Refresh
        OBVIOUS
      <4>2. [refresh[b] EXCEPT !.pc = "denied"] \in Refresh
        BY ONLY <4>1 DEF Refresh
      <4> QED BY <3>1, <4>2
    <3> QED BY <3>1, <3>2 DEF history
  <2> QED BY <2>1, <2>2
<1>11. ASSUME NEW b \in Tabs, RefreshGranted(b) PROVE TypeOK'
  <2>1. refresh[b].new \in Pair
    BY DEF Refresh
  <2>2. req' \in [Requests -> Request]
    BY <1>11, <2>1, ResumedType DEF RefreshGranted
  <2>3. refresh' \in [Tabs -> Refresh]
    BY <1>11 DEF RefreshGranted, Refresh, NoRefresh
  <2>4. loose' \subseteq Pairs
    BY <1>11 DEF RefreshGranted, GiveUp
  <2> QED BY <1>11, <2>1, <2>2, <2>3, <2>4 DEF RefreshGranted
<1>12. ASSUME NEW b \in Tabs, RefreshRejected(b) PROVE TypeOK'
  <2>1. req' \in [Requests -> Request]
    BY <1>12 DEF RefreshRejected, Idle, Request
  <2>2. refresh' \in [Tabs -> Refresh]
    BY <1>12 DEF RefreshRejected, Refresh, NoRefresh
  <2>3. alive \subseteq Pairs
    BY DEF BrowserAssumption
  <2>4. loose' \subseteq Pairs
    BY <1>12, <2>3 DEF RefreshRejected, GiveUp
  <2> QED BY <1>12, <2>1, <2>2, <2>4 DEF RefreshRejected, Forget
<1>13. ASSUME NEW k \in Pairs, Expire(k) PROVE TypeOK'
  BY <1>13 DEF Expire, history
<1> QED BY <1>1, <1>2, <1>3, <1>4, <1>5, <1>6, <1>7, <1>8, <1>9, <1>10, <1>11, <1>12, <1>13,
           <1>14, <1>15, StepCases

-----------------------------------------------------------------------------
(***************************************************************************)
(* The rest of the invariant: one lemma per kind of step.                  *)
(***************************************************************************)
Rest == Issued /\ Answers /\ Unseen /\ Shared /\ RefreshedOnce /\ Consumed /\ AccountedFor

\* A step that only takes from what is alive or stored, or moves requests.
LEMMA RestTakes ==
    ASSUME IInv, nextPair' = nextPair, alive' \subseteq alive, stored' \in {stored, NoPair},
           UNCHANGED <<refresh, logins, presented, again>>,
           \A b \in Tabs : \/ leave'[b] = leave[b]
                           \/ leave'[b].tok < nextPair /\ leave'[b].pc # "revoked"
                           \/ leave'[b].tok = leave[b].tok /\ leave[b].tok \notin alive',
           \A k \in loose : k \in loose' \/ k \notin alive',
           stored' # stored => stored \notin alive' \/ stored \in loose',
           \/ ended' = ended
           \/ /\ stored' = NoPair
              /\ ended' = ended \cup (IF Refreshing(stored) THEN {} ELSE {stored} \cap Pairs)
    PROVE  Rest'
<1> USE DEF IInv, TypeOK
<1>1. nextPair \in Nat /\ 0 < nextPair /\ NoPair \notin alive
  BY DEF BrowserAssumption
<1>2. Issued'
  <2>1. ended' \subseteq ended \cup ({stored} \cap Pairs)
    OBVIOUS
  <2>2. ended' \subseteq 1..(nextPair - 1)
    BY <1>1, <2>1 DEF Issued
  <2> QED BY <1>1, <2>2 DEF Issued
<1>3. Answers' /\ RefreshedOnce'
  BY DEF Answers, RefreshedOnce
<1>4. \A b \in Tabs : NoPair \notin presented[b]
  OBVIOUS
<1>5. Shared'
  BY <1>4 DEF Shared
<1>6. ASSUME NEW b \in Tabs, refresh[b].pc = "granted" PROVE refresh[b].new # NoPair
  BY <1>6 DEF Answers
<1>7. Unseen'
  <2>1. \A b \in Tabs : \A k \in logins[b] : k # NoPair
    OBVIOUS
  <2>2. ended' \subseteq ended \cup {stored}
    OBVIOUS
  <2> QED BY <1>6, <2>1, <2>2 DEF Unseen
<1>8. Consumed'
  BY DEF Consumed
<1>9. AccountedFor'
  <2>1. ASSUME NEW k \in ended' PROVE k # stored' /\ ~Refreshing(k)
    <3>1. \A j \in ended : j # stored /\ j # NoPair /\ ~Refreshing(j)
      BY DEF AccountedFor
    <3>2. CASE k \in ended
      BY <3>1, <3>2
    <3>3. CASE k \notin ended
      <4>1. /\ stored' = NoPair
            /\ k \in (IF Refreshing(stored) THEN {} ELSE {stored} \cap Pairs)
        BY <2>1, <3>3
      <4>2. ~Refreshing(stored) /\ k = stored /\ k \in Pairs
        BY <4>1
      <4> QED BY <4>1, <4>2
    <3> QED BY <3>2, <3>3
  <2>2. ASSUME NEW k \in alive'
        PROVE  \/ k = stored' \/ k \in loose'
               \/ \E b \in Tabs : \/ k \in logins[b]
                                  \/ refresh[b].pc = "granted" /\ refresh[b].new = k
    <3>1. k \in alive
      BY <2>2
    <3>2. CASE k \in loose
      BY <2>2, <3>2
    <3>3. CASE k = stored
      BY <2>2, <3>3
    <3>4. \/ k = stored \/ k \in loose
          \/ \E b \in Tabs : k \in logins[b] \/ (refresh[b].pc = "granted" /\ refresh[b].new = k)
      BY <3>1 DEF AccountedFor
    <3> QED BY <3>2, <3>3, <3>4
  <2> QED BY <2>1, <2>2 DEF AccountedFor, Refreshing
<1> QED BY <1>2, <1>3, <1>5, <1>7, <1>8, <1>9 DEF Rest

LEMMA RestStays ==
    ASSUME IInv, UNCHANGED <<stored, refresh, logins, leave, nextPair, alive, history>>
    PROVE  Rest'
BY DEF IInv, Rest, Issued, Answers, Unseen, Shared, RefreshedOnce, Consumed, AccountedFor,
       Refreshing, history

LEMMA AsksRest ==
    ASSUME IInv, NEW b \in Tabs, Asks(b)
    PROVE  Rest'
<1> USE DEF IInv, TypeOK
<1>1. /\ refresh[b].pc = "none" /\ stored # NoPair /\ stored \notin presented[b]
      /\ refresh' = [refresh EXCEPT ![b] = [pc |-> "asked", old |-> stored, new |-> NoPair]]
      /\ presented' = [presented EXCEPT ![b] = @ \cup {stored}]
      /\ again' = (again \/ stored \in presented[b])
      /\ UNCHANGED <<stored, copy, logins, leave, nextPair, expired, alive, loose, ended>>
  BY DEF Asks, Shared
<1>2. /\ refresh'[b].pc = "asked" /\ refresh'[b].old = stored /\ refresh'[b].new = NoPair
      /\ \A c \in Tabs \ {b} : refresh'[c] = refresh[c] /\ presented'[c] = presented[c]
      /\ presented'[b] = presented[b] \cup {stored}
  BY <1>1
<1>3. Issued'
  <2>1. stored \in 1..(nextPair - 1) /\ NoPair < nextPair
    BY <1>1 DEF Issued, BrowserAssumption
  <2> QED BY <1>1, <1>2, <2>1 DEF Issued
<1>4. Answers'
  BY <1>2 DEF Answers
<1>5. Unseen'
  BY <1>1, <1>2 DEF Unseen
<1>6. Shared'
  BY <1>1, <1>2 DEF Shared
<1>7. RefreshedOnce'
  BY <1>1 DEF RefreshedOnce
<1>8. Consumed'
  BY <1>1, <1>2 DEF Consumed
<1>9. AccountedFor'
  BY <1>1, <1>2 DEF AccountedFor, Refreshing
<1> QED BY <1>3, <1>4, <1>5, <1>6, <1>7, <1>8, <1>9 DEF Rest

\* A pair that is issued now is nowhere yet.
LEMMA NewPair ==
    ASSUME BrowserAssumption, IInv
    PROVE  /\ nextPair \in Nat /\ nextPair # NoPair /\ nextPair # stored /\ nextPair \notin ended
           /\ nextPair \notin alive
           /\ \A c \in Tabs : /\ nextPair \notin presented[c] /\ nextPair \notin logins[c]
                              /\ refresh[c].new # nextPair /\ refresh[c].old # nextPair
                              /\ leave[c].tok # nextPair
<1> USE DEF IInv, TypeOK
<1>1. nextPair \in Nat /\ nextPair # NoPair /\ nextPair \notin 1..(nextPair - 1)
  BY DEF BrowserAssumption
<1>2. ASSUME NEW c \in Tabs
      PROVE  refresh[c].new \in Nat /\ refresh[c].old \in Nat /\ leave[c].tok \in Nat
  BY DEF Refresh, Leave
<1> QED BY <1>1, <1>2 DEF Issued

LEMMA ServeLoginRest ==
    ASSUME BrowserAssumption, IInv, NEW b \in Tabs, ServeLogin(b)
    PROVE  Rest'
<1> USE DEF IInv, TypeOK
<1>1. /\ nextPair \in Nat /\ nextPair # NoPair
      /\ alive' = alive \cup {nextPair} /\ nextPair' = nextPair + 1
      /\ logins'[b] = logins[b] \cup {nextPair} /\ \A c \in Tabs \ {b} : logins'[c] = logins[c]
      /\ UNCHANGED <<stored, refresh, leave, expired, presented, again, loose, ended>>
  BY DEF ServeLogin, history, BrowserAssumption
<1>2. /\ nextPair # stored /\ nextPair \notin ended
      /\ \A c \in Tabs : /\ nextPair \notin presented[c] /\ nextPair \notin logins[c]
                         /\ refresh[c].new # nextPair /\ refresh[c].old # nextPair
                         /\ leave[c].tok # nextPair
  BY NewPair
<1>3. Issued'
  BY <1>1 DEF Issued, Refresh, Leave
<1>4. Answers' /\ RefreshedOnce' /\ Shared'
  BY <1>1 DEF Answers, RefreshedOnce, Shared
<1>5. Unseen'
  <2>1. ASSUME NEW c \in Tabs, refresh[c].pc = "granted"
        PROVE  /\ refresh[c].new # stored /\ refresh[c].new \notin ended
               /\ \A d \in Tabs : /\ refresh[c].new \notin presented[d]
                                  /\ refresh[c].new \notin logins'[d]
                                  /\ refresh[d].pc = "granted" /\ refresh[d].new = refresh[c].new
                                     => d = c
    <3>1. /\ refresh[c].new # stored /\ refresh[c].new \notin ended
          /\ \A d \in Tabs : /\ refresh[c].new \notin presented[d]
                             /\ refresh[c].new \notin logins[d]
                             /\ refresh[d].pc = "granted" /\ refresh[d].new = refresh[c].new
                                => d = c
      BY <2>1 DEF Unseen
    <3>2. \A d \in Tabs : logins'[d] \subseteq logins[d] \cup {nextPair}
      BY <1>1
    <3> QED BY <1>2, <3>1, <3>2
  <2>2. ASSUME NEW c \in Tabs, NEW k \in logins'[c]
        PROVE  /\ k # stored /\ k \notin ended
               /\ \A d \in Tabs : k \notin presented[d] /\ (k \in logins'[d] => d = c)
    <3>1. CASE k = nextPair
      BY <1>1, <1>2, <2>2, <3>1
    <3>2. CASE k # nextPair
      <4>1. \A d \in Tabs : k \in logins'[d] <=> k \in logins[d]
        BY <1>1, <3>2
      <4>2. k \in logins[c]
        BY <2>2, <4>1
      <4>3. c \in Tabs /\ Unseen
        OBVIOUS
      <4>4. /\ k # stored /\ k \notin ended
            /\ \A d \in Tabs : k \notin presented[d] /\ (k \in logins[d] => d = c)
        BY ONLY <4>2, <4>3 DEF Unseen
      <4> QED BY ONLY <4>1, <4>4
    <3> QED BY <3>1, <3>2
  <2> QED BY <1>1, <2>1, <2>2 DEF Unseen
<1>6. Consumed'
  BY <1>1, <1>2 DEF Consumed
<1>7. AccountedFor'
  BY <1>1 DEF AccountedFor, Refreshing
<1> QED BY <1>3, <1>4, <1>5, <1>6, <1>7 DEF Rest

LEMMA LoginAnsweredRest ==
    ASSUME BrowserAssumption, IInv, NEW b \in Tabs, NEW k \in Pairs, LoginAnswered(b, k)
    PROVE  Rest'
<1> USE DEF IInv, TypeOK
<1>1. /\ k \in logins[b] /\ stored' = k /\ loose' = loose \cup ({stored} \cap alive)
      /\ logins'[b] = logins[b] \ {k} /\ \A c \in Tabs \ {b} : logins'[c] = logins[c]
      /\ UNCHANGED <<refresh, leave, nextPair, alive, presented, again, ended>>
  BY DEF LoginAnswered, GiveUp
<1>2. /\ k \in 1..(nextPair - 1) /\ k \notin ended
      /\ \A c \in Tabs : /\ k \notin presented[c] /\ k \notin logins'[c]
                         /\ refresh[c].pc = "granted" => refresh[c].new # k
  BY <1>1 DEF Unseen
<1>3. Issued'
  BY <1>1, <1>2 DEF Issued, BrowserAssumption
<1>4. Answers' /\ RefreshedOnce' /\ Shared' /\ Consumed'
  BY <1>1, <1>2 DEF Answers, RefreshedOnce, Shared, Consumed
<1>5. \A c \in Tabs : logins'[c] \subseteq logins[c]
  BY <1>1
<1>6. Unseen'
  BY <1>1, <1>2, <1>5 DEF Unseen
<1>7. AccountedFor'
  <2>1. \A j \in ended : j # k /\ ~Refreshing(j)
    BY <1>2 DEF AccountedFor, Refreshing
  <2>2. \A j \in alive : \/ j = k \/ j \in loose'
                         \/ \E c \in Tabs : \/ j \in logins'[c]
                                            \/ refresh[c].pc = "granted" /\ refresh[c].new = j
    BY <1>1 DEF AccountedFor, Refreshing
  <2> QED BY <1>1, <2>1, <2>2 DEF AccountedFor, Refreshing
<1> QED BY <1>3, <1>4, <1>6, <1>7 DEF Rest

LEMMA LoginLostRest ==
    ASSUME BrowserAssumption, IInv, NEW b \in Tabs, NEW k \in Pairs, LoginLost(b, k)
    PROVE  Rest'
<1> USE DEF IInv, TypeOK
<1>1. /\ loose' = loose \cup ({k} \cap alive)
      /\ logins'[b] = logins[b] \ {k} /\ \A c \in Tabs \ {b} : logins'[c] = logins[c]
      /\ UNCHANGED <<stored, refresh, leave, nextPair, alive, presented, again, ended>>
  BY DEF LoginLost, GiveUp
<1>2. \A c \in Tabs : logins'[c] \subseteq logins[c]
  BY <1>1
<1>3. Issued' /\ Answers' /\ RefreshedOnce' /\ Shared' /\ Consumed'
  BY <1>1 DEF Issued, Answers, RefreshedOnce, Shared, Consumed
<1>4. Unseen'
  BY <1>1, <1>2 DEF Unseen
<1>5. AccountedFor'
  BY <1>1 DEF AccountedFor, Refreshing
<1> QED BY <1>3, <1>4, <1>5 DEF Rest

LEMMA ServeRefreshRest ==
    ASSUME BrowserAssumption, IInv, NEW b \in Tabs, ServeRefresh(b)
    PROVE  Rest'
<1> USE DEF IInv, TypeOK
<1>1. CASE refresh[b].old \in alive
  <2>1. /\ refresh[b].pc = "asked" /\ nextPair \in Pairs /\ nextPair' = nextPair + 1
        /\ alive' = (alive \ {refresh[b].old}) \cup {nextPair}
        /\ refresh' = [refresh EXCEPT ![b].pc = "granted", ![b].new = nextPair]
        /\ loose' = loose \ {refresh[b].old}
        /\ UNCHANGED <<stored, logins, leave, presented, again, ended>>
    BY <1>1 DEF ServeRefresh, Rotate
  <2>2. refresh[b] \in Refresh
    OBVIOUS
  <2>3. /\ refresh'[b].pc = "granted" /\ refresh'[b].new = nextPair
        /\ refresh'[b].old = refresh[b].old
        /\ \A c \in Tabs \ {b} : refresh'[c] = refresh[c]
    BY <2>1, <2>2 DEF Refresh
  <2>4. \A c \in Tabs : /\ nextPair \notin presented[c] /\ nextPair \notin logins[c]
                        /\ refresh[c].new # nextPair /\ refresh[c].old # nextPair
                        /\ leave[c].tok # nextPair
    BY NewPair
  <2>5. nextPair # stored /\ nextPair # NoPair /\ nextPair \notin ended
    BY NewPair
  <2>6. Issued'
    <3>1. nextPair \in Nat /\ nextPair < nextPair'
      BY <2>1 DEF BrowserAssumption
    <3>2. ASSUME NEW c \in Tabs
          PROVE  /\ refresh'[c].old < nextPair' /\ refresh'[c].new < nextPair'
                 /\ leave'[c].tok < nextPair'
      <4>1. refresh[c] \in Refresh /\ leave[c] \in Leave
        OBVIOUS
      <4>2. refresh[c].old \in Nat /\ refresh[c].new \in Nat /\ leave[c].tok \in Nat
        BY <4>1 DEF Refresh, Leave
      <4>3. /\ refresh[c].old < nextPair /\ refresh[c].new < nextPair
            /\ leave[c].tok < nextPair
        BY DEF Issued
      <4>4. refresh'[c].old = refresh[c].old /\ refresh'[c].new \in {refresh[c].new, nextPair}
        BY <2>3
      <4>5. leave'[c] = leave[c] /\ nextPair' = nextPair + 1
        BY <2>1
      <4> QED BY <3>1, <4>2, <4>3, <4>4, <4>5
    <3>3. \A c \in Tabs : presented'[c] \subseteq 1..(nextPair' - 1)
      BY <2>1, <3>1 DEF Issued
    <3>4. stored' < nextPair' /\ ended' \subseteq 1..(nextPair' - 1)
      BY <2>1, <3>1 DEF Issued, BrowserAssumption
    <3> QED BY <3>2, <3>3, <3>4 DEF Issued
  <2>7. Answers'
    BY <2>3, <2>5 DEF Answers
  <2>8. Unseen'
    BY <2>1, <2>3, <2>4, <2>5 DEF Unseen
  <2>9. Shared' /\ RefreshedOnce'
    BY <2>1, <2>3 DEF Shared, RefreshedOnce
  <2>10. Consumed'
    BY <2>1, <2>3, <2>4 DEF Consumed
  <2>11. AccountedFor'
    BY <2>1, <2>3 DEF AccountedFor, Refreshing
  <2> QED BY <2>6, <2>7, <2>8, <2>9, <2>10, <2>11 DEF Rest
<1>2. CASE refresh[b].old \notin alive
  <2>1. /\ refresh[b].pc = "asked"
        /\ refresh' = [refresh EXCEPT ![b].pc = "denied"]
        /\ UNCHANGED <<stored, logins, leave, alive, nextPair, presented, again, loose, ended>>
    BY <1>2 DEF ServeRefresh
  <2>2. refresh[b] \in Refresh
    OBVIOUS
  <2>3. /\ refresh'[b].pc = "denied" /\ refresh'[b].new = refresh[b].new
        /\ refresh'[b].old = refresh[b].old
        /\ \A c \in Tabs \ {b} : refresh'[c] = refresh[c]
    BY <2>1, <2>2 DEF Refresh
  <2>4. Issued' /\ Answers' /\ RefreshedOnce'
    BY <2>1, <2>3 DEF Issued, Answers, RefreshedOnce
  <2>5. Unseen' /\ Shared'
    BY <2>1, <2>3 DEF Unseen, Shared
  <2>6. Consumed'
    BY <1>2, <2>1, <2>3 DEF Consumed
  <2>7. AccountedFor'
    BY <2>1, <2>3 DEF AccountedFor, Refreshing
  <2> QED BY <2>4, <2>5, <2>6, <2>7 DEF Rest
<1> QED BY <1>1, <1>2

LEMMA RefreshGrantedRest ==
    ASSUME BrowserAssumption, IInv, NEW b \in Tabs, RefreshGranted(b)
    PROVE  Rest'
<1> USE DEF IInv, TypeOK
<1>1. /\ refresh[b].pc = "granted" /\ stored' = refresh[b].new
      /\ loose' = loose \cup ((IF Crossed(b) THEN {stored} ELSE {}) \cap alive)
      /\ refresh' = [refresh EXCEPT ![b] = NoRefresh]
      /\ UNCHANGED <<logins, leave, nextPair, alive, presented, again, ended>>
  BY DEF RefreshGranted, GiveUp
<1>2. /\ refresh'[b] = NoRefresh
      /\ \A c \in Tabs \ {b} : refresh'[c] = refresh[c]
  BY <1>1
<1>3. nextPair \in Nat /\ NoPair < nextPair
  BY DEF BrowserAssumption
<1>4. Issued'
  BY <1>1, <1>2, <1>3 DEF Issued, NoRefresh
<1>5. Answers' /\ RefreshedOnce'
  BY <1>1, <1>2 DEF Answers, RefreshedOnce, NoRefresh
<1>6. Unseen'
  BY <1>1, <1>2 DEF Unseen, NoRefresh
<1>7. Shared'
  BY <1>1 DEF Shared, Unseen
<1>8. Consumed'
  BY <1>1, <1>2 DEF Consumed, NoRefresh
<1>9. AccountedFor'
  <2>1. stored \in alive => stored \in loose'
    BY <1>1 DEF Crossed, Consumed
  <2>2. NoRefresh.old = NoPair /\ NoPair \notin ended /\ refresh[b].new \notin ended
    BY <1>1 DEF NoRefresh, Unseen
  <2> QED BY <1>1, <1>2, <2>1, <2>2 DEF AccountedFor, Refreshing
<1> QED BY <1>4, <1>5, <1>6, <1>7, <1>8, <1>9 DEF Rest

LEMMA RefreshRejectedRest ==
    ASSUME BrowserAssumption, IInv, NEW b \in Tabs, RefreshRejected(b)
    PROVE  Rest'
<1> USE DEF IInv, TypeOK
<1> DEFINE given == IF Crossed(b) \/ refresh[b].pc = "asked" THEN {stored, refresh[b].new}
                    ELSE {refresh[b].new}
<1>1. /\ refresh[b].pc # "none" /\ stored' = NoPair
      /\ loose' = loose \cup (given \cap alive)
      /\ refresh' = [refresh EXCEPT ![b] = NoRefresh]
      /\ UNCHANGED <<logins, leave, nextPair, alive, presented, again, ended>>
  BY DEF RefreshRejected, Forget, GiveUp
<1>2. /\ refresh'[b] = NoRefresh
      /\ \A c \in Tabs \ {b} : refresh'[c] = refresh[c]
  BY <1>1
<1>3. nextPair \in Nat /\ NoPair < nextPair
  BY DEF BrowserAssumption
<1>4. Issued'
  BY <1>1, <1>2, <1>3 DEF Issued, NoRefresh
<1>5. Answers' /\ RefreshedOnce'
  BY <1>1, <1>2 DEF Answers, RefreshedOnce, NoRefresh
<1>6. Unseen'
  BY <1>1, <1>2 DEF Unseen, Answers, NoRefresh
<1>7. Shared'
  <2>1. \A c \in Tabs : NoPair \notin presented[c]
    OBVIOUS
  <2> QED BY <1>1, <2>1 DEF Shared
<1>8. Consumed'
  BY <1>1, <1>2 DEF Consumed, NoRefresh
<1>9. AccountedFor'
  <2>1. stored \in alive => stored \in given
    <3>1. refresh[b] \in Refresh
      OBVIOUS
    <3>2. CASE Crossed(b) \/ refresh[b].pc = "asked"
      BY <3>2
    <3>3. CASE ~Crossed(b) /\ refresh[b].pc \in {"granted", "denied"}
      BY <3>3 DEF Crossed, Consumed
    <3> QED BY <1>1, <3>1, <3>2, <3>3 DEF Refresh
  <2>2. refresh[b].new \in given
    OBVIOUS
  <2>3. NoRefresh.old = NoPair /\ NoPair \notin ended
    BY DEF NoRefresh
  <2> HIDE DEF given
  <2> QED BY <1>1, <1>2, <2>1, <2>2, <2>3 DEF AccountedFor, Refreshing
<1> QED BY <1>4, <1>5, <1>6, <1>7, <1>8, <1>9 DEF Rest

-----------------------------------------------------------------------------
\* A tab's copy is a pair that was issued.
LEMMA CopiedStep ==
    ASSUME BrowserAssumption, IInv, [Next]_vars
    PROVE  Copied'
<1> SUFFICES ASSUME NEW c \in Tabs PROVE copy'[c] < nextPair'
  BY DEF Copied
<1>1. copy \in [Tabs -> Pair] /\ nextPair \in Nat /\ copy[c] \in Nat
  BY DEF IInv, TypeOK, BrowserAssumption
<1>2. copy[c] < nextPair /\ stored < nextPair /\ NoPair < nextPair
  BY DEF IInv, TypeOK, Copied, Issued, BrowserAssumption
<1>3. nextPair' = nextPair \/ nextPair' = nextPair + 1
  BY StepCases DEF IInv, vars, Moves, Asks, Drops, ServeLogin, LoginAnswered, LoginLost,
                   CheckAuth, Logout, Revoke, LogoutEnds,
     ServeRefresh, RefreshGranted, RefreshRejected, Expire
<1>4. \/ copy' = copy
      \/ \E b \in Tabs : copy' = [copy EXCEPT ![b] = NoPair]
      \/ \E b \in Tabs : copy' = [copy EXCEPT ![b] = stored]
      \/ \E b \in Tabs : \E k \in logins[b] : copy' = [copy EXCEPT ![b] = k]
  BY StepCases DEF IInv, vars, Moves, Asks, Drops, ServeLogin, LoginAnswered, LoginLost,
                   CheckAuth, Logout, Revoke, LogoutEnds,
     ServeRefresh, RefreshGranted, RefreshRejected, Expire, Forget
<1>5. copy'[c] \in {copy[c], NoPair, stored} \/ \E b \in Tabs : copy'[c] \in logins[b]
  BY <1>1, <1>4
<1>6. \A b \in Tabs : logins[b] \subseteq 1..(nextPair - 1)
  BY DEF IInv, TypeOK
<1> QED BY <1>1, <1>2, <1>3, <1>5, <1>6 DEF IInv, TypeOK

LEMMA InvStep ==
    ASSUME BrowserAssumption, IInv, [Next]_vars
    PROVE  IInv'
<1>1. TypeOK'
  BY TypeStep DEF IInv
<1>2. \A b \in Tabs : leave[b] \in Leave
  BY DEF IInv, TypeOK
<1>3. ASSUME UNCHANGED vars PROVE Rest'
  BY <1>3, RestStays DEF vars, history
<1>4. ASSUME Moves PROVE Rest'
  BY <1>4, RestStays DEF Moves, history
<1>5. ASSUME NEW b \in Tabs, Drops(b) PROVE Rest'
  BY <1>5, RestTakes DEF Drops, Forget, GiveUp
<1>6. ASSUME NEW b \in Tabs, CheckAuth(b) PROVE Rest'
  BY <1>6, RestStays DEF CheckAuth, history
<1>7. ASSUME NEW b \in Tabs, Logout(b) PROVE Rest'
  <2>1. UNCHANGED <<stored, refresh, logins, nextPair, alive, presented, again, loose, ended>>
    BY <1>7 DEF Logout, history
  <2>2. leave'[b] = [pc |-> "asked", tok |-> TokenToRevoke(b)]
        /\ \A c \in Tabs \ {b} : leave'[c] = leave[c]
    BY <1>7 DEF Logout, IInv, TypeOK
  <2>3. TokenToRevoke(b) < nextPair
    BY DEF TokenToRevoke, IInv, Issued, Copied
  <2>4. leave'[b].pc # "revoked" /\ leave'[b].tok < nextPair
    BY <2>2, <2>3
  <2> QED BY <2>1, <2>2, <2>4, RestTakes
<1>8. ASSUME NEW b \in Tabs, Revoke(b) PROVE Rest'
  <2>1. /\ alive' = alive \ {leave[b].tok} /\ loose' = loose \ {leave[b].tok}
        /\ UNCHANGED <<stored, refresh, logins, nextPair, presented, again, ended>>
    BY <1>8 DEF Revoke
  <2>2. leave'[b].tok = leave[b].tok /\ \A c \in Tabs \ {b} : leave'[c] = leave[c]
    BY <1>2, <1>8 DEF Revoke, IInv, TypeOK, Leave
  <2> QED BY <2>1, <2>2, RestTakes
<1>9. ASSUME NEW b \in Tabs, LogoutEnds(b) PROVE Rest'
  <2>1. /\ stored' = NoPair
        /\ ended' = ended \cup (IF Refreshing(stored) THEN {} ELSE {stored} \cap Pairs)
        /\ UNCHANGED <<refresh, logins, nextPair, alive, presented, again>>
    BY <1>9 DEF LogoutEnds, Forget
  <2>2. leave'[b] = NoLeave /\ \A c \in Tabs \ {b} : leave'[c] = leave[c]
    BY <1>9 DEF LogoutEnds, IInv, TypeOK
  <2>3. loose \subseteq loose' /\ (stored \in alive => stored \in loose')
    BY <1>9 DEF LogoutEnds, GiveUp, IInv, Consumed
  <2>4. NoPair < nextPair
    BY DEF IInv, TypeOK, BrowserAssumption
  <2> QED BY <2>1, <2>2, <2>3, <2>4, RestTakes DEF NoLeave
<1>10. ASSUME NEW k \in Pairs, Expire(k) PROVE Rest'
  BY <1>10, RestStays DEF Expire, history
<1>11. Rest'
  BY <1>3, <1>4, <1>5, <1>6, <1>7, <1>8, <1>9, <1>10, AsksRest, ServeLoginRest, LoginAnsweredRest,
     LoginLostRest, ServeRefreshRest, RefreshGrantedRest, RefreshRejectedRest, StepCases DEF IInv
<1> QED BY <1>1, <1>11, CopiedStep DEF IInv, Rest

LEMMA Invariant == BrowserAssumption => (Spec => []IInv)
<1> SUFFICES ASSUME BrowserAssumption PROVE Spec => []IInv
  OBVIOUS
<1>1. Init => IInv
  BY InitInv
<1>2. IInv /\ [Next]_vars => IInv'
  BY InvStep
<1> QED BY <1>1, <1>2, PTL DEF Spec

\* The state of the browser keeps its type, whatever its tabs do.
THEOREM TypeCorrect == Spec => []TypeOK
<1>1. IInv => TypeOK
  BY DEF IInv
<1> QED BY <1>1, BrowserAssumption, Invariant, PTL

\* No tab presents a refresh token for the second time: the requests of a tab
\* that meet an expired access token share one refresh (refreshPromise).
THEOREM RefreshOnce == Spec => []RefreshedOnce
<1>1. IInv => RefreshedOnce
  BY DEF IInv
<1> QED BY <1>1, BrowserAssumption, Invariant, PTL

\* Every refresh token the server would accept is in localStorage, in an
\* answer to a login or a refresh, or among those the browser is known to give
\* up; and a session that a logout has ended does not come back, unless a
\* refresh was under way for it.
THEOREM NothingLeftOpen == Spec => []AccountedFor
<1>1. IInv => AccountedFor
  BY DEF IInv
<1> QED BY <1>1, BrowserAssumption, Invariant, PTL
=============================================================================
