--------------------------- MODULE BrowserSession ----------------------------
(***************************************************************************)
(* The session of a user in a browser: the token pair that all tabs share  *)
(* in localStorage, the copy every tab keeps in its store (stores/auth.js),*)
(* the requests that refresh it when they meet an expired access token     *)
(* (utils/request.js), login, logout and the router's check.  The server   *)
(* is what AuthSessions promises: a refresh token is consumed once.        *)
(* Requests of a tab share one refresh; tabs share nothing but the storage.*)
(***************************************************************************)
EXTENDS Integers, FiniteSets

CONSTANTS Tabs, Requests, TabOf,
          MaxPairs      \* bound: token pairs ever issued

ASSUME BrowserAssumption == TabOf \in [Requests -> Tabs] /\ MaxPairs \in Nat

Pairs == 1..MaxPairs    \* an access token and the refresh token issued with it
NoPair == 0

VARIABLES
    stored,     \* the pair in localStorage
    copy,       \* copy[b]: token and refreshToken of the store of tab b
    refresh,    \* refresh[b]: refreshPromise of tab b
    req,        \* what every request is doing
    logins,     \* logins[b]: the pairs in answers to logins of tab b, on their way
    leave,      \* leave[b]: the logout under way in tab b
    nextPair,   \* the next pair the server issues
    expired,    \* the pairs whose access token has expired
    alive,      \* the pairs whose refresh token the server would accept
    presented,  \* history: presented[b]: the refresh tokens tab b has presented
    again,      \* history: a tab presented a refresh token for the second time
    loose,      \* history: the live refresh tokens the browser has given up
    ended       \* history: the pairs stored at a logout, and not being refreshed then

vars == <<stored, copy, refresh, req, logins, leave, nextPair, expired, alive,
          presented, again, loose, ended>>

history == <<presented, again, loose, ended>>
Pair == Pairs \cup {NoPair}

\* old: the refresh token presented; new: the pair answered.
Refresh == [pc : {"none", "asked", "granted", "denied"}, old : Pair, new : Pair]
NoRefresh == [pc |-> "none", old |-> NoPair, new |-> NoPair]

\* await, await401: for the tab's refresh, before the request is sent or
\* after it was answered with 401.  tok: the access token it was sent with.
Request == [pc : {"idle", "repeat", "await", "sent", "await401"}, tok : Pair, retried : BOOLEAN]
Idle == [pc |-> "idle", tok |-> NoPair, retried |-> FALSE]

Leave == [pc : {"none", "asked", "revoked"}, tok : Pair]
NoLeave == [pc |-> "none", tok |-> NoPair]

TypeOK ==
    /\ stored \in Pair /\ copy \in [Tabs -> Pair]
    /\ refresh \in [Tabs -> Refresh]
    /\ req \in [Requests -> Request]
    /\ logins \in [Tabs -> SUBSET (1..(nextPair - 1))]
    /\ leave \in [Tabs -> Leave]
    /\ nextPair \in 1..(MaxPairs + 1)
    /\ expired \subseteq 1..(nextPair - 1) /\ alive \subseteq 1..(nextPair - 1)
    /\ presented \in [Tabs -> SUBSET Pairs] /\ again \in BOOLEAN
    /\ loose \subseteq Pairs /\ ended \subseteq Pairs

Init ==
    /\ stored = NoPair /\ copy = [b \in Tabs |-> NoPair]
    /\ refresh = [b \in Tabs |-> NoRefresh]
    /\ req = [q \in Requests |-> Idle]
    /\ logins = [b \in Tabs |-> {}] /\ leave = [b \in Tabs |-> NoLeave]
    /\ nextPair = 1 /\ expired = {} /\ alive = {}
    /\ presented = [b \in Tabs |-> {}] /\ again = FALSE /\ loose = {} /\ ended = {}

-----------------------------------------------------------------------------
(***************************************************************************)
(* login, logout and checkAuth                                             *)
(***************************************************************************)
\* resetAuthState, clearStoredAuth
Forget(b) == stored' = NoPair /\ copy' = [copy EXCEPT ![b] = NoPair]

\* The browser gives up the live refresh tokens among S.
GiveUp(S) == loose' = loose \cup (S \cap alive)

\* The server answers a login of tab b with a pair.  The form may have been
\* sent long before, when the tab showed the login page, and more than once.
ServeLogin(b) ==
    /\ nextPair \in Pairs
    /\ logins' = [logins EXCEPT ![b] = @ \cup {nextPair}]
    /\ alive' = alive \cup {nextPair} /\ nextPair' = nextPair + 1
    /\ UNCHANGED <<stored, copy, refresh, req, leave, expired, history>>

\* The pair is stored, whatever is stored by now.
LoginAnswered(b, k) ==
    /\ k \in logins[b]
    /\ logins' = [logins EXCEPT ![b] = @ \ {k}]
    /\ stored' = k /\ copy' = [copy EXCEPT ![b] = k]
    /\ GiveUp({stored})
    /\ UNCHANGED <<refresh, req, leave, nextPair, expired, alive, presented, again, ended>>

\* The answer is lost, or comes after the timeout.
LoginLost(b, k) ==
    /\ k \in logins[b]
    /\ logins' = [logins EXCEPT ![b] = @ \ {k}]
    /\ GiveUp({k})
    /\ UNCHANGED <<stored, copy, refresh, req, leave, nextPair, expired, alive, presented, again,
                   ended>>

\* A login that is refused is a 401 like any other: redirectToLogin.
LoginRefused(b) ==
    /\ Forget(b) /\ GiveUp({stored})
    /\ UNCHANGED <<refresh, req, logins, leave, nextPair, expired, alive, presented, again, ended>>

\* checkAuth, before every navigation: the copy is brought up to date.
CheckAuth(b) ==
    /\ copy[b] # stored
    /\ copy' = [copy EXCEPT ![b] = stored]
    /\ UNCHANGED <<stored, refresh, req, logins, leave, nextPair, expired, alive, history>>

TokenToRevoke(b) == IF copy[b] # NoPair THEN copy[b] ELSE stored

\* The user leaves; the token of the tab's copy is to be revoked.
Logout(b) ==
    /\ leave[b].pc = "none" /\ TokenToRevoke(b) # NoPair
    /\ leave' = [leave EXCEPT ![b] = [pc |-> "asked", tok |-> TokenToRevoke(b)]]
    /\ UNCHANGED <<stored, copy, refresh, req, logins, nextPair, expired, alive, history>>

Revoke(b) ==
    /\ leave[b].pc = "asked"
    /\ alive' = alive \ {leave[b].tok} /\ loose' = loose \ {leave[b].tok}
    /\ leave' = [leave EXCEPT ![b].pc = "revoked"]
    /\ UNCHANGED <<stored, copy, refresh, req, logins, nextPair, expired, presented, again, ended>>

\* A refresh of k is under way.
Refreshing(k) == \E b \in Tabs : refresh[b].old = k

\* The answer, or the failure of the call: either way the tab is logged out.
LogoutEnds(b) ==
    /\ leave[b].pc # "none"
    /\ leave' = [leave EXCEPT ![b] = NoLeave]
    /\ Forget(b)
    /\ GiveUp(IF leave[b].pc = "revoked" /\ leave[b].tok = stored THEN {} ELSE {stored})
    /\ ended' = ended \cup (IF Refreshing(stored) THEN {} ELSE {stored} \cap Pairs)
    /\ UNCHANGED <<refresh, req, logins, nextPair, expired, alive, presented, again>>

(***************************************************************************)
(* A request.                                                              *)
(***************************************************************************)
\* Mutant of Joins: a refresh under way is not shared.
JoinsNone(b) == FALSE

\* refreshAccessToken returns the refreshPromise there is.
Joins(b) == refresh[b].pc # "none"

\* refreshAccessToken: the request q waits at pc.
RefreshAccessToken(q, pc) ==
    LET b == TabOf[q] IN
    /\ req' = [req EXCEPT ![q].pc = pc, ![q].tok = NoPair]
    /\ IF Joins(b) THEN UNCHANGED <<refresh, presented, again>>
       ELSE /\ refresh' = [refresh EXCEPT ![b] = [pc |-> "asked", old |-> stored, new |-> NoPair]]
            /\ presented' = [presented EXCEPT ![b] = @ \cup {stored}]
            /\ again' = (again \/ stored \in presented[b])
    /\ UNCHANGED <<stored, copy, logins, leave, nextPair, expired, alive, loose, ended>>

\* redirectToLogin, and the router's checkAuth on the way.
RedirectToLogin(q) ==
    /\ req' = [req EXCEPT ![q] = Idle]
    /\ Forget(TabOf[q]) /\ GiveUp({stored})
    /\ UNCHANGED <<refresh, logins, leave, nextPair, expired, alive, presented, again, ended>>

\* refreshAccessToken throws: there is no refresh token.
NoToken(b) == ~Joins(b) /\ stored = NoPair

\* The request interceptor.  The clock of the browser may show an access
\* token as valid when the server does not.
Intercept(q) ==
    \/ stored \in expired /\ RefreshAccessToken(q, "await")
    \/ /\ req' = [req EXCEPT ![q].pc = "sent", ![q].tok = stored]
       /\ UNCHANGED <<stored, copy, refresh, logins, leave, nextPair, expired, alive, history>>

Begin(q) == req[q].pc = "idle" /\ Intercept(q)
Repeat(q) == req[q].pc = "repeat" /\ Intercept(q)

\* Any answer but 401, or none.
Answered(q) ==
    /\ req[q].pc = "sent"
    /\ req' = [req EXCEPT ![q] = Idle]
    /\ UNCHANGED <<stored, copy, refresh, logins, leave, nextPair, expired, alive, history>>

\* The response interceptor on 401.
Unauthorized(q) ==
    /\ req[q].pc = "sent" /\ (req[q].tok = NoPair \/ req[q].tok \in expired)
    /\ IF req[q].retried \/ NoToken(TabOf[q]) THEN RedirectToLogin(q)
       ELSE RefreshAccessToken(q, "await401")

(***************************************************************************)
(* The refresh of a tab.                                                   *)
(***************************************************************************)
Rotate(b) == (alive \ {refresh[b].old}) \cup {nextPair}

\* The server consumes the refresh token and issues a new pair, or refuses.
ServeRefresh(b) ==
    /\ refresh[b].pc = "asked"
    /\ IF refresh[b].old \in alive
       THEN /\ nextPair \in Pairs
            /\ alive' = Rotate(b) /\ loose' = loose \ {refresh[b].old} /\ nextPair' = nextPair + 1
            /\ refresh' = [refresh EXCEPT ![b].pc = "granted", ![b].new = nextPair]
       ELSE refresh' = [refresh EXCEPT ![b].pc = "denied"] /\ UNCHANGED <<alive, loose, nextPair>>
    /\ UNCHANGED <<stored, copy, req, logins, leave, expired, presented, again, ended>>

\* Another pair has been stored, or none, since the refresh began.
Crossed(b) == refresh[b].old # stored

Waits(q, b) == TabOf[q] = b /\ req[q].pc \in {"await", "await401"}

\* Mutant of Resumed: only the request that asked goes on.
ResumedOne(b, k) ==
    LET first == CHOOSE q \in Requests : Waits(q, b) IN
    [req EXCEPT ![first] = IF @.pc = "await" THEN [@ EXCEPT !.pc = "sent", !.tok = k]
                           ELSE [@ EXCEPT !.pc = "repeat", !.retried = TRUE]]

\* All that wait go on: those not yet sent are sent with the new token, those
\* answered with 401 are made once more.
Resumed(b, k) ==
    [q \in Requests |->
        IF ~Waits(q, b) THEN req[q]
        ELSE IF req[q].pc = "await" THEN [req[q] EXCEPT !.pc = "sent", !.tok = k]
        ELSE [req[q] EXCEPT !.pc = "repeat", !.retried = TRUE]]

\* Mutant of RefreshGranted: the new pair is used and not stored.
RefreshGrantedUnstored(b) ==
    /\ refresh[b].pc = "granted"
    /\ refresh' = [refresh EXCEPT ![b] = NoRefresh]
    /\ req' = Resumed(b, refresh[b].new)
    /\ UNCHANGED <<stored, copy, logins, leave, nextPair, expired, alive, history>>

\* The new pair is stored, whatever is stored by now.  The copy in the store
\* of the tab is left as it is.
RefreshGranted(b) ==
    /\ refresh[b].pc = "granted"
    /\ stored' = refresh[b].new
    /\ GiveUp(IF Crossed(b) THEN {stored} ELSE {})
    /\ refresh' = [refresh EXCEPT ![b] = NoRefresh]
    /\ req' = Resumed(b, refresh[b].new)
    /\ UNCHANGED <<copy, logins, leave, nextPair, expired, alive, presented, again, ended>>

\* The refresh is denied or its answer lost: all that wait redirect to login.
RefreshRejected(b) ==
    /\ refresh[b].pc # "none"
    /\ refresh' = [refresh EXCEPT ![b] = NoRefresh]
    /\ req' = [q \in Requests |-> IF Waits(q, b) THEN Idle ELSE req[q]]
    /\ Forget(b)
    /\ GiveUp(IF Crossed(b) \/ refresh[b].pc = "asked" THEN {stored, refresh[b].new}
              ELSE {refresh[b].new})
    /\ UNCHANGED <<logins, leave, nextPair, expired, alive, presented, again, ended>>

Expire(k) ==
    /\ k \in 1..(nextPair - 1) /\ k \notin expired
    /\ expired' = expired \cup {k}
    /\ UNCHANGED <<stored, copy, refresh, req, logins, leave, nextPair, alive, history>>

-----------------------------------------------------------------------------
Step(q) == Repeat(q) \/ Answered(q) \/ Unauthorized(q)
Settle(b) == ServeRefresh(b) \/ RefreshGranted(b) \/ RefreshRejected(b)

Next ==
    \/ \E b \in Tabs : \/ ServeLogin(b) \/ LoginRefused(b)
                       \/ CheckAuth(b) \/ Logout(b) \/ Revoke(b) \/ LogoutEnds(b)
                       \/ Settle(b)
    \/ \E b \in Tabs, k \in Pairs : LoginAnswered(b, k) \/ LoginLost(b, k)
    \/ \E q \in Requests : Begin(q) \/ Step(q)
    \/ \E k \in Pairs : Expire(k)

Spec == Init /\ [][Next]_vars

\* A request or a refresh ends, if only by its timeout of two minutes.
Fairness == /\ \A q \in Requests : WF_vars(Step(q))
            /\ \A b \in Tabs : WF_vars(Settle(b))

FairSpec == Spec /\ Fairness

-----------------------------------------------------------------------------
\* A tab presents a refresh token once, however many of its requests meet the
\* expired access token: the server would refuse it the second time and the
\* user would have to log in.  (Two tabs may present the same one.)
RefreshedOnce == ~again

\* The browser leaves no session open behind it: a refresh token that is
\* alive is in localStorage, or is on its way there in the answer of a login
\* or of the refresh that has consumed the one before.  Those it does give up
\* (loose) are lost with a call or its answer, are dropped with a request or a
\* login that is refused, or are replaced or dropped while a login, a refresh
\* or a logout for another pair was under way.  And what a logout has ended
\* does not come back, in whatever tab: unless a refresh was under way for it
\* at the end of the logout, it is never stored and never refreshed again.
AccountedFor ==
    /\ \A k \in alive :
           \/ k = stored \/ k \in loose
           \/ \E b \in Tabs : k \in logins[b] \/ (refresh[b].pc = "granted" /\ refresh[b].new = k)
    /\ \A k \in ended : k # stored /\ ~Refreshing(k)

\* Every request comes to an end: none waits for a refresh that is over, and
\* none is repeated for ever.
RequestsEnd == \A q \in Requests : (req[q].pc # "idle") ~> (req[q].pc = "idle")
=============================================================================
