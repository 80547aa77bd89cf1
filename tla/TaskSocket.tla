----------------------------- MODULE TaskSocket ------------------------------
(***************************************************************************)
(* The channel for task updates: the TaskEventHub of every Backend         *)
(* process, the WebSocket controller that subscribes connections to it,    *)
(* and the one socket a browser tab keeps for its views (taskSocket.js),   *)
(* with the session it is opened for.  Connections break, reports of their *)
(* end come late, the hub sends to a list of subscribers copied before, and*)
(* the session changes without the socket: it lies in localStorage, which  *)
(* all tabs share and to which late answers are written.                   *)
(***************************************************************************)
EXTENDS Integers, Sequences, FiniteSets

CONSTANTS Users, Replicas,
          Views,     \* the components that call subscribeTaskEvents
          Events,    \* publications, each made once
          Sockets,   \* bound: the connections that exist at a time
          None

ASSUME ChannelAssumption == None \notin Users \cup Sockets \cup Replicas

VARIABLES
    session,      \* the user of the token in localStorage
    refreshing,   \* refreshPromise of the tab: the user whose token is being refreshed
    listeners,    \* taskSocket.js: listeners, socket, reconnectTimer, manualClose
    socket,
    reconnectTimer,
    manualClose,
    conn,         \* every WebSocket of the tab, closed or not
    hub,          \* hub[r][u]: the keys of subscribers_[u] in replica r
    sending,      \* sending[e]: the copied subscribers e has not been sent to yet
    published,    \* published[e]: whose task it is about, None before it is published
    seen,         \* history: the events dispatched to the listeners
    refused,      \* history: the last socket was closed with code 1008
    swapped,      \* history: the session has changed since the tab opened or closed its socket
    overtaken     \* history: a close was reported after a newer socket was opened

vars == <<session, refreshing, listeners, socket, reconnectTimer, manualClose, conn, hub,
          sending, published, seen, refused, swapped, overtaken>>

client == <<listeners, socket, reconnectTimer, manualClose>>
tab == <<session, refreshing, client, swapped>>
server == <<hub, sending, published>>

\* user: of the token in its url.  inbox: sent and not received.
Connection == [state : {"connecting", "open", "closing", "closed"},
               user : Users \cup {None}, inbox : Seq(Events)]
Closed == [state |-> "closed", user |-> None, inbox |-> << >>]

TypeOK ==
    /\ session \in Users \cup {None} /\ refreshing \in Users \cup {None}
    /\ listeners \subseteq Views /\ socket \in Sockets \cup {None}
    /\ reconnectTimer \in BOOLEAN /\ manualClose \in BOOLEAN
    /\ conn \in [Sockets -> Connection]
    /\ hub \in [Replicas -> [Users -> SUBSET Sockets]]
    /\ sending \in [Events -> SUBSET Sockets]
    /\ published \in [Events -> Users \cup {None}]
    /\ seen \subseteq {e \in Events : published[e] # None}
    /\ refused \in BOOLEAN /\ swapped \in BOOLEAN /\ overtaken \in BOOLEAN

Init ==
    /\ session = None /\ refreshing = None
    /\ listeners = {} /\ socket = None /\ reconnectTimer = FALSE /\ manualClose = FALSE
    /\ conn = [s \in Sockets |-> Closed]
    /\ hub = [r \in Replicas |-> [u \in Users |-> {}]] /\ sending = [e \in Events |-> {}]
    /\ published = [e \in Events |-> None] /\ seen = {}
    /\ refused = FALSE /\ swapped = FALSE /\ overtaken = FALSE

-----------------------------------------------------------------------------
Live(s) == conn[s].state \in {"connecting", "open"}

\* Closed, and forgotten by the server.
Unused(s) ==
    /\ conn[s].state = "closed"
    /\ \A r \in Replicas, u \in Users : s \notin hub[r][u]
    /\ \A e \in Events : s \notin sending[e]

\* ensureTaskSocketConnected has nothing to do.
Connected == socket # None /\ Live(socket)

NewWebSocket(s) ==
    /\ Unused(s)
    /\ socket' = s /\ swapped' = FALSE
    /\ conn' = [conn EXCEPT ![s] = [state |-> "connecting", user |-> session, inbox |-> << >>]]

\* Mutant of EnsureConnected: manualClose is not taken back.
EnsureConnectedStaysClosed ==
    IF Connected \/ session = None THEN UNCHANGED <<socket, manualClose, conn, refused, swapped>>
    ELSE /\ \E s \in Sockets : NewWebSocket(s)
         /\ refused' = FALSE /\ UNCHANGED manualClose

\* ensureTaskSocketConnected.  The session, and so the url, may be missing.
EnsureConnected ==
    IF Connected \/ session = None THEN UNCHANGED <<socket, manualClose, conn, refused, swapped>>
    ELSE /\ \E s \in Sockets : NewWebSocket(s)
         /\ manualClose' = FALSE /\ refused' = FALSE

\* Mutant of CloseTaskSocket: only a socket that is open is closed.
CloseTaskSocketIfOpen ==
    /\ manualClose' = TRUE /\ reconnectTimer' = FALSE /\ socket' = None /\ swapped' = FALSE
    /\ conn' = [s \in Sockets |->
           IF s = socket /\ conn[s].state = "open"
           THEN [conn[s] EXCEPT !.state = "closing", !.inbox = << >>] ELSE conn[s]]

\* A socket that is closing hands out no messages any more.
CloseTaskSocket ==
    /\ manualClose' = TRUE /\ reconnectTimer' = FALSE /\ socket' = None /\ swapped' = FALSE
    /\ conn' = [s \in Sockets |->
           IF s = socket /\ Live(s)
           THEN [conn[s] EXCEPT !.state = "closing", !.inbox = << >>] ELSE conn[s]]

ScheduleReconnect ==
    reconnectTimer' = (reconnectTimer \/ (~manualClose /\ listeners # {}))

\* onclose: socket is set to null whichever socket has been closed.
OnClose(s, code1008) ==
    /\ conn[s].state # "closed"
    /\ conn' = [conn EXCEPT ![s] = Closed]
    /\ socket' = None
    /\ overtaken' = (overtaken \/ socket \notin {s, None})
    /\ IF code1008 THEN refused' = TRUE /\ UNCHANGED reconnectTimer
                   ELSE ScheduleReconnect /\ UNCHANGED refused
    /\ UNCHANGED <<listeners, manualClose, swapped>>

(***************************************************************************)
(* The views.                                                              *)
(***************************************************************************)
\* A view is mounted.  The router's guard came before, and the session may be
\* gone by now.
Subscribe(v) ==
    /\ v \notin listeners
    /\ listeners' = listeners \cup {v}
    /\ EnsureConnected
    /\ UNCHANGED <<session, refreshing, reconnectTimer, server, seen, overtaken>>

Unsubscribe(v) ==
    /\ v \in listeners
    /\ listeners' = listeners \ {v}
    /\ IF listeners = {v} THEN CloseTaskSocket
                          ELSE UNCHANGED <<socket, reconnectTimer, manualClose, conn, swapped>>
    /\ UNCHANGED <<session, refreshing, server, seen, refused, overtaken>>

ReconnectFires ==
    /\ reconnectTimer
    /\ reconnectTimer' = FALSE
    /\ EnsureConnected
    /\ UNCHANGED <<session, refreshing, listeners, server, seen, overtaken>>

(***************************************************************************)
(* The session.  Only a tab that logs itself out closes its socket: no one *)
(* listens for changes of the storage.                                     *)
(***************************************************************************)
\* What localStorage holds becomes u, and the socket is left as it is.
Store(u) ==
    /\ session' = u /\ swapped' = (swapped \/ u # session)
    /\ UNCHANGED <<client, conn, server, seen, refused, overtaken>>

\* The answer of a login is stored, in this tab or in another, or another
\* tab's refresh.
Login(u) == Store(u) /\ UNCHANGED refreshing

\* clearStoredAuth in another tab.
ClearedElsewhere == session # None /\ Store(None) /\ UNCHANGED refreshing

\* resetAuthState and redirectToLogin in this tab, also when nothing is stored.
Leave ==
    /\ session' = None
    /\ CloseTaskSocket
    /\ UNCHANGED <<listeners, server, seen, refused, overtaken>>

Logout == Leave /\ UNCHANGED refreshing

\* refreshAccessToken presents the token that is stored.
RefreshBegins ==
    /\ refreshing = None /\ session # None
    /\ refreshing' = session
    /\ UNCHANGED <<session, client, conn, server, seen, refused, swapped, overtaken>>

\* The new pair is stored, whatever is stored by then.
RefreshStored == refreshing # None /\ refreshing' = None /\ Store(refreshing)

\* Those who waited for the refresh redirect to login.
RefreshFails == refreshing # None /\ refreshing' = None /\ Leave

(***************************************************************************)
(* The connections and the hub.                                            *)
(***************************************************************************)
\* handleNewConnection with a token that is verified.
Accept(s, r) ==
    /\ conn[s].state = "connecting"
    /\ conn' = [conn EXCEPT ![s].state = "open"]
    /\ hub' = [hub EXCEPT ![r][conn[s].user] = @ \cup {s}]
    /\ UNCHANGED <<tab, sending, published, seen, refused, overtaken>>

\* handleNewConnection with one that is not, for it has expired: the socket is
\* closed with 1008.
Refuse(s) ==
    /\ conn[s].state = "connecting"
    /\ OnClose(s, TRUE)
    /\ UNCHANGED <<session, refreshing, server, seen>>

\* The network fails, or the close asked for is complete.
Drop(s) ==
    /\ OnClose(s, FALSE)
    /\ UNCHANGED <<session, refreshing, server, seen>>

\* The server notices the end of a connection, before or after the browser.
HandleConnectionClosed(s, r) ==
    /\ \E u \in Users : s \in hub[r][u]
    /\ hub' = [hub EXCEPT ![r] = [u \in Users |-> @[u] \ {s}]]
    /\ UNCHANGED <<tab, conn, sending, published, seen, refused, overtaken>>

\* Mutant of SubscribersOf: the connections of every user are copied.
AnySubscribers(r, u) == UNION {hub[r][w] : w \in Users}

\* copySubscribersLocked
SubscribersOf(r, u) == hub[r][u]

\* publishTaskUpdated in replica r copies the subscribers ...
Publish(e, r, u) ==
    /\ published[e] = None
    /\ published' = [published EXCEPT ![e] = u]
    /\ sending' = [sending EXCEPT ![e] = SubscribersOf(r, u)]
    /\ UNCHANGED <<tab, conn, hub, seen, refused, overtaken>>

\* Mutant of Send: the loop ends with the first connection that has ended.
SendGivesUp(e, s) ==
    /\ s \in sending[e]
    /\ sending' = [sending EXCEPT ![e] = IF conn[s].state = "open" THEN @ \ {s} ELSE {}]
    /\ conn' = IF conn[s].state = "open" THEN [conn EXCEPT ![s].inbox = Append(@, e)] ELSE conn
    /\ UNCHANGED <<tab, hub, published, seen, refused, overtaken>>

\* ... and sends to one after the other; a connection that has ended takes no
\* notice.
Send(e, s) ==
    /\ s \in sending[e]
    /\ sending' = [sending EXCEPT ![e] = @ \ {s}]
    /\ conn' = IF conn[s].state = "open" THEN [conn EXCEPT ![s].inbox = Append(@, e)] ELSE conn
    /\ UNCHANGED <<tab, hub, published, seen, refused, overtaken>>

\* Mutant of OnMessage: what has come is dispatched without being parsed.
OnMessageRaw(s) ==
    /\ conn[s].inbox # << >>
    /\ conn' = [conn EXCEPT ![s].inbox = << >>]
    /\ seen' = seen \cup {conn[s].inbox}
    /\ UNCHANGED <<tab, server, refused, overtaken>>

\* onmessage: dispatched to every listener.
OnMessage(s) ==
    /\ conn[s].inbox # << >>
    /\ conn' = [conn EXCEPT ![s].inbox = Tail(@)]
    /\ seen' = seen \cup {Head(conn[s].inbox)}
    /\ UNCHANGED <<tab, server, refused, overtaken>>

-----------------------------------------------------------------------------
Next ==
    \/ \E v \in Views : Subscribe(v) \/ Unsubscribe(v)
    \/ ReconnectFires
    \/ \E u \in Users : Login(u)
    \/ ClearedElsewhere \/ Logout
    \/ RefreshBegins \/ RefreshStored \/ RefreshFails
    \/ \E s \in Sockets : Refuse(s) \/ Drop(s) \/ OnMessage(s)
    \/ \E s \in Sockets, r \in Replicas : Accept(s, r) \/ HandleConnectionClosed(s, r)
    \/ \E e \in Events, r \in Replicas, u \in Users : Publish(e, r, u)
    \/ \E e \in Events, s \in Sockets : Send(e, s)

Spec == Init /\ [][Next]_vars

\* The hub's loop ends and messages that have come are handled.
Fairness ==
    /\ \A e \in Events, s \in Sockets : WF_vars(Send(e, s))
    /\ \A s \in Sockets : WF_vars(OnMessage(s))

FairSpec == Spec /\ Fairness

-----------------------------------------------------------------------------
\* A tab has one connection, the one it would close at logout, and it is the
\* stored session's, or that session has changed behind the tab since the
\* connection was opened: a late answer or another tab wrote to localStorage,
\* and the socket stays as it is.  The exception is what onclose makes
\* possible: the end of a socket closed by hand is reported after its
\* successor was opened, and makes the tab forget it (taskSocket.js:82).
OneChannel ==
    overtaken \/
    \A s \in Sockets : Live(s) => s = socket /\ (conn[s].user = session \/ swapped)

\* An update waits only where its connection is its user's, whatever has
\* become of the session and of the tab's other sockets.  And, with the same
\* exception, it waits once and has not been dispatched before: the views get
\* each update once.
OwnUpdatesOnce ==
    \A s, t \in Sockets : \A i \in 1..Len(conn[s].inbox), j \in 1..Len(conn[t].inbox) :
        /\ published[conn[s].inbox[i]] = conn[s].user
        /\ overtaken \/ /\ conn[s].inbox[i] \notin seen
                        /\ conn[s].inbox[i] = conn[t].inbox[j] => s = t /\ i = j

\* While a view listens in a session, a socket is there or a reconnect is due.
\* Not replaced is a socket the server has refused, not even when the token
\* has been refreshed since (taskSocket.js:84), and none is opened for a
\* session that has come without the tab's doing until the next view asks.
NeverSilent ==
    listeners # {} /\ session # None /\ socket = None => reconnectTimer \/ refused \/ swapped

\* An update is dispatched if the subscriber it is being sent to does not
\* end first.
Delivered ==
    \A e \in Events, s \in Sockets :
        (s \in sending[e]) ~> (e \in seen \/ conn[s].state # "open")
=============================================================================
