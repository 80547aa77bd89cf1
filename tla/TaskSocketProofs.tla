-------------------------- MODULE TaskSocketProofs ---------------------------
(***************************************************************************)
(* Proofs about TaskSocket, for any number of users, views, backend        *)
(* processes, updates and connections.                                     *)
(***************************************************************************)
EXTENDS TaskSocket, TLAPS

Waits(e, s) == \E i \in 1..Len(conn[s].inbox) : conn[s].inbox[i] = e

\* A tab that has closed its socket by hand has none, and has no view in a
\* session but one that has come since.
ClosedByHand ==
    manualClose => socket = None /\ (listeners = {} \/ session = None \/ swapped)

\* A connection belongs to a user, and messages wait in open ones.
Owned == \A s \in Sockets :
    /\ conn[s].state # "closed" => conn[s].user \in Users
    /\ conn[s].inbox # << >> => conn[s].state = "open"

\* The server knows a connection only after it has accepted it, by its user.
Subscribed ==
    \A s \in Sockets, r \in Replicas, u \in Users : s \in hub[r][u] =>
        /\ conn[s].state # "connecting"
        /\ conn[s].state # "closed" => conn[s].user = u

\* An update is sent to connections of its user, and waits in such.
Addressed ==
    \A e \in Events, s \in Sockets :
        /\ s \in sending[e] => /\ published[e] # None
                               /\ conn[s].state # "connecting"
                               /\ conn[s].state # "closed" => conn[s].user = published[e]
        /\ Waits(e, s) => published[e] = conn[s].user

\* What is still to be sent to an open connection is new to the tab.
NewToTab ==
    overtaken \/
    \A e \in Events, s \in Sockets : s \in sending[e] /\ conn[s].state = "open" =>
        e \notin seen /\ \A t \in Sockets : ~Waits(e, t)

\* What waits has not been dispatched, and does not wait twice in one socket.
WaitsOnce ==
    overtaken \/
    \A s \in Sockets : \A i \in 1..Len(conn[s].inbox) :
        /\ conn[s].inbox[i] \notin seen
        /\ \A j \in 1..Len(conn[s].inbox) : conn[s].inbox[i] = conn[s].inbox[j] => i = j

IInv == /\ TypeOK /\ ClosedByHand /\ NeverSilent /\ Owned /\ Subscribed /\ Addressed
        /\ OneChannel /\ NewToTab /\ WaitsOnce

-----------------------------------------------------------------------------
(***************************************************************************)
(* The steps, in the terms of the proofs below.                            *)
(***************************************************************************)
\* Nothing happens to the connections; a change of the session is noted.
Rests == /\ UNCHANGED <<conn, socket, server, seen, overtaken>>
         /\ session' = session \/ swapped'
         /\ swapped => swapped'

\* A connection is opened for the user of the session, in place of none.
Opens(s) ==
    /\ session # None /\ ~Connected
    /\ NewWebSocket(s)
    /\ UNCHANGED <<session, server, seen, overtaken>>

\* The socket is closed by hand, maybe at a logout.
Closes == CloseTaskSocket /\ UNCHANGED <<server, seen, overtaken>>

\* A connection ends.
Ends(s) ==
    \E code1008 \in BOOLEAN : OnClose(s, code1008) /\ UNCHANGED <<session, refreshing, server, seen>>

LEMMA EnsureCases ==
    ASSUME EnsureConnected, UNCHANGED <<session, server, seen, overtaken>>
    PROVE  Rests \/ \E s \in Sockets : Opens(s)
<1>1. CASE Connected \/ session = None
  BY <1>1 DEF EnsureConnected, Rests
<1>2. CASE ~(Connected \/ session = None)
  BY <1>2 DEF EnsureConnected, Opens
<1> QED BY <1>1, <1>2

LEMMA StepCases ==
    ASSUME [Next]_vars
    PROVE  \/ Rests \/ Closes
           \/ \E s \in Sockets : Opens(s) \/ Ends(s) \/ OnMessage(s)
           \/ \E s \in Sockets, r \in Replicas : Accept(s, r) \/ HandleConnectionClosed(s, r)
           \/ \E e \in Events, r \in Replicas, u \in Users : Publish(e, r, u)
           \/ \E e \in Events, s \in Sockets : Send(e, s)
<1>1. ASSUME NEW v \in Views, Subscribe(v) PROVE Rests \/ \E s \in Sockets : Opens(s)
  BY <1>1, EnsureCases DEF Subscribe
<1>2. ASSUME NEW v \in Views, Unsubscribe(v) PROVE Rests \/ Closes
  BY <1>2 DEF Unsubscribe, Rests, Closes
<1>3. CASE ReconnectFires
  BY <1>3, EnsureCases DEF ReconnectFires
<1>4. CASE Logout \/ RefreshFails
  BY <1>4 DEF Logout, RefreshFails, Leave, Closes
<1>5. CASE ClearedElsewhere \/ RefreshBegins \/ RefreshStored \/ \E u \in Users : Login(u)
  <2>1. ASSUME NEW u, Store(u) PROVE Rests
    BY <2>1 DEF Store, Rests, client
  <2>2. RefreshBegins => Rests
    BY DEF RefreshBegins, Rests, client
  <2> QED BY <1>5, <2>1, <2>2 DEF ClearedElsewhere, RefreshStored, Login
<1>6. ASSUME NEW s \in Sockets, Refuse(s) \/ Drop(s) PROVE Ends(s)
  BY <1>6 DEF Refuse, Drop, Ends
<1>7. CASE UNCHANGED vars
  BY <1>7 DEF vars, Rests, server
<1> QED BY <1>1, <1>2, <1>3, <1>4, <1>5, <1>6, <1>7 DEF Next

-----------------------------------------------------------------------------
(***************************************************************************)
(* Connections, as the steps leave them.                                   *)
(***************************************************************************)
LEMMA EmptyInbox == << >> \in Seq(Events) /\ \A i \in 1..Len(<< >>) : FALSE
  OBVIOUS

LEMMA ClosedType == Closed \in Connection
  BY EmptyInbox DEF Closed, Connection

LEMMA OpensConn ==
    ASSUME TypeOK, NEW s \in Sockets, Opens(s)
    PROVE  /\ conn' \in [Sockets -> Connection]
           /\ conn'[s].state = "connecting" /\ conn'[s].user = session
           /\ conn'[s].inbox = << >>
           /\ session \in Users
           /\ \A t \in Sockets \ {s} : conn'[t] = conn[t]
<1> DEFINE c == [state |-> "connecting", user |-> session, inbox |-> << >>]
<1>1. conn' = [conn EXCEPT ![s] = c]
  BY DEF Opens, NewWebSocket
<1>2. c \in Connection /\ session \in Users
  BY EmptyInbox DEF TypeOK, Connection, Opens
<1>3. conn \in [Sockets -> Connection]
  BY DEF TypeOK
<1> HIDE DEF c
<1>4. conn' \in [Sockets -> Connection] /\ conn'[s] = c /\ \A t \in Sockets \ {s} : conn'[t] = conn[t]
  BY <1>1, <1>2, <1>3
<1>5. c.state = "connecting" /\ c.user = session /\ c.inbox = << >>
  BY DEF c
<1> QED BY <1>2, <1>4, <1>5

\* At most the socket is closed; the others stay.
LEMMA ClosesConn ==
    ASSUME TypeOK, CloseTaskSocket
    PROVE  /\ conn' \in [Sockets -> Connection]
           /\ \A s \in Sockets :
                 /\ conn'[s].user = conn[s].user
                 /\ \/ conn'[s] = conn[s] /\ ~(s = socket /\ Live(s))
                    \/ /\ s = socket /\ Live(s) /\ conn'[s].state = "closing"
                       /\ conn'[s].inbox = << >>
<1>1. conn \in [Sockets -> Connection]
  BY DEF TypeOK
<1>2. ASSUME NEW s \in Sockets
      PROVE  LET c == [conn[s] EXCEPT !.state = "closing", !.inbox = << >>]
             IN c \in Connection /\ c.user = conn[s].user /\ c.state = "closing" /\ c.inbox = << >>
  BY <1>1, EmptyInbox DEF Connection
<1> QED BY <1>1, <1>2 DEF CloseTaskSocket

LEMMA EndsConn ==
    ASSUME TypeOK, NEW s \in Sockets, Ends(s)
    PROVE  /\ conn' \in [Sockets -> Connection]
           /\ conn'[s].state = "closed" /\ conn'[s].inbox = << >>
           /\ \A t \in Sockets \ {s} : conn'[t] = conn[t]
<1>1. conn' = [conn EXCEPT ![s] = Closed] /\ conn \in [Sockets -> Connection]
  BY DEF Ends, OnClose, TypeOK
<1>2. Closed.state = "closed" /\ Closed.inbox = << >>
  BY DEF Closed
<1> QED BY <1>1, <1>2, ClosedType

LEMMA AcceptConn ==
    ASSUME TypeOK, NEW s \in Sockets, NEW r \in Replicas, Accept(s, r)
    PROVE  /\ conn' \in [Sockets -> Connection]
           /\ conn'[s].state = "open" /\ conn'[s].user = conn[s].user
           /\ conn'[s].inbox = conn[s].inbox
           /\ \A t \in Sockets \ {s} : conn'[t] = conn[t]
<1>1. conn' = [conn EXCEPT ![s].state = "open"] /\ conn \in [Sockets -> Connection]
  BY DEF Accept, TypeOK
<1>2. LET c == [conn[s] EXCEPT !.state = "open"]
      IN c \in Connection /\ c.state = "open" /\ c.user = conn[s].user /\ c.inbox = conn[s].inbox
  BY <1>1 DEF Connection
<1> QED BY <1>1, <1>2

\* A message is appended to the inbox of an open connection.
LEMMA SendConn ==
    ASSUME TypeOK, NEW e \in Events, NEW s \in Sockets, Send(e, s), conn[s].state = "open"
    PROVE  /\ conn' \in [Sockets -> Connection]
           /\ conn'[s].state = "open" /\ conn'[s].user = conn[s].user
           /\ conn'[s].inbox = Append(conn[s].inbox, e)
           /\ \A t \in Sockets \ {s} : conn'[t] = conn[t]
<1>1. conn' = [conn EXCEPT ![s].inbox = Append(@, e)] /\ conn \in [Sockets -> Connection]
  BY DEF Send, TypeOK
<1>2. conn[s].inbox \in Seq(Events)
  BY <1>1 DEF Connection
<1>3. Append(conn[s].inbox, e) \in Seq(Events)
  BY <1>2
<1>4. LET c == [conn[s] EXCEPT !.inbox = Append(@, e)]
      IN c \in Connection /\ c.state = conn[s].state /\ c.user = conn[s].user
         /\ c.inbox = Append(conn[s].inbox, e)
  BY <1>1, <1>3 DEF Connection
<1> QED BY <1>1, <1>4

LEMMA OnMessageConn ==
    ASSUME TypeOK, NEW s \in Sockets, OnMessage(s)
    PROVE  /\ conn' \in [Sockets -> Connection]
           /\ conn'[s].state = conn[s].state /\ conn'[s].user = conn[s].user
           /\ conn'[s].inbox = Tail(conn[s].inbox)
           /\ \A t \in Sockets \ {s} : conn'[t] = conn[t]
<1>1. conn' = [conn EXCEPT ![s].inbox = Tail(@)] /\ conn \in [Sockets -> Connection]
  BY DEF OnMessage, TypeOK
<1>2. conn[s].inbox \in Seq(Events) /\ conn[s].inbox # << >>
  BY <1>1 DEF Connection, OnMessage
<1>3. Tail(conn[s].inbox) \in Seq(Events)
  BY <1>2
<1>4. LET c == [conn[s] EXCEPT !.inbox = Tail(@)]
      IN c \in Connection /\ c.state = conn[s].state /\ c.user = conn[s].user
         /\ c.inbox = Tail(conn[s].inbox)
  BY <1>1, <1>3 DEF Connection
<1> QED BY <1>1, <1>4

-----------------------------------------------------------------------------
(***************************************************************************)
(* What waits in the connections.                                          *)
(***************************************************************************)
LEMMA WaitsSame ==
    ASSUME NEW e \in Events, NEW s \in Sockets, conn'[s].inbox = conn[s].inbox
    PROVE  Waits(e, s)' <=> Waits(e, s)
  BY DEF Waits

LEMMA WaitsEmpty ==
    ASSUME NEW e \in Events, NEW s \in Sockets, conn'[s].inbox = << >>
    PROVE  ~Waits(e, s)'
  BY EmptyInbox DEF Waits

LEMMA WaitsAppend ==
    ASSUME TypeOK, NEW s \in Sockets, NEW e \in Events, conn'[s].inbox = Append(conn[s].inbox, e),
           NEW f \in Events
    PROVE  Waits(f, s)' <=> (Waits(f, s) \/ f = e)
<1> DEFINE q == conn[s].inbox
<1>1. q \in Seq(Events)
  BY DEF TypeOK, Connection
<1> HIDE DEF q
<1>2. /\ Len(Append(q, e)) = Len(q) + 1
      /\ \A i \in 1..Len(q) : Append(q, e)[i] = q[i]
      /\ Append(q, e)[Len(q) + 1] = e
      /\ Len(q) \in Nat
  BY <1>1
<1>3. (\E i \in 1..Len(Append(q, e)) : Append(q, e)[i] = f) <=> (\E i \in 1..Len(q) : q[i] = f) \/ f = e
  BY <1>2
<1> QED BY <1>3 DEF Waits, q

\* The first message is taken, and the others move up.
LEMMA TailShifts ==
    ASSUME NEW q \in Seq(Events), q # << >>
    PROVE  /\ Head(q) \in Events /\ Head(q) = q[1] /\ Len(q) \in Nat /\ Len(q) > 0
           /\ Len(Tail(q)) = Len(q) - 1
           /\ \A i \in 1..Len(Tail(q)) : Tail(q)[i] = q[i + 1] /\ i + 1 \in 2..Len(q)
  OBVIOUS

LEMMA OnMessageWaits ==
    ASSUME TypeOK, NEW s \in Sockets, OnMessage(s)
    PROVE  /\ Head(conn[s].inbox) \in Events /\ Waits(Head(conn[s].inbox), s)
           /\ \A e \in Events, t \in Sockets : Waits(e, t)' => Waits(e, t)
<1> DEFINE q == conn[s].inbox
<1>1. q \in Seq(Events) /\ q # << >>
  BY DEF TypeOK, Connection, OnMessage
<1>2. conn'[s].inbox = Tail(q) /\ \A t \in Sockets \ {s} : conn'[t] = conn[t]
  BY OnMessageConn
<1>3. Head(q) \in Events /\ \E i \in 1..Len(q) : q[i] = Head(q)
  BY <1>1, TailShifts
<1>4. ASSUME NEW e \in Events, NEW t \in Sockets, Waits(e, t)' PROVE Waits(e, t)
  <2>1. CASE t # s
    BY <1>4, <2>1, <1>2, WaitsSame
  <2>2. CASE t = s
    <3>1. PICK i \in 1..Len(Tail(q)) : Tail(q)[i] = e
      BY <1>4, <1>2, <2>2 DEF Waits
    <3>2. q[i + 1] = e /\ i + 1 \in 1..Len(q)
      BY <3>1, <1>1, TailShifts
    <3> QED BY <3>2, <2>2 DEF Waits
  <2> QED BY <2>1, <2>2
<1> QED BY <1>3, <1>4 DEF Waits

-----------------------------------------------------------------------------
(***************************************************************************)
(* Types.                                                                  *)
(***************************************************************************)
LEMMA TypeInit == ChannelAssumption => (Init => TypeOK)
<1> SUFFICES ASSUME Init PROVE TypeOK
  OBVIOUS
<1>1. conn \in [Sockets -> Connection]
  BY ClosedType DEF Init
<1> QED BY <1>1 DEF Init, TypeOK

\* The end of a connection, whatever the reason.
LEMMA TypeEnds ==
    ASSUME TypeOK, NEW s \in Sockets, Ends(s)
    PROVE  TypeOK'
<1>1. conn' \in [Sockets -> Connection]
  BY EndsConn
<1>2. reconnectTimer' \in BOOLEAN /\ refused' \in BOOLEAN
  BY DEF Ends, OnClose, ScheduleReconnect, TypeOK
<1>3. overtaken' \in BOOLEAN
  BY DEF Ends, OnClose, TypeOK
<1>4. UNCHANGED <<session, refreshing, swapped, listeners, manualClose, hub, sending, published, seen>> /\ socket' = None
  BY DEF Ends, OnClose, server
<1> QED BY <1>1, <1>2, <1>3, <1>4 DEF TypeOK

LEMMA TypeEnsure ==
    ASSUME ChannelAssumption, TypeOK, EnsureConnected, UNCHANGED <<session, server, seen, overtaken>>
    PROVE  /\ conn' \in [Sockets -> Connection] /\ socket' \in Sockets \cup {None}
           /\ manualClose' \in BOOLEAN /\ refused' \in BOOLEAN /\ swapped' \in BOOLEAN
<1>1. CASE Connected \/ session = None
  BY <1>1 DEF EnsureConnected, TypeOK
<1>2. CASE ~(Connected \/ session = None)
  <2>1. PICK s \in Sockets : NewWebSocket(s) /\ manualClose' = FALSE /\ refused' = FALSE
    BY <1>2 DEF EnsureConnected
  <2>2. Opens(s)
    BY <1>2, <2>1 DEF Opens
  <2>3. socket' = s
    BY <2>1 DEF NewWebSocket
  <2>4. swapped' = FALSE
    BY <2>1 DEF NewWebSocket
  <2> QED BY <2>1, <2>2, <2>3, <2>4, OpensConn
<1> QED BY <1>1, <1>2

LEMMA TypeNext ==
    ASSUME ChannelAssumption, TypeOK, Owned, Addressed, [Next]_vars
    PROVE  TypeOK'
<1>1. ASSUME NEW v \in Views, Subscribe(v) PROVE TypeOK'
  <2>1. EnsureConnected /\ UNCHANGED <<session, server, seen, overtaken>>
    BY <1>1 DEF Subscribe
  <2>2. listeners' \subseteq Views /\ UNCHANGED <<session, refreshing, reconnectTimer, hub, sending, published, seen, overtaken>>
    BY <1>1 DEF Subscribe, server, TypeOK
  <2> QED BY <2>1, <2>2, TypeEnsure DEF TypeOK
<1>2. ASSUME NEW v \in Views, Unsubscribe(v) PROVE TypeOK'
  <2>1. CASE listeners = {v}
    <3>1. conn' \in [Sockets -> Connection]
      BY <1>2, <2>1, ClosesConn DEF Unsubscribe
    <3> QED BY <1>2, <2>1, <3>1 DEF Unsubscribe, CloseTaskSocket, server, TypeOK
  <2>2. CASE listeners # {v}
    BY <1>2, <2>2 DEF Unsubscribe, server, TypeOK
  <2> QED BY <2>1, <2>2
<1>3. CASE ReconnectFires
  <2>1. EnsureConnected /\ UNCHANGED <<session, server, seen, overtaken>>
    BY <1>3 DEF ReconnectFires
  <2>2. reconnectTimer' = FALSE /\ UNCHANGED <<session, refreshing, listeners, hub, sending, published, seen, overtaken>>
    BY <1>3 DEF ReconnectFires, server
  <2> QED BY <2>1, <2>2, TypeEnsure DEF TypeOK
<1>4. ASSUME NEW u \in Users \cup {None}, Store(u), refreshing' \in Users \cup {None} PROVE TypeOK'
  BY <1>4 DEF Store, client, server, TypeOK
<1>5. ASSUME NEW u \in Users, Login(u) PROVE TypeOK'
  BY <1>4, <1>5 DEF Login, TypeOK
<1>6. CASE ClearedElsewhere \/ RefreshStored
  BY <1>4, <1>6 DEF ClearedElsewhere, RefreshStored, TypeOK
<1>7. CASE Logout \/ RefreshFails \/ RefreshBegins
  <2>1. CASE RefreshBegins
    BY <2>1 DEF RefreshBegins, client, server, TypeOK
  <2>2. CASE Leave /\ refreshing' \in Users \cup {None}
    <3>1. conn' \in [Sockets -> Connection]
      BY <2>2, ClosesConn DEF Leave
    <3> QED BY <2>2, <3>1 DEF Leave, CloseTaskSocket, server, TypeOK
  <2> QED BY <1>7, <2>1, <2>2 DEF Logout, RefreshFails, TypeOK
<1>8. ASSUME NEW s \in Sockets, Refuse(s) \/ Drop(s) PROVE TypeOK'
  BY <1>8, TypeEnds DEF Refuse, Drop, Ends
<1>9. ASSUME NEW s \in Sockets, OnMessage(s) PROVE TypeOK'
  <2>1. conn' \in [Sockets -> Connection]
    BY <1>9, OnMessageConn
  <2> DEFINE e == Head(conn[s].inbox)
  <2>2. e \in Events /\ Waits(e, s) /\ conn[s].inbox # << >>
    BY <1>9, OnMessageWaits DEF OnMessage
  <2>3. published[e] \in Users
    BY <2>2 DEF Owned, Addressed
  <2>4. seen' \subseteq {f \in Events : published'[f] # None}
    BY <1>9, <2>2, <2>3 DEF OnMessage, server, TypeOK, ChannelAssumption
  <2> QED BY <1>9, <2>1, <2>4 DEF OnMessage, tab, client, server, TypeOK
<1>10. ASSUME NEW s \in Sockets, NEW r \in Replicas, Accept(s, r) PROVE TypeOK'
  <2>1. conn' \in [Sockets -> Connection]
    BY <1>10, AcceptConn
  <2>2. hub' = [hub EXCEPT ![r] = [hub[r] EXCEPT ![conn[s].user] = @ \cup {s}]]
    BY <1>10 DEF Accept
  <2>3. hub[r] \in [Users -> SUBSET Sockets] /\ hub \in [Replicas -> [Users -> SUBSET Sockets]]
    BY DEF TypeOK
  <2>4. hub' \in [Replicas -> [Users -> SUBSET Sockets]]
    BY <2>2, <2>3
  <2> QED BY <1>10, <2>1, <2>4 DEF Accept, tab, client, TypeOK
<1>11. ASSUME NEW s \in Sockets, NEW r \in Replicas, HandleConnectionClosed(s, r) PROVE TypeOK'
  <2>1. hub' \in [Replicas -> [Users -> SUBSET Sockets]]
    BY <1>11 DEF HandleConnectionClosed, TypeOK
  <2> QED BY <1>11, <2>1 DEF HandleConnectionClosed, tab, client, TypeOK
<1>12. ASSUME NEW e \in Events, NEW r \in Replicas, NEW u \in Users, Publish(e, r, u) PROVE TypeOK'
  <2>1. /\ sending' \in [Events -> SUBSET Sockets]
        /\ published' \in [Events -> Users \cup {None}]
    BY <1>12 DEF Publish, SubscribersOf, TypeOK
  <2>2. seen' \subseteq {f \in Events : published'[f] # None}
    BY <1>12 DEF Publish, TypeOK
  <2> QED BY <1>12, <2>1, <2>2 DEF Publish, tab, client, TypeOK
<1>13. ASSUME NEW e \in Events, NEW s \in Sockets, Send(e, s) PROVE TypeOK'
  <2>1. conn' \in [Sockets -> Connection]
    BY <1>13, SendConn DEF Send, TypeOK
  <2>2. sending' \in [Events -> SUBSET Sockets]
    BY <1>13 DEF Send, TypeOK
  <2> QED BY <1>13, <2>1, <2>2 DEF Send, tab, client, TypeOK
<1>14. CASE UNCHANGED vars
  BY <1>14 DEF vars, TypeOK
<1> QED BY <1>1, <1>2, <1>3, <1>5, <1>6, <1>7, <1>8, <1>9, <1>10, <1>11, <1>12, <1>13, <1>14
        DEF Next

-----------------------------------------------------------------------------
(***************************************************************************)
(* Connections and the server.                                             *)
(***************************************************************************)
LEMMA OwnedNext ==
    ASSUME ChannelAssumption, TypeOK, Owned, [Next]_vars
    PROVE  Owned'
<1>1. CASE Rests
  BY <1>1 DEF Rests, Owned
<1>2. CASE Closes
  BY <1>2, ClosesConn DEF Closes, Owned, Live
<1>3. ASSUME NEW s \in Sockets, Opens(s) PROVE Owned'
  BY <1>3, OpensConn DEF Owned
<1>4. ASSUME NEW s \in Sockets, Ends(s) PROVE Owned'
  BY <1>4, EndsConn DEF Owned
<1>5. ASSUME NEW s \in Sockets, OnMessage(s) PROVE Owned'
  <2>1. conn[s].inbox # << >>
    BY <1>5 DEF OnMessage
  <2> QED BY <1>5, <2>1, OnMessageConn DEF Owned
<1>6. ASSUME NEW s \in Sockets, NEW r \in Replicas, Accept(s, r) PROVE Owned'
  <2>1. conn[s].state = "connecting"
    BY <1>6 DEF Accept
  <2> QED BY <1>6, <2>1, AcceptConn DEF Owned
<1>7. ASSUME NEW s \in Sockets, NEW r \in Replicas, HandleConnectionClosed(s, r) PROVE Owned'
  BY <1>7 DEF HandleConnectionClosed, Owned
<1>8. ASSUME NEW e \in Events, NEW r \in Replicas, NEW u \in Users, Publish(e, r, u) PROVE Owned'
  BY <1>8 DEF Publish, Owned
<1>9. ASSUME NEW e \in Events, NEW s \in Sockets, Send(e, s) PROVE Owned'
  <2>1. CASE conn[s].state = "open"
    BY <1>9, <2>1, SendConn DEF Owned
  <2>2. CASE conn[s].state # "open"
    BY <1>9, <2>2 DEF Send, Owned
  <2> QED BY <2>1, <2>2
<1> QED BY <1>1, <1>2, <1>3, <1>4, <1>5, <1>6, <1>7, <1>8, <1>9, StepCases

\* A step that leaves hub alone, and of every connection in it the user and
\* that it is not closed, or closes it.
LEMMA SubscribedFrame ==
    ASSUME Subscribed, hub' = hub,
           \A s \in Sockets : \/ conn'[s].state = "closed"
                              \/ /\ conn'[s].user = conn[s].user
                                 /\ conn[s].state # "closed"
                                 /\ conn'[s].state = "connecting" => conn[s].state = "connecting"
                              \/ conn'[s] = conn[s]
    PROVE  Subscribed'
  BY DEF Subscribed

LEMMA SubscribedNext ==
    ASSUME ChannelAssumption, TypeOK, Owned, Subscribed, [Next]_vars
    PROVE  Subscribed'
<1>1. CASE Rests
  BY <1>1, SubscribedFrame DEF Rests, server
<1>2. CASE Closes
  BY <1>2, ClosesConn, SubscribedFrame DEF Closes, server, Live
<1>3. ASSUME NEW s \in Sockets, Opens(s) PROVE Subscribed'
  <2>1. hub' = hub /\ \A r \in Replicas, u \in Users : s \notin hub[r][u]
    BY <1>3 DEF Opens, NewWebSocket, Unused, server
  <2> QED BY <1>3, <2>1, OpensConn DEF Subscribed
<1>4. ASSUME NEW s \in Sockets, Ends(s) PROVE Subscribed'
  BY <1>4, EndsConn, SubscribedFrame DEF Ends, server
<1>5. ASSUME NEW s \in Sockets, OnMessage(s) PROVE Subscribed'
  BY <1>5, OnMessageConn DEF OnMessage, server, Subscribed
<1>6. ASSUME NEW s \in Sockets, NEW r \in Replicas, Accept(s, r) PROVE Subscribed'
  <2>1. \A q \in Replicas, u \in Users, t \in Sockets :
           t \in hub'[q][u] => t \in hub[q][u] \/ (t = s /\ u = conn[s].user)
    <3>1. hub' = [hub EXCEPT ![r] = [hub[r] EXCEPT ![conn[s].user] = @ \cup {s}]]
      BY <1>6 DEF Accept
    <3>2. hub[r] \in [Users -> SUBSET Sockets] /\ hub \in [Replicas -> [Users -> SUBSET Sockets]]
      BY DEF TypeOK
    <3> QED BY <3>1, <3>2
  <2>2. conn[s].state = "connecting"
    BY <1>6 DEF Accept
  <2>3. /\ conn'[s].state = "open" /\ conn'[s].user = conn[s].user
        /\ \A t \in Sockets \ {s} : conn'[t] = conn[t]
    BY <1>6, AcceptConn
  <2>4. ASSUME NEW t \in Sockets, NEW q \in Replicas, NEW u \in Users, t \in hub'[q][u]
        PROVE  /\ conn'[t].state # "connecting"
               /\ conn'[t].state # "closed" => conn'[t].user = u
    <3>1. CASE t = s
      <4>1. s \notin hub[q][u]
        BY <2>2 DEF Subscribed
      <4> QED BY <2>1, <2>3, <2>4, <3>1, <4>1
    <3>2. CASE t # s
      <4>1. t \in hub[q][u]
        BY <2>1, <2>4, <3>2
      <4> QED BY <2>3, <3>2, <4>1 DEF Subscribed
    <3> QED BY <3>1, <3>2
  <2> QED BY <2>4 DEF Subscribed
<1>7. ASSUME NEW s \in Sockets, NEW r \in Replicas, HandleConnectionClosed(s, r) PROVE Subscribed'
  <2>1. \A q \in Replicas, u \in Users : hub'[q][u] \subseteq hub[q][u]
    BY <1>7 DEF HandleConnectionClosed, TypeOK
  <2> QED BY <1>7, <2>1 DEF HandleConnectionClosed, Subscribed
<1>8. ASSUME NEW e \in Events, NEW r \in Replicas, NEW u \in Users, Publish(e, r, u)
       PROVE  Subscribed'
  BY <1>8, SubscribedFrame DEF Publish
<1>9. ASSUME NEW e \in Events, NEW s \in Sockets, Send(e, s) PROVE Subscribed'
  <2>1. CASE conn[s].state = "open"
    BY <1>9, <2>1, SendConn, SubscribedFrame DEF Send
  <2>2. CASE conn[s].state # "open"
    BY <1>9, <2>2, SubscribedFrame DEF Send
  <2> QED BY <2>1, <2>2
<1> QED BY <1>1, <1>2, <1>3, <1>4, <1>5, <1>6, <1>7, <1>8, <1>9, StepCases

\* The same of a step that adds neither subscribers nor messages.
LEMMA AddressedFrame ==
    ASSUME Addressed, published' = published,
           \A e \in Events : sending'[e] \subseteq sending[e],
           \A e \in Events, s \in Sockets : Waits(e, s)' => Waits(e, s),
           \A s \in Sockets : \/ conn'[s].state = "closed" /\ conn'[s].inbox = << >>
                              \/ /\ conn'[s].user = conn[s].user
                                 /\ conn'[s].state = "connecting" => conn[s].state = "connecting"
                                 /\ conn[s].state = "closed" => conn'[s].state = "closed"
    PROVE  Addressed'
<1> SUFFICES ASSUME NEW e \in Events, NEW s \in Sockets
             PROVE  /\ s \in sending'[e] => /\ published[e] # None
                                            /\ conn'[s].state # "connecting"
                                            /\ conn'[s].state # "closed" => conn'[s].user = published[e]
                    /\ Waits(e, s)' => published[e] = conn'[s].user
  BY DEF Addressed
<1>1. s \in sending'[e] => s \in sending[e]
  OBVIOUS
<1>2. conn'[s].inbox = << >> => ~Waits(e, s)'
  BY WaitsEmpty
<1> QED BY <1>1, <1>2 DEF Addressed

LEMMA AddressedNext ==
    ASSUME ChannelAssumption, TypeOK, Owned, Subscribed, Addressed, [Next]_vars
    PROVE  Addressed'
<1>1. CASE Rests
  BY <1>1, AddressedFrame, WaitsSame DEF Rests, server
<1>2. CASE Closes
  <2>1. sending' = sending /\ published' = published
    BY <1>2 DEF Closes, server
  <2>2. \A e \in Events, s \in Sockets : Waits(e, s)' => Waits(e, s)
    BY <1>2, ClosesConn, WaitsSame, WaitsEmpty DEF Closes
  <2>3. \A s \in Sockets : /\ conn'[s].user = conn[s].user
                           /\ conn'[s].state = "connecting" => conn[s].state = "connecting"
                           /\ conn[s].state = "closed" => conn'[s].state = "closed"
    BY <1>2, ClosesConn DEF Closes, Live
  <2> QED BY <2>1, <2>2, <2>3, AddressedFrame
<1>3. ASSUME NEW s \in Sockets, Opens(s) PROVE Addressed'
  <2>1. UNCHANGED <<sending, published>> /\ \A e \in Events : s \notin sending[e]
    BY <1>3 DEF Opens, NewWebSocket, Unused, server
  <2>2. \A e \in Events : ~Waits(e, s)'
    BY <1>3, OpensConn, WaitsEmpty
  <2>3. \A e \in Events, t \in Sockets \ {s} : conn'[t] = conn[t] /\ (Waits(e, t)' <=> Waits(e, t))
    BY <1>3, OpensConn, WaitsSame
  <2> QED BY <2>1, <2>2, <2>3 DEF Addressed
<1>4. ASSUME NEW s \in Sockets, Ends(s) PROVE Addressed'
  <2>1. sending' = sending /\ published' = published
    BY <1>4 DEF Ends, server
  <2>2. \A e \in Events, t \in Sockets : Waits(e, t)' => Waits(e, t)
    BY <1>4, EndsConn, WaitsSame, WaitsEmpty
  <2>3. \A t \in Sockets : \/ conn'[t].state = "closed" /\ conn'[t].inbox = << >>
                           \/ conn'[t] = conn[t]
    BY <1>4, EndsConn
  <2> QED BY <2>1, <2>2, <2>3, AddressedFrame
<1>5. ASSUME NEW s \in Sockets, OnMessage(s) PROVE Addressed'
  <2>1. sending' = sending /\ published' = published
    BY <1>5 DEF OnMessage, server
  <2>2. \A t \in Sockets : conn'[t].user = conn[t].user /\ conn'[t].state = conn[t].state
    BY <1>5, OnMessageConn
  <2> QED BY <1>5, <2>1, <2>2, OnMessageWaits, AddressedFrame
<1>6. ASSUME NEW s \in Sockets, NEW r \in Replicas, Accept(s, r) PROVE Addressed'
  <2>1. sending' = sending /\ published' = published /\ conn[s].state = "connecting"
    BY <1>6 DEF Accept
  <2>2. \A e \in Events, t \in Sockets : Waits(e, t)' => Waits(e, t)
    BY <1>6, AcceptConn, WaitsSame
  <2>3. \A t \in Sockets : /\ conn'[t].user = conn[t].user
                           /\ conn'[t].state = "connecting" => conn[t].state = "connecting"
                           /\ conn[t].state = "closed" => conn'[t].state = "closed"
    BY <1>6, <2>1, AcceptConn
  <2> QED BY <2>1, <2>2, <2>3, AddressedFrame
<1>7. ASSUME NEW s \in Sockets, NEW r \in Replicas, HandleConnectionClosed(s, r) PROVE Addressed'
  BY <1>7, WaitsSame, AddressedFrame DEF HandleConnectionClosed
<1>8. ASSUME NEW e \in Events, NEW r \in Replicas, NEW u \in Users, Publish(e, r, u)
       PROVE  Addressed'
  <2>1. /\ sending'[e] = hub[r][u] /\ published'[e] = u /\ published[e] = None
        /\ \A f \in Events \ {e} : sending'[f] = sending[f] /\ published'[f] = published[f]
        /\ conn' = conn
    BY <1>8 DEF Publish, SubscribersOf, TypeOK
  <2>2. \A f \in Events, s \in Sockets : Waits(f, s)' <=> Waits(f, s)
    BY <2>1, WaitsSame
  <2>3. ASSUME NEW s \in Sockets PROVE ~Waits(e, s)
    <3>1. Waits(e, s) => conn[s].inbox # << >>
      BY EmptyInbox DEF Waits
    <3>2. Waits(e, s) => conn[s].user \in Users /\ published[e] = conn[s].user
      BY <3>1 DEF Owned, Addressed
    <3> QED BY <3>2, <2>1 DEF ChannelAssumption
  <2>4. \A s \in Sockets : s \in sending'[e] => /\ conn[s].state # "connecting"
                                                /\ conn[s].state # "closed" => conn[s].user = u
    BY <2>1 DEF Subscribed
  <2>5. u # None
    BY DEF ChannelAssumption
  <2> QED BY <2>1, <2>2, <2>3, <2>4, <2>5 DEF Addressed
<1>9. ASSUME NEW e \in Events, NEW s \in Sockets, Send(e, s) PROVE Addressed'
  <2>1. s \in sending[e] /\ published' = published /\ \A f \in Events : sending'[f] \subseteq sending[f]
    BY <1>9 DEF Send, TypeOK
  <2>2. CASE conn[s].state = "open"
    <3>1. \A f \in Events : Waits(f, s)' <=> (Waits(f, s) \/ f = e)
      BY <1>9, <2>2, SendConn, WaitsAppend
    <3>2. published[e] = conn[s].user
      BY <2>1, <2>2 DEF Addressed
    <3>3. \A t \in Sockets : conn'[t].user = conn[t].user /\ conn'[t].state = conn[t].state
      BY <1>9, <2>2, SendConn
    <3>4. \A f \in Events, t \in Sockets \ {s} : Waits(f, t)' <=> Waits(f, t)
      BY <1>9, <2>2, SendConn, WaitsSame
    <3> QED BY <2>1, <3>1, <3>2, <3>3, <3>4 DEF Addressed
  <2>3. CASE conn[s].state # "open"
    BY <1>9, <2>1, <2>3, WaitsSame, AddressedFrame DEF Send
  <2> QED BY <2>2, <2>3
<1> QED BY <1>1, <1>2, <1>3, <1>4, <1>5, <1>6, <1>7, <1>8, <1>9, StepCases

-----------------------------------------------------------------------------
(***************************************************************************)
(* The tab: it is never left without a socket or a timer, and has one      *)
(* channel as long as no close is reported late.                           *)
(***************************************************************************)
Watchful == ClosedByHand /\ NeverSilent

LEMMA WatchfulEnsure ==
    ASSUME ChannelAssumption, TypeOK, ClosedByHand, EnsureConnected, session' = session
    PROVE  /\ session # None => socket' # None
           /\ manualClose' => socket' = None /\ session = None
<1>1. CASE session = None
  BY <1>1 DEF EnsureConnected, ClosedByHand, Connected
<1>2. CASE session # None /\ Connected
  BY <1>2 DEF EnsureConnected, ClosedByHand, Connected
<1>3. CASE session # None /\ ~Connected
  <2>1. PICK s \in Sockets : NewWebSocket(s) /\ manualClose' = FALSE
    BY <1>3 DEF EnsureConnected
  <2> QED BY <2>1 DEF NewWebSocket, ChannelAssumption
<1> QED BY <1>1, <1>2, <1>3

LEMMA WatchfulNext ==
    ASSUME ChannelAssumption, TypeOK, Watchful, [Next]_vars
    PROVE  Watchful'
<1> USE DEF Watchful, ClosedByHand, NeverSilent
<1>1. ASSUME NEW v \in Views, Subscribe(v) PROVE Watchful'
  <2>1. session' = session /\ EnsureConnected
    BY <1>1 DEF Subscribe
  <2> QED BY <2>1, WatchfulEnsure
<1>2. ASSUME NEW v \in Views, Unsubscribe(v) PROVE Watchful'
  <2>1. CASE listeners = {v}
    BY <1>2, <2>1 DEF Unsubscribe, CloseTaskSocket
  <2>2. CASE listeners # {v}
    <3>1. listeners # {} /\ UNCHANGED <<session, socket, reconnectTimer, manualClose, refused, swapped>>
      BY <1>2, <2>2 DEF Unsubscribe
    <3> QED BY <3>1
  <2> QED BY <2>1, <2>2
<1>3. CASE ReconnectFires
  <2>1. session' = session /\ EnsureConnected
    BY <1>3 DEF ReconnectFires
  <2> QED BY <2>1, WatchfulEnsure
<1>4. ASSUME NEW u, Store(u) PROVE Watchful'
  BY <1>4 DEF Store, client
<1>5. CASE Leave
  BY <1>5 DEF Leave, CloseTaskSocket
<1>6. CASE \/ \E u \in Users : Login(u)
           \/ ClearedElsewhere \/ RefreshStored \/ Logout \/ RefreshFails
  BY <1>4, <1>5, <1>6 DEF Login, ClearedElsewhere, RefreshStored, Logout, RefreshFails
<1>7. ASSUME NEW s \in Sockets, Refuse(s) \/ Drop(s) PROVE Watchful'
  <2>1. UNCHANGED <<session, listeners, manualClose, swapped>> /\ socket' = None
    BY <1>7 DEF Refuse, Drop, OnClose
  <2>2. refused' \/ (ScheduleReconnect /\ refused' = refused)
    BY <1>7 DEF Refuse, Drop, OnClose
  <2> QED BY <2>1, <2>2 DEF ScheduleReconnect
<1>8. ASSUME UNCHANGED <<session, client, refused, swapped>> PROVE Watchful'
  BY <1>8 DEF client
<1>9. ASSUME NEW s \in Sockets, OnMessage(s) PROVE Watchful'
  BY <1>8, <1>9 DEF OnMessage, tab
<1>10. ASSUME NEW s \in Sockets, NEW r \in Replicas, Accept(s, r) \/ HandleConnectionClosed(s, r)
       PROVE  Watchful'
  BY <1>8, <1>10 DEF Accept, HandleConnectionClosed, tab
<1>11. ASSUME NEW e \in Events, NEW r \in Replicas, NEW u \in Users, Publish(e, r, u) PROVE Watchful'
  BY <1>8, <1>11 DEF Publish, tab
<1>12. ASSUME NEW e \in Events, NEW s \in Sockets, Send(e, s) PROVE Watchful'
  BY <1>8, <1>12 DEF Send, tab
<1>13. CASE UNCHANGED vars
  BY <1>8, <1>13 DEF vars, client
<1>14. CASE RefreshBegins
  BY <1>8, <1>14 DEF RefreshBegins
<1> QED BY <1>1, <1>2, <1>3, <1>6, <1>7, <1>9, <1>10, <1>11, <1>12, <1>13, <1>14 DEF Next

\* A step that leaves the socket, notes a change of the session, and opens no
\* connection.
LEMMA OneChannelFrame ==
    ASSUME OneChannel, overtaken => overtaken', socket' = socket,
           session' = session \/ swapped', swapped => swapped',
           \A s \in Sockets : Live(s)' => Live(s) /\ conn'[s].user = conn[s].user
    PROVE  OneChannel'
  BY DEF OneChannel

LEMMA OneChannelNext ==
    ASSUME ChannelAssumption, TypeOK, Owned, OneChannel, [Next]_vars
    PROVE  OneChannel'
<1>1. CASE Rests
  BY <1>1, OneChannelFrame DEF Rests, Live
<1>2. CASE Closes
  <2>1. overtaken' = overtaken /\ \A s \in Sockets : Live(s)' => Live(s) /\ s # socket
    BY <1>2, ClosesConn DEF Closes, Live
  <2> QED BY <2>1 DEF OneChannel
<1>3. ASSUME NEW s \in Sockets, Opens(s) PROVE OneChannel'
  <2>1. socket' = s /\ session' = session /\ overtaken' = overtaken /\ ~Connected
    BY <1>3 DEF Opens, NewWebSocket
  <2>2. overtaken \/ \A t \in Sockets : ~Live(t)
    BY <2>1 DEF OneChannel, Connected, TypeOK, ChannelAssumption
  <2>3. conn'[s].user = session /\ \A t \in Sockets \ {s} : conn'[t] = conn[t]
    BY <1>3, OpensConn
  <2> QED BY <2>1, <2>2, <2>3 DEF OneChannel, Live
<1>4. ASSUME NEW s \in Sockets, Ends(s) PROVE OneChannel'
  <2>1. UNCHANGED <<session, swapped>> /\ overtaken' = (overtaken \/ socket \notin {s, None})
    BY <1>4 DEF Ends, OnClose
  <2>2. \A t \in Sockets : Live(t)' => t # s /\ Live(t)
    BY <1>4, EndsConn DEF Live
  <2>3. \A t \in Sockets : t # None
    BY DEF ChannelAssumption
  <2> QED BY <2>1, <2>2, <2>3 DEF OneChannel
<1>5. ASSUME NEW s \in Sockets, OnMessage(s) PROVE OneChannel'
  <2>1. UNCHANGED <<session, swapped, socket, overtaken>>
    BY <1>5 DEF OnMessage, tab, client
  <2> QED BY <1>5, <2>1, OnMessageConn, OneChannelFrame DEF Live
<1>6. ASSUME NEW s \in Sockets, NEW r \in Replicas, Accept(s, r) PROVE OneChannel'
  <2>1. UNCHANGED <<session, swapped, socket, overtaken>> /\ conn[s].state = "connecting"
    BY <1>6 DEF Accept, tab, client
  <2> QED BY <1>6, <2>1, AcceptConn, OneChannelFrame DEF Live
<1>7. ASSUME NEW s \in Sockets, NEW r \in Replicas, HandleConnectionClosed(s, r) PROVE OneChannel'
  BY <1>7, OneChannelFrame DEF HandleConnectionClosed, tab, client, Live
<1>8. ASSUME NEW e \in Events, NEW r \in Replicas, NEW u \in Users, Publish(e, r, u)
       PROVE  OneChannel'
  BY <1>8, OneChannelFrame DEF Publish, tab, client, Live
<1>9. ASSUME NEW e \in Events, NEW s \in Sockets, Send(e, s) PROVE OneChannel'
  <2>1. UNCHANGED <<session, swapped, socket, overtaken>>
    BY <1>9 DEF Send, tab, client
  <2>2. CASE conn[s].state = "open"
    BY <1>9, <2>1, <2>2, SendConn, OneChannelFrame DEF Live
  <2>3. CASE conn[s].state # "open"
    BY <1>9, <2>1, <2>3, OneChannelFrame DEF Send, Live
  <2> QED BY <2>2, <2>3
<1> QED BY <1>1, <1>2, <1>3, <1>4, <1>5, <1>6, <1>7, <1>8, <1>9, StepCases

-----------------------------------------------------------------------------
(***************************************************************************)
(* The updates: while there is one channel, each reaches the tab once.     *)
(***************************************************************************)
\* Two live connections are one.
LEMMA OneLive ==
    ASSUME OneChannel, ~overtaken, NEW s \in Sockets, NEW t \in Sockets,
           Live(s), Live(t)
    PROVE  s = t
  BY DEF OneChannel

\* A step that brings neither messages nor connections.
LEMMA NewToTabFrame ==
    ASSUME NewToTab, overtaken => overtaken', seen' = seen,
           \A e \in Events : sending'[e] \subseteq sending[e],
           \A e \in Events, s \in Sockets : Waits(e, s)' => Waits(e, s),
           \A s \in Sockets : conn'[s].state = "open" => conn[s].state = "open"
    PROVE  NewToTab'
<1>1. ASSUME ~overtaken', NEW e \in Events, NEW s \in Sockets,
             s \in sending'[e], conn'[s].state = "open"
      PROVE  e \notin seen' /\ \A t \in Sockets : ~Waits(e, t)'
  BY <1>1 DEF NewToTab
<1> QED BY <1>1 DEF NewToTab

LEMMA NewToTabNext ==
    ASSUME ChannelAssumption, TypeOK, Owned, Subscribed, Addressed, OneChannel, NewToTab, [Next]_vars
    PROVE  NewToTab'
<1>1. CASE Rests
  BY <1>1, WaitsSame, NewToTabFrame DEF Rests, server
<1>2. CASE Closes
  <2>1. UNCHANGED <<overtaken, seen, sending>>
    BY <1>2 DEF Closes, server
  <2>2. \A e \in Events, s \in Sockets : Waits(e, s)' => Waits(e, s)
    BY <1>2, ClosesConn, WaitsSame, WaitsEmpty DEF Closes
  <2>3. \A s \in Sockets : conn'[s].state = "open" => conn[s].state = "open"
    BY <1>2, ClosesConn DEF Closes
  <2> QED BY <2>1, <2>2, <2>3, NewToTabFrame
<1>3. ASSUME NEW s \in Sockets, Opens(s) PROVE NewToTab'
  <2>1. UNCHANGED <<overtaken, seen, sending>>
    BY <1>3 DEF Opens, server
  <2>2. \A e \in Events, t \in Sockets : Waits(e, t)' => Waits(e, t)
    BY <1>3, OpensConn, WaitsSame, WaitsEmpty
  <2>3. \A t \in Sockets : conn'[t].state = "open" => conn[t].state = "open"
    BY <1>3, OpensConn
  <2> QED BY <2>1, <2>2, <2>3, NewToTabFrame
<1>4. ASSUME NEW s \in Sockets, Ends(s) PROVE NewToTab'
  <2>1. UNCHANGED <<seen, sending>> /\ (overtaken => overtaken')
    BY <1>4 DEF Ends, OnClose, server
  <2>2. \A e \in Events, t \in Sockets : Waits(e, t)' => Waits(e, t)
    BY <1>4, EndsConn, WaitsSame, WaitsEmpty
  <2>3. \A t \in Sockets : conn'[t].state = "open" => conn[t].state = "open"
    BY <1>4, EndsConn
  <2> QED BY <2>1, <2>2, <2>3, NewToTabFrame
<1>5. ASSUME NEW s \in Sockets, OnMessage(s) PROVE NewToTab'
  <2> DEFINE f == Head(conn[s].inbox)
  <2>1. UNCHANGED <<overtaken, sending>> /\ seen' = seen \cup {f}
    BY <1>5 DEF OnMessage, server
  <2>2. f \in Events /\ Waits(f, s) /\ \A e \in Events, t \in Sockets : Waits(e, t)' => Waits(e, t)
    BY <1>5, OnMessageWaits
  <2>3. \A t \in Sockets : conn'[t].state = conn[t].state
    BY <1>5, OnMessageConn
  <2> HIDE DEF f
  <2>4. ASSUME ~overtaken, NEW e \in Events, NEW t \in Sockets, t \in sending[e], conn[t].state = "open"
        PROVE  e # f /\ e \notin seen /\ \A v \in Sockets : ~Waits(e, v)
    BY <2>2, <2>4 DEF NewToTab
  <2> QED BY <2>1, <2>2, <2>3, <2>4 DEF NewToTab
<1>6. ASSUME NEW s \in Sockets, NEW r \in Replicas, Accept(s, r) PROVE NewToTab'
  <2>1. UNCHANGED <<overtaken, seen, sending>> /\ conn[s].state = "connecting"
    BY <1>6 DEF Accept
  <2>2. \A e \in Events : s \notin sending[e]
    BY <2>1 DEF Addressed
  <2>3. \A e \in Events, t \in Sockets : Waits(e, t)' <=> Waits(e, t)
    BY <1>6, AcceptConn, WaitsSame
  <2>4. \A t \in Sockets \ {s} : conn'[t] = conn[t]
    BY <1>6, AcceptConn
  <2> QED BY <2>1, <2>2, <2>3, <2>4 DEF NewToTab
<1>7. ASSUME NEW s \in Sockets, NEW r \in Replicas, HandleConnectionClosed(s, r) PROVE NewToTab'
  BY <1>7, WaitsSame, NewToTabFrame DEF HandleConnectionClosed
<1>8. ASSUME NEW e \in Events, NEW r \in Replicas, NEW u \in Users, Publish(e, r, u) PROVE NewToTab'
  <2>1. /\ published[e] = None /\ UNCHANGED <<conn, overtaken, seen>>
        /\ \A f \in Events \ {e} : sending'[f] = sending[f]
    BY <1>8 DEF Publish, TypeOK
  <2>2. e \notin seen
    BY <2>1 DEF TypeOK
  <2>3. ASSUME NEW s \in Sockets PROVE ~Waits(e, s)
    <3>1. Waits(e, s) => conn[s].inbox # << >>
      BY EmptyInbox DEF Waits
    <3>2. Waits(e, s) => conn[s].user \in Users /\ published[e] = conn[s].user
      BY <3>1 DEF Owned, Addressed
    <3> QED BY <3>2, <2>1 DEF ChannelAssumption
  <2>4. \A f \in Events, s \in Sockets : Waits(f, s)' <=> Waits(f, s)
    BY <2>1, WaitsSame
  <2> QED BY <2>1, <2>2, <2>3, <2>4 DEF NewToTab
<1>9. ASSUME NEW e \in Events, NEW s \in Sockets, Send(e, s) PROVE NewToTab'
  <2>1. /\ s \in sending[e] /\ sending'[e] = sending[e] \ {s}
        /\ \A f \in Events \ {e} : sending'[f] = sending[f]
        /\ UNCHANGED <<overtaken, seen>>
    BY <1>9 DEF Send, TypeOK
  <2>2. CASE conn[s].state = "open"
    <3>1. \A f \in Events : Waits(f, s)' <=> (Waits(f, s) \/ f = e)
      BY <1>9, <2>2, SendConn, WaitsAppend
    <3>2. \A f \in Events, t \in Sockets \ {s} : Waits(f, t)' <=> Waits(f, t)
      BY <1>9, <2>2, SendConn, WaitsSame
    <3>3. \A t \in Sockets : conn'[t].state = conn[t].state
      BY <1>9, <2>2, SendConn
    <3>4. ASSUME ~overtaken, NEW f \in Events, NEW t \in Sockets,
                 t \in sending'[f], conn[t].state = "open"
          PROVE  f # e /\ t \in sending[f]
      <4>1. t = s
        BY <2>2, <3>4, OneLive DEF Live
      <4> QED BY <2>1, <3>4, <4>1
    <3>5. ASSUME ~overtaken, NEW f \in Events, NEW t \in Sockets,
                 t \in sending'[f], conn[t].state = "open"
          PROVE  f \notin seen /\ \A v \in Sockets : ~Waits(f, v)'
      <4>1. f # e /\ t \in sending[f]
        BY <3>4, <3>5
      <4>2. f \notin seen /\ \A v \in Sockets : ~Waits(f, v)
        BY <3>5, <4>1 DEF NewToTab
      <4> QED BY <3>1, <3>2, <4>1, <4>2
    <3> QED BY <2>1, <3>3, <3>5 DEF NewToTab
  <2>3. CASE conn[s].state # "open"
    BY <1>9, <2>1, <2>3, WaitsSame, NewToTabFrame DEF Send
  <2> QED BY <2>2, <2>3
<1> QED BY <1>1, <1>2, <1>3, <1>4, <1>5, <1>6, <1>7, <1>8, <1>9, StepCases

\* A step that at most empties inboxes.
LEMMA WaitsOnceFrame ==
    ASSUME WaitsOnce, overtaken => overtaken', seen' = seen,
           \A s \in Sockets : conn'[s].inbox = conn[s].inbox \/ conn'[s].inbox = << >>
    PROVE  WaitsOnce'
<1> SUFFICES ASSUME ~overtaken', NEW s \in Sockets, NEW i \in 1..Len(conn'[s].inbox)
             PROVE  /\ conn'[s].inbox[i] \notin seen
                    /\ \A j \in 1..Len(conn'[s].inbox) :
                           conn'[s].inbox[i] = conn'[s].inbox[j] => i = j
  BY DEF WaitsOnce
<1>1. conn'[s].inbox = conn[s].inbox
  BY EmptyInbox
<1> QED BY <1>1 DEF WaitsOnce

LEMMA WaitsOnceNext ==
    ASSUME TypeOK, Owned, OneChannel, NewToTab, WaitsOnce, [Next]_vars
    PROVE  WaitsOnce'
<1>1. CASE Rests
  BY <1>1, WaitsOnceFrame DEF Rests
<1>2. CASE Closes
  <2>1. UNCHANGED <<overtaken, seen>>
    BY <1>2 DEF Closes
  <2>2. \A s \in Sockets : conn'[s].inbox = conn[s].inbox \/ conn'[s].inbox = << >>
    BY <1>2, ClosesConn DEF Closes
  <2> QED BY <2>1, <2>2, WaitsOnceFrame
<1>3. ASSUME NEW s \in Sockets, Opens(s) PROVE WaitsOnce'
  <2>1. \A t \in Sockets : conn'[t].inbox = conn[t].inbox \/ conn'[t].inbox = << >>
    BY <1>3, OpensConn
  <2> QED BY <1>3, <2>1, WaitsOnceFrame DEF Opens
<1>4. ASSUME NEW s \in Sockets, Ends(s) PROVE WaitsOnce'
  <2>1. \A t \in Sockets : conn'[t].inbox = conn[t].inbox \/ conn'[t].inbox = << >>
    BY <1>4, EndsConn
  <2>2. seen' = seen /\ (overtaken => overtaken')
    BY <1>4 DEF Ends, OnClose
  <2> QED BY <2>1, <2>2, WaitsOnceFrame
<1>5. ASSUME NEW s \in Sockets, OnMessage(s) PROVE WaitsOnce'
  <2> DEFINE q == conn[s].inbox
  <2>1. overtaken' = overtaken /\ seen' = seen \cup {Head(q)} /\ q # << >>
    BY <1>5 DEF OnMessage
  <2>2. q \in Seq(Events)
    BY DEF TypeOK, Connection
  <2>3. conn'[s].inbox = Tail(q) /\ \A t \in Sockets \ {s} : conn'[t].inbox = conn[t].inbox
    BY <1>5, OnMessageConn
  <2>4. Head(q) = q[1] /\ Len(q) \in Nat /\ 1 \in 1..Len(q)
    BY <2>1, <2>2, TailShifts
  <2>5. \A i \in 1..Len(Tail(q)) : Tail(q)[i] = q[i + 1] /\ i + 1 \in 2..Len(q)
    BY <2>1, <2>2, TailShifts
  <2> HIDE DEF q
  <2>6. ASSUME ~overtaken, NEW i \in 1..Len(Tail(q))
        PROVE  /\ Tail(q)[i] \notin seen'
               /\ \A j \in 1..Len(Tail(q)) : Tail(q)[i] = Tail(q)[j] => i = j
    <3>1. \A k, j \in 1..Len(q) : q[k] \notin seen /\ (q[k] = q[j] => k = j)
      BY <2>6 DEF WaitsOnce, q
    <3>2. Tail(q)[i] \notin seen'
      BY <2>1, <2>4, <2>5, <3>1
    <3>3. ASSUME NEW j \in 1..Len(Tail(q)), Tail(q)[i] = Tail(q)[j] PROVE i = j
      <4>1. i + 1 = j + 1
        BY <2>4, <2>5, <3>1, <3>3
      <4> QED BY <4>1
    <3> QED BY <3>2, <3>3
  <2>7. ASSUME ~overtaken, NEW t \in Sockets \ {s}, NEW i \in 1..Len(conn[t].inbox)
        PROVE  /\ conn[t].inbox[i] \notin seen'
               /\ \A j \in 1..Len(conn[t].inbox) : conn[t].inbox[i] = conn[t].inbox[j] => i = j
    <3>1. conn[s].inbox # << >> /\ conn[t].inbox # << >>
      BY <2>1, EmptyInbox DEF q
    <3>2. s = t
      BY <2>7, <3>1, OneLive DEF Owned, Live
    <3> QED BY <3>2
  <2> QED BY <2>1, <2>3, <2>6, <2>7 DEF WaitsOnce
<1>6. ASSUME NEW s \in Sockets, NEW r \in Replicas, Accept(s, r) PROVE WaitsOnce'
  <2>1. \A t \in Sockets : conn'[t].inbox = conn[t].inbox
    BY <1>6, AcceptConn
  <2> QED BY <1>6, <2>1, WaitsOnceFrame DEF Accept
<1>7. ASSUME NEW s \in Sockets, NEW r \in Replicas, HandleConnectionClosed(s, r) PROVE WaitsOnce'
  BY <1>7, WaitsOnceFrame DEF HandleConnectionClosed
<1>8. ASSUME NEW e \in Events, NEW r \in Replicas, NEW u \in Users, Publish(e, r, u) PROVE WaitsOnce'
  BY <1>8, WaitsOnceFrame DEF Publish
<1>9. ASSUME NEW e \in Events, NEW s \in Sockets, Send(e, s) PROVE WaitsOnce'
  <2>1. s \in sending[e] /\ UNCHANGED <<overtaken, seen>>
    BY <1>9 DEF Send
  <2>2. CASE conn[s].state = "open"
    <3> DEFINE q == conn[s].inbox
    <3>1. q \in Seq(Events)
      BY DEF TypeOK, Connection
    <3>2. conn'[s].inbox = Append(q, e) /\ \A t \in Sockets \ {s} : conn'[t].inbox = conn[t].inbox
      BY <1>9, <2>2, SendConn
    <3>3. overtaken \/ (e \notin seen /\ \A i \in 1..Len(q) : q[i] # e)
      BY <2>1, <2>2 DEF NewToTab, Waits
    <3>4. overtaken \/ \A i, j \in 1..Len(q) : q[i] \notin seen /\ (q[i] = q[j] => i = j)
      BY DEF WaitsOnce
    <3> HIDE DEF q
    <3>5. /\ Len(q) \in Nat /\ Len(Append(q, e)) = Len(q) + 1
          /\ \A i \in 1..Len(q) : Append(q, e)[i] = q[i]
          /\ Append(q, e)[Len(q) + 1] = e
      BY <3>1
    <3>6. overtaken \/ \A i, j \in 1..Len(Append(q, e)) :
              /\ Append(q, e)[i] \notin seen
              /\ Append(q, e)[i] = Append(q, e)[j] => i = j
      BY <3>3, <3>4, <3>5
    <3> QED BY <2>1, <3>2, <3>6 DEF WaitsOnce
  <2>3. CASE conn[s].state # "open"
    BY <1>9, <2>1, <2>3, WaitsOnceFrame DEF Send
  <2> QED BY <2>2, <2>3
<1> QED BY <1>1, <1>2, <1>3, <1>4, <1>5, <1>6, <1>7, <1>8, <1>9, StepCases

\* What waits is the connection's user's, and waits in the one live connection.
LEMMA OwnUpdates ==
    ASSUME TypeOK, Owned, Addressed, OneChannel, WaitsOnce
    PROVE  OwnUpdatesOnce
<1> SUFFICES ASSUME NEW s \in Sockets, NEW t \in Sockets,
                    NEW i \in 1..Len(conn[s].inbox), NEW j \in 1..Len(conn[t].inbox)
             PROVE  /\ published[conn[s].inbox[i]] = conn[s].user
                    /\ overtaken \/ /\ conn[s].inbox[i] \notin seen
                                    /\ conn[s].inbox[i] = conn[t].inbox[j] => s = t /\ i = j
  BY DEF OwnUpdatesOnce
<1>1. conn[s].inbox \in Seq(Events) /\ conn[t].inbox \in Seq(Events)
  BY DEF TypeOK, Connection
<1>2. conn[s].inbox[i] \in Events /\ Waits(conn[s].inbox[i], s)
  BY <1>1 DEF Waits
<1>3. published[conn[s].inbox[i]] = conn[s].user
  BY <1>2 DEF Addressed
<1>4. conn[s].inbox # << >> /\ conn[t].inbox # << >>
  BY EmptyInbox
<1>5. ~overtaken => s = t
  BY <1>4, OneLive DEF Owned, Live
<1>6. ~overtaken => /\ conn[s].inbox[i] \notin seen
                    /\ s = t => (conn[s].inbox[i] = conn[t].inbox[j] => i = j)
  BY DEF WaitsOnce
<1> QED BY <1>3, <1>5, <1>6

-----------------------------------------------------------------------------
(***************************************************************************)
(* The theorems.                                                           *)
(***************************************************************************)
LEMMA InvInit == ChannelAssumption => (Init => IInv)
<1> SUFFICES ASSUME ChannelAssumption, Init PROVE IInv
  OBVIOUS
<1>1. TypeOK
  BY TypeInit
<1>2. \A s \in Sockets : conn[s] = Closed /\ Closed.state = "closed" /\ Closed.inbox = << >>
  BY DEF Init, Closed
<1>3. \A e \in Events, s \in Sockets : ~Waits(e, s)
  BY <1>2, EmptyInbox DEF Waits
<1>4. Owned /\ Subscribed /\ Addressed
  BY <1>2, <1>3 DEF Init, Owned, Subscribed, Addressed
<1>5. OneChannel /\ NewToTab
  BY <1>2 DEF Init, OneChannel, NewToTab, Live
<1>6. WaitsOnce
  BY <1>2, EmptyInbox DEF WaitsOnce
<1>7. ClosedByHand /\ NeverSilent
  BY DEF Init, ClosedByHand, NeverSilent
<1> QED BY <1>1, <1>4, <1>5, <1>6, <1>7 DEF IInv

LEMMA InvNext == ChannelAssumption => (IInv /\ [Next]_vars => IInv')
<1> SUFFICES ASSUME ChannelAssumption, IInv, [Next]_vars PROVE IInv'
  OBVIOUS
<1> USE DEF IInv
<1>1. TypeOK' /\ Owned'
  BY TypeNext, OwnedNext
<1>2. Subscribed' /\ Addressed'
  BY SubscribedNext, AddressedNext
<1>3. OneChannel' /\ NewToTab' /\ WaitsOnce'
  BY OneChannelNext, NewToTabNext, WaitsOnceNext
<1>4. Watchful'
  BY WatchfulNext DEF Watchful
<1> QED BY <1>1, <1>2, <1>3, <1>4 DEF Watchful

LEMMA InvHolds == Spec => []IInv
  BY InvInit, InvNext, ChannelAssumption, PTL DEF Spec

\* Every handler of the tab, the hub and the WebSocket controller keeps the
\* state typed, and only what was published is dispatched.
THEOREM TypeCorrect == Spec => []TypeOK
<1>1. IInv => TypeOK
  BY DEF IInv
<1> QED BY <1>1, InvHolds, PTL

\* A tab has one live connection, and of the user of the stored session unless
\* that has changed behind it, until onclose reports the end of a socket whose
\* successor is there already.
THEOREM OneChannelHolds == Spec => []OneChannel
<1>1. IInv => OneChannel
  BY DEF IInv
<1> QED BY <1>1, InvHolds, PTL

\* Updates on their way are for the user of their connection and, with the
\* same exception, none is dispatched a second time.
THEOREM UpdatesOnce == Spec => []OwnUpdatesOnce
<1>1. IInv => OwnUpdatesOnce
  BY OwnUpdates DEF IInv
<1> QED BY <1>1, InvHolds, PTL

\* A tab whose views listen in a session has a socket, or the reconnect timer
\* is running, or the server has refused its last socket, or the session has
\* come without the tab's doing.
THEOREM NeverLeftSilent == Spec => []NeverSilent
<1>1. IInv => NeverSilent
  BY DEF IInv
<1> QED BY <1>1, InvHolds, PTL
=============================================================================
