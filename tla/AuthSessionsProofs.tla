------------------------- MODULE AuthSessionsProofs -------------------------
(***************************************************************************)
(* Rotation is single use and logout is final, for any number of requests, *)
(* tokens, changes of password and failing calls.  The argument: a jti is  *)
(* given to one request only, whose store is the only call that creates    *)
(* its key, and that request answers after its store; so the key of an     *)
(* issued jti can only disappear, and the one refresh that removes it is   *)
(* the only one that may issue a successor.                                *)
(***************************************************************************)
EXTENDS AuthSessionsHistory, TLAPS

Storing(c) == req[c].pc \in {"setex", "sadd", "expire"}
Consumed(c) == req[c].pc \in {"consumed", "user"}
Revoking(c) == req[c].pc \in {"srem", "del"}

\* A request presents a jti only while it works on it.
Presented == \A c \in Clients :
    /\ At(c, "idle") => req[c].old = 0
    /\ Revoking(c) => req[c].old \in issued

\* A jti being stored was generated for this request and is not yet issued.
StoresOwnJti ==
    /\ \A c \in Clients :
          Storing(c) => req[c].new \in 1..(nextJti - 1) /\ req[c].new \notin issued
    /\ \A c, d \in Clients :
          Storing(c) /\ Storing(d) /\ req[c].new = req[d].new => c = d

\* A refresh that goes on holds the one right to a successor of its jti.
ConsumedOnce ==
    /\ \A c \in Clients :
          Consumed(c) => /\ req[c].old \in issued \ token
                         /\ \A k \in Tokens : origin[k].parent # req[c].old
    /\ \A c, d \in Clients :
          Consumed(c) /\ Consumed(d) /\ req[c].old = req[d].old => c = d

\* What has a successor is gone from the store, and has no other.
ParentsGone ==
    /\ \A k \in Tokens : origin[k].parent # 0 => origin[k].parent \in issued \ token
    /\ \A j, k \in Tokens :
          origin[j].parent = origin[k].parent /\ origin[j].parent # 0 => j = k

LoggedOutGone == \A j \in Tokens : logout[j] = "done" => j \in issued \ token

Inv == TypeOK /\ Presented /\ StoresOwnJti /\ ConsumedOnce /\ ParentsGone /\ LoggedOutGone

-----------------------------------------------------------------------------
\* No account has a session, a request or a token to begin with.
LEMMA InitInv == Init => Inv
  BY BoundsAssumption DEF Init, Inv, TypeOK, Presented, StoresOwnJti, ConsumedOnce,
     ParentsGone, LoggedOutGone, Storing, Consumed, Revoking, At, Idle, Request, Tokens

-----------------------------------------------------------------------------
\* Only generated jtis are known to clients.
LEMMA IssuedTokens == TypeOK => issued \subseteq Tokens
  <1> SUFFICES ASSUME TypeOK, NEW j \in issued PROVE j \in Tokens
    OBVIOUS
  <1>1. nextJti \in 1..(MaxTokens + 1) /\ j \in 1..(nextJti - 1)
    BY DEF TypeOK
  <1> QED
    BY <1>1, BoundsAssumption DEF Tokens

\* What issueTokenPair does to the types.
LEMMA IssueTypes ==
    ASSUME TypeOK, NEW c \in Clients, NEW era \in Nat, Issue(c, era)
    PROVE  /\ req' \in [Clients -> Request]
           /\ nextJti' \in 1..(MaxTokens + 1)
           /\ issued \subseteq 1..(nextJti' - 1)
           /\ origin' \in [Tokens -> [parent : Tokens \cup {0}, era : Nat]]
           /\ logout' \in [Tokens -> {"no", "asked", "done"}]
  <1> USE BoundsAssumption
  <1>0. req[c] \in Request
    BY DEF TypeOK
  <1>1. [req[c] EXCEPT !.pc = "setex", !.new = nextJti] \in Request
    BY <1>0 DEF Issue, Request
  <1>2. req' \in [Clients -> Request]
    BY <1>1 DEF Issue, TypeOK, Goto
  <1>3. nextJti' \in 1..(MaxTokens + 1) /\ issued \subseteq 1..(nextJti' - 1)
    BY DEF Issue, TypeOK, Tokens
  <1>4. [parent |-> req[c].old, era |-> era] \in [parent : Tokens \cup {0}, era : Nat]
    BY <1>0 DEF Request
  <1>5. origin' \in [Tokens -> [parent : Tokens \cup {0}, era : Nat]]
    BY <1>4 DEF Issue, TypeOK
  <1>6. logout' \in [Tokens -> {"no", "asked", "done"}]
    BY DEF Issue, TypeOK
  <1> QED
    BY <1>2, <1>3, <1>5, <1>6

\* Every step keeps the types; the rest of the invariant is needed because the
\* jti a request works on must be one.
LEMMA StepTypes == Inv /\ [Next]_vars => TypeOK'
  <1> SUFFICES ASSUME Inv, [Next]_vars PROVE TypeOK'
    OBVIOUS
  <1>0. TypeOK
    BY DEF Inv
  <1> USE <1>0, BoundsAssumption
  <1>1. ASSUME NEW c \in Clients, Login(c) PROVE TypeOK'
    <2>1. password \in Nat /\ Issue(c, password)
      BY <1>1 DEF Login, TypeOK
    <2> QED
      BY <1>1, <2>1, IssueTypes DEF Login, TypeOK
  <1>2. ASSUME NEW c \in Clients, StoreSetex(c) PROVE TypeOK'
    <2>1. req' \in [Clients -> Request]
      BY <1>2 DEF StoreSetex, Call, TypeOK, Goto, Request, Idle
    <2>2. req[c].new \in Tokens
      BY <1>2 DEF Inv, StoresOwnJti, Storing, StoreSetex, At, TypeOK, Tokens
    <2> QED
      BY <1>2, <2>1, <2>2 DEF StoreSetex, Call, TypeOK, Tokens, store, history
  <1>3. ASSUME NEW c \in Clients, StoreSadd(c) PROVE TypeOK'
    <2>1. req' \in [Clients -> Request]
      BY <1>3 DEF StoreSadd, Call, TypeOK, Goto, Request, Idle
    <2>2. req[c].new \in Tokens
      BY <1>3 DEF Inv, StoresOwnJti, Storing, StoreSadd, At, TypeOK, Tokens
    <2> QED
      BY <1>3, <2>1, <2>2 DEF StoreSadd, Call, TypeOK, Tokens, store, history
  <1>4. ASSUME NEW c \in Clients, StoreExpire(c) PROVE TypeOK'
    <2>1. req' \in [Clients -> Request]
      BY <1>4 DEF StoreExpire, TypeOK, Goto, Request, Idle
    <2>2. req[c].new \in 1..(nextJti - 1)
      BY <1>4 DEF Inv, StoresOwnJti, Storing, StoreExpire, At
    <2>3. issued \cup {req[c].new} \subseteq 1..(nextJti - 1)
      BY <2>2 DEF TypeOK
    <2>4. nextJti' = nextJti /\ issued' \in {issued, issued \cup {req[c].new}}
      BY <1>4 DEF StoreExpire
    <2>5. issued' \subseteq 1..(nextJti' - 1)
      BY <2>3, <2>4
    <2>6. faults' \in 0..MaxFaults
      BY <1>4 DEF StoreExpire, TypeOK
    <2> QED
      BY <1>4, <2>1, <2>5, <2>6 DEF StoreExpire, TypeOK, store
  <1>5. ASSUME NEW c \in Clients, ConsumeSrem(c) PROVE TypeOK'
    <2>1. req' \in [Clients -> Request]
      BY <1>5 DEF ConsumeSrem, Call, TypeOK, Goto, Request, Idle
    <2> QED
      BY <1>5, <2>1 DEF ConsumeSrem, Call, TypeOK, Tokens, store, history
  <1>6. ASSUME NEW c \in Clients, FindUser(c) PROVE TypeOK'
    <2>1. req[c].old \in issued
      BY <1>6 DEF Inv, ConsumedOnce, Consumed, FindUser, At
    <2>2. req[c].old \in Tokens
      BY <2>1, IssuedTokens
    <2>3. origin[req[c].old].era \in Nat
      BY <2>2 DEF TypeOK
    <2>4. CASE Issue(c, origin[req[c].old].era) /\ UNCHANGED faults
      BY <1>6, <2>3, <2>4, IssueTypes DEF FindUser, TypeOK, store
    <2>5. CASE Goto(c, Idle) /\ faults < MaxFaults /\ faults' = faults + 1
               /\ UNCHANGED <<nextJti, origin, logout>>
      <3>1. req' \in [Clients -> Request]
        BY <2>5 DEF TypeOK, Goto, Request, Idle
      <3> QED
        BY <1>6, <2>5, <3>1 DEF FindUser, TypeOK, store
    <2> QED
      BY <1>6, <2>4, <2>5 DEF FindUser
  <1>7. ASSUME NEW c \in Clients, RevokeSrem(c) PROVE TypeOK'
    <2>1. req' \in [Clients -> Request]
      BY <1>7 DEF RevokeSrem, Call, TypeOK, Goto, Request, Idle
    <2> QED
      BY <1>7, <2>1 DEF RevokeSrem, Call, TypeOK, Tokens, store, history
  <1>8. ASSUME NEW c \in Clients, RevokeDel(c) PROVE TypeOK'
    <2>1. req' \in [Clients -> Request]
      BY <1>8 DEF RevokeDel, TypeOK, Goto, Request, Idle
    <2>2. logout' \in [Tokens -> {"no", "asked", "done"}]
      BY <1>8 DEF RevokeDel, TypeOK
    <2>3. token' \subseteq Tokens /\ faults' \in 0..MaxFaults
      BY <1>8 DEF RevokeDel, TypeOK
    <2> QED
      BY <1>8, <2>1, <2>2, <2>3 DEF RevokeDel, TypeOK
  <1>9. ASSUME NEW c \in Clients, ChangePassword(c) PROVE TypeOK'
    <2>1. req' \in [Clients -> Request]
      BY <1>9 DEF ChangePassword, TypeOK, Goto, Request, Idle
    <2> QED
      BY <1>9, <2>1 DEF ChangePassword, TypeOK, Tokens, store, history
  <1>10. ASSUME NEW c \in Clients, RevokeUserRead(c) PROVE TypeOK'
    <2>1. Idle \in Request /\ [Idle EXCEPT !.pc = "victims", !.victims = members] \in Request
      BY DEF TypeOK, Request, Idle
    <2>2. req' \in [Clients -> Request]
      BY <1>10, <2>1 DEF RevokeUserRead, TypeOK, Goto
    <2> QED
      BY <1>10, <2>2 DEF RevokeUserRead, TypeOK, store, history
  <1>11. ASSUME NEW c \in Clients, RevokeUserDel(c) PROVE TypeOK'
    <2>1. req' \in [Clients -> Request]
      BY <1>11 DEF RevokeUserDel, TypeOK, Goto, Request, Idle
    <2> QED
      BY <1>11, <2>1 DEF RevokeUserDel, TypeOK, Tokens, store, history
  <1>12. ASSUME NEW c \in Clients, RevokeUserDone(c) PROVE TypeOK'
    <2>1. req' \in [Clients -> Request]
      BY <1>12 DEF RevokeUserDone, Call, TypeOK, Goto, Request, Idle
    <2> QED
      BY <1>12, <2>1 DEF RevokeUserDone, Call, TypeOK, Tokens, store, history
  <1>13. ASSUME NEW c \in Clients, UpdatePassword(c) PROVE TypeOK'
    <2>1. req' \in [Clients -> Request]
      BY <1>13 DEF UpdatePassword, Call, TypeOK, Goto, Request, Idle
    <2> QED
      BY <1>13, <2>1 DEF UpdatePassword, Call, TypeOK, Tokens, store, history
  <1>14. ASSUME NEW c \in Clients, NEW j \in Tokens, Consume(c, j) PROVE TypeOK'
    <2>1. [Idle EXCEPT !.pc = "consumed", !.old = j] \in Request
      BY DEF Request, Idle
    <2>2. req' \in [Clients -> Request]
      BY <1>14, <2>1 DEF Consume, TypeOK, Goto
    <2> QED
      BY <1>14, <2>2 DEF Consume, TypeOK, history
  <1>15. ASSUME NEW c \in Clients, NEW j \in Tokens, RevokeGet(c, j) PROVE TypeOK'
    <2>1. req' \in [Clients -> Request]
      BY <1>15 DEF RevokeGet, TypeOK, Goto, Request, Idle
    <2> QED
      BY <1>15, <2>1 DEF RevokeGet, TypeOK, Tokens, store, history
  <1>16. ASSUME NEW j \in Tokens, TokenExpires(j) PROVE TypeOK'
    BY <1>16 DEF TokenExpires, TypeOK, history
  <1>17. CASE UNCHANGED vars
    BY <1>17 DEF vars, TypeOK
  <1> QED
    BY <1>1, <1>2, <1>3, <1>4, <1>5, <1>6, <1>7, <1>8, <1>9, <1>10, <1>11, <1>12, <1>13, <1>14, <1>15, <1>16, <1>17 DEF Next, Step

-----------------------------------------------------------------------------
\* A request that goes on with the jtis it has, or gives up, disturbs nothing,
\* even if keys are deleted on the way.
LEMMA GoesOn ==
    ASSUME Inv, TypeOK', NEW c \in Clients, NEW q \in Request,
           req' = [req EXCEPT ![c] = q], token' \subseteq token,
           UNCHANGED <<nextJti, issued, origin, logout>>,
           q.pc = "idle" => q.old = 0,
           q.pc \in {"srem", "del"} => q.old \in issued,
           q.pc \in {"setex", "sadd", "expire"} => Storing(c) /\ q.new = req[c].new,
           q.pc \in {"consumed", "user"} => Consumed(c) /\ q.old = req[c].old
    PROVE  Inv'
  <1>0. req'[c] = q /\ \A d \in Clients : d # c => req'[d] = req[d]
    BY DEF Inv, TypeOK
  <1>1. Presented'
    BY <1>0 DEF Inv, Presented, At, Revoking
  <1>2. StoresOwnJti'
    BY <1>0 DEF Inv, StoresOwnJti, Storing
  <1>3. ConsumedOnce'
    BY <1>0 DEF Inv, ConsumedOnce, Consumed
  <1>4. ParentsGone' /\ LoggedOutGone'
    BY DEF Inv, ParentsGone, LoggedOutGone
  <1> QED
    BY <1>1, <1>2, <1>3, <1>4 DEF Inv

\* In particular a request that fails.
LEMMA GivesUp ==
    ASSUME Inv, TypeOK', NEW c \in Clients, Goto(c, Idle), token' \subseteq token,
           UNCHANGED <<nextJti, issued, origin, logout>>
    PROVE  Inv'
  <1>1. Idle \in Request /\ Idle.pc = "idle" /\ Idle.old = 0
    BY DEF Idle, Request
  <1> QED
    BY <1>1, GoesOn DEF Goto

\* And one call that touches neither the keys nor what was issued, after which
\* the request goes on with what it holds.
LEMMA CallGoesOn ==
    ASSUME Inv, TypeOK', NEW c \in Clients, NEW old, NEW new, NEW x,
           NEW pc \in {"expire", "user", "del", "update"}, Call(c, old, new, x, pc),
           UNCHANGED <<token, nextJti, issued, origin, logout>>,
           pc = "expire" => Storing(c), pc = "user" => Consumed(c), pc = "del" => Revoking(c)
    PROVE  Inv'
  <1> DEFINE q == [req[c] EXCEPT !.pc = pc]
  <1>1. req[c] \in Request
    BY DEF Inv, TypeOK
  <1>2. q \in Request /\ q.pc = pc /\ q.new = req[c].new /\ q.old = req[c].old
    BY <1>1 DEF Request
  <1>3. Revoking(c) => req[c].old \in issued
    BY DEF Inv, Presented
  <1>4. CASE Goto(c, Idle)
    BY <1>4, GivesUp
  <1>5. CASE Goto(c, q)
    BY <1>2, <1>3, <1>5, GoesOn DEF Goto
  <1> QED
    BY <1>4, <1>5 DEF Call

\* A new jti belongs to the request it was generated for, and is the successor
\* of the jti that this request consumed.
LEMMA IssueInv ==
    ASSUME Inv, TypeOK', NEW c \in Clients, NEW era, Issue(c, era),
           At(c, "idle") \/ At(c, "user"), UNCHANGED <<token, issued>>
    PROVE  Inv'
  <1> DEFINE old == req[c].old
  <1>0. /\ req'[c].pc = "setex" /\ req'[c].new = nextJti /\ req'[c].old = old
        /\ \A d \in Clients : d # c => req'[d] = req[d]
    BY DEF Inv, TypeOK, Issue, Goto, Request
  <1>1. /\ nextJti \in Tokens /\ nextJti \notin issued /\ nextJti' = nextJti + 1
        /\ nextJti \in Nat /\ nextJti \in 1..(nextJti' - 1)
    BY BoundsAssumption DEF Inv, TypeOK, Issue, Tokens
  <1>2. /\ origin'[nextJti].parent = old
        /\ \A k \in Tokens : k # nextJti => origin'[k].parent = origin[k].parent
    BY <1>1 DEF Inv, TypeOK, Issue
  <1>3. old = 0 \/ /\ old \in issued \ token
                   /\ \A k \in Tokens : origin[k].parent # old
                   /\ \A d \in Clients : d # c /\ Consumed(d) => req[d].old # old
    BY DEF Inv, Presented, ConsumedOnce, Consumed, At
  <1>4. Presented'
    BY <1>0 DEF Inv, Presented, At, Revoking
  <1>5. StoresOwnJti'
    BY <1>0, <1>1 DEF Inv, StoresOwnJti, Storing
  <1>6. ConsumedOnce'
    <2>1. \A d \in Clients : Consumed(d)' => d # c /\ Consumed(d)
      BY <1>0 DEF Consumed
    <2>2. \A d \in Clients : Consumed(d) => req[d].old # 0
      BY DEF Inv, ConsumedOnce, TypeOK
    <2> QED
      BY <1>0, <1>2, <1>3, <2>1, <2>2 DEF Inv, ConsumedOnce
  <1>7. ParentsGone'
    BY <1>1, <1>2, <1>3 DEF Inv, ParentsGone
  <1>8. LoggedOutGone'
    BY <1>1 DEF Inv, LoggedOutGone, Issue, TypeOK
  <1> QED
    BY <1>4, <1>5, <1>6, <1>7, <1>8 DEF Inv

\* Every step keeps the invariant.
LEMMA StepInv == Inv /\ [Next]_vars => Inv'
  <1> SUFFICES ASSUME Inv, [Next]_vars PROVE Inv'
    OBVIOUS
  <1>0. TypeOK /\ TypeOK'
    BY StepTypes DEF Inv
  <1> USE <1>0
  <1>1. ASSUME NEW c \in Clients, Login(c) PROVE Inv'
    BY <1>1, IssueInv DEF Login
  <1>2. ASSUME NEW c \in Clients, StoreSetex(c) PROVE Inv'
    <2> DEFINE j == req[c].new
    <2>1. /\ Storing(c) /\ j \in 1..(nextJti - 1) /\ j \notin issued
          /\ token' \subseteq token \cup {j}
          /\ UNCHANGED <<nextJti, issued, origin, logout>>
      BY <1>2 DEF StoreSetex, Call, history, Inv, StoresOwnJti, Storing, At
    <2>2. \/ req'[c] = Idle
          \/ req'[c].pc = "sadd" /\ req'[c].new = j /\ req'[c].old = req[c].old
      BY <1>2 DEF StoreSetex, Call, Goto, TypeOK, Request
    <2>3. \A d \in Clients : d # c => req'[d] = req[d]
      BY <1>2 DEF StoreSetex, Call, Goto, TypeOK
    <2>4. Presented'
      BY <2>1, <2>2, <2>3 DEF Inv, Presented, At, Revoking, Idle
    <2>5. StoresOwnJti'
      BY <2>1, <2>2, <2>3 DEF Inv, StoresOwnJti, Storing, Idle
    <2>6. ConsumedOnce'
      BY <2>1, <2>2, <2>3 DEF Inv, ConsumedOnce, Consumed, Idle
    <2>7. ParentsGone' /\ LoggedOutGone'
      BY <2>1 DEF Inv, ParentsGone, LoggedOutGone
    <2> QED
      BY <2>4, <2>5, <2>6, <2>7 DEF Inv
  <1>3. ASSUME NEW c \in Clients, StoreSadd(c) PROVE Inv'
    BY <1>3, CallGoesOn DEF StoreSadd, history, Storing, Consumed, Revoking, At
  <1>4. ASSUME NEW c \in Clients, StoreExpire(c) PROVE Inv'
    <2> DEFINE j == req[c].new
    <2>1. /\ Storing(c) /\ j \in 1..(nextJti - 1)
          /\ issued \subseteq issued' /\ issued' \subseteq issued \cup {j}
          /\ UNCHANGED <<token, nextJti, origin, logout>>
      BY <1>4 DEF StoreExpire, store, Inv, StoresOwnJti, Storing, At
    <2>2. /\ req'[c].pc = "idle" /\ req'[c].old = 0
          /\ \A d \in Clients : d # c => req'[d] = req[d]
      BY <1>4 DEF StoreExpire, Goto, TypeOK, Idle
    <2>3. Presented'
      BY <2>1, <2>2 DEF Inv, Presented, At, Revoking
    <2>4. StoresOwnJti'
      BY <2>1, <2>2 DEF Inv, StoresOwnJti, Storing
    <2>5. ConsumedOnce'
      BY <2>1, <2>2 DEF Inv, ConsumedOnce, Consumed
    <2>6. ParentsGone' /\ LoggedOutGone'
      BY <2>1 DEF Inv, ParentsGone, LoggedOutGone
    <2> QED
      BY <2>3, <2>4, <2>5, <2>6 DEF Inv
  <1>5. ASSUME NEW c \in Clients, ConsumeSrem(c) PROVE Inv'
    BY <1>5, CallGoesOn DEF ConsumeSrem, history, Storing, Consumed, Revoking, At
  <1>6. ASSUME NEW c \in Clients, FindUser(c) PROVE Inv'
    BY <1>6, IssueInv, GivesUp DEF FindUser, store
  <1>7. ASSUME NEW c \in Clients, RevokeSrem(c) PROVE Inv'
    BY <1>7, CallGoesOn DEF RevokeSrem, history, Storing, Consumed, Revoking, At
  <1>8. ASSUME NEW c \in Clients, RevokeDel(c) PROVE Inv'
    <2> DEFINE j == req[c].old
    <2>1. j \in issued
      BY <1>8 DEF RevokeDel, Inv, Presented, Revoking, At
    <2>2. CASE UNCHANGED logout
      BY <1>8, <2>2, GivesUp DEF RevokeDel
    <2>3. CASE token' = token \ {j} /\ logout' = [logout EXCEPT ![j] = "done"]
      <3>1. /\ req'[c].pc = "idle" /\ req'[c].old = 0
            /\ \A d \in Clients : d # c => req'[d] = req[d]
            /\ UNCHANGED <<nextJti, issued, origin>>
        BY <1>8 DEF RevokeDel, Goto, TypeOK, Idle
      <3>2. Presented' /\ StoresOwnJti'
        BY <3>1 DEF Inv, Presented, StoresOwnJti, At, Revoking, Storing
      <3>3. ConsumedOnce' /\ ParentsGone'
        BY <2>3, <3>1 DEF Inv, ConsumedOnce, ParentsGone, Consumed
      <3>4. LoggedOutGone'
        BY <2>1, <2>3, <3>1 DEF Inv, LoggedOutGone, TypeOK
      <3> QED
        BY <3>2, <3>3, <3>4 DEF Inv
    <2> QED
      BY <1>8, <2>2, <2>3 DEF RevokeDel
  <1>9. ASSUME NEW c \in Clients, ChangePassword(c) PROVE Inv'
    <2>1. LET q == [Idle EXCEPT !.pc = "smembers"] IN q \in Request /\ q.pc = "smembers"
      BY DEF Request, Idle
    <2> QED
      BY <1>9, <2>1, GoesOn DEF ChangePassword, Goto, store, history
  <1>10. ASSUME NEW c \in Clients, RevokeUserRead(c) PROVE Inv'
    <2>1. LET q == [Idle EXCEPT !.pc = "victims", !.victims = members]
          IN  q \in Request /\ q.pc = "victims"
      BY DEF Request, Idle, TypeOK
    <2>2. CASE Goto(c, [Idle EXCEPT !.pc = "victims", !.victims = members])
      BY <1>10, <2>1, <2>2, GoesOn DEF RevokeUserRead, Goto, store, history
    <2>3. CASE Goto(c, Idle)
      BY <1>10, <2>3, GivesUp DEF RevokeUserRead, store, history
    <2> QED
      BY <1>10, <2>2, <2>3 DEF RevokeUserRead
  <1>11. ASSUME NEW c \in Clients, RevokeUserDel(c) PROVE Inv'
    <2>1. PICK j \in req[c].victims :
             /\ token' \subseteq token
             /\ Goto(c, [req[c] EXCEPT !.victims = @ \ {j}]) \/ Goto(c, Idle)
      BY <1>11 DEF RevokeUserDel
    <2>2. LET q == [req[c] EXCEPT !.victims = @ \ {j}]
          IN  q \in Request /\ q.pc = "victims"
      <3>1. req[c] \in Request /\ req[c].pc = "victims"
        BY <1>11 DEF RevokeUserDel, At, TypeOK
      <3> QED
        BY <3>1 DEF Request
    <2>3. UNCHANGED <<nextJti, issued, origin, logout>>
      BY <1>11 DEF RevokeUserDel, history
    <2> QED
      BY <2>1, <2>2, <2>3, GoesOn, GivesUp DEF Goto
  <1>12. ASSUME NEW c \in Clients, RevokeUserDone(c) PROVE Inv'
    BY <1>12, CallGoesOn DEF RevokeUserDone, history, Storing, Consumed, Revoking, At
  <1>13. ASSUME NEW c \in Clients, UpdatePassword(c) PROVE Inv'
    BY <1>13, GivesUp DEF UpdatePassword, Call, store, history
  <1>14. ASSUME NEW c \in Clients, NEW j \in Tokens, Consume(c, j) PROVE Inv'
    <2>1. token' \subseteq token /\ UNCHANGED <<nextJti, issued, origin, logout>>
      BY <1>14 DEF Consume, history
    <2>2. CASE UNCHANGED req
      BY <2>1, <2>2 DEF Inv, Presented, StoresOwnJti, ConsumedOnce, ParentsGone, LoggedOutGone,
                        At, Storing, Consumed, Revoking
    <2>3. CASE /\ token' = token \ {j}
               /\ Goto(c, [Idle EXCEPT !.pc = "consumed", !.old = j])
      <3>1. /\ req'[c].pc = "consumed" /\ req'[c].old = j
            /\ \A d \in Clients : d # c => req'[d] = req[d]
        BY <2>3 DEF Goto, TypeOK, Idle
      <3>2. j \in issued \cap token /\ j # 0
        BY <1>14 DEF Consume, TypeOK
      <3>3. Presented' /\ StoresOwnJti'
        BY <2>1, <3>1 DEF Inv, Presented, StoresOwnJti, At, Revoking, Storing
      <3>4. ParentsGone' /\ LoggedOutGone'
        BY <2>1 DEF Inv, ParentsGone, LoggedOutGone
      <3>5. \A k \in Tokens : origin[k].parent # j
        BY <3>2 DEF Inv, ParentsGone
      <3>6. ConsumedOnce'
        BY <2>1, <2>3, <3>1, <3>2, <3>5 DEF Inv, ConsumedOnce, Consumed
      <3> QED
        BY <3>3, <3>4, <3>6 DEF Inv
    <2> QED
      BY <1>14, <2>2, <2>3 DEF Consume
  <1>15. ASSUME NEW c \in Clients, NEW j \in Tokens, RevokeGet(c, j) PROVE Inv'
    <2>1. /\ UNCHANGED <<token, nextJti, issued, origin>> /\ j \in issued
          /\ logout' = [logout EXCEPT ![j] = IF @ = "done" THEN @ ELSE "asked"]
      BY <1>15 DEF RevokeGet, store
    <2>2. /\ req'[c].pc \in {"srem", "del"} /\ req'[c].old = j
          /\ \A d \in Clients : d # c => req'[d] = req[d]
      BY <1>15 DEF RevokeGet, Goto, TypeOK, Idle
    <2>3. Presented' /\ StoresOwnJti'
      BY <2>1, <2>2 DEF Inv, Presented, StoresOwnJti, At, Revoking, Storing
    <2>4. ConsumedOnce' /\ ParentsGone'
      BY <2>1, <2>2 DEF Inv, ConsumedOnce, ParentsGone, Consumed
    <2>5. LoggedOutGone'
      BY <2>1 DEF Inv, LoggedOutGone, TypeOK
    <2> QED
      BY <2>3, <2>4, <2>5 DEF Inv
  <1>16. ASSUME NEW j \in Tokens, TokenExpires(j) PROVE Inv'
    BY <1>16 DEF TokenExpires, history, Inv, Presented, StoresOwnJti, ConsumedOnce,
                 ParentsGone, LoggedOutGone, At, Storing, Consumed, Revoking
  <1>17. CASE UNCHANGED vars
    BY <1>17 DEF vars, Inv, Presented, StoresOwnJti, ConsumedOnce,
                 ParentsGone, LoggedOutGone, At, Storing, Consumed, Revoking
  <1> QED
    BY <1>1, <1>2, <1>3, <1>4, <1>5, <1>6, <1>7, <1>8, <1>9, <1>10, <1>11, <1>12, <1>13, <1>14, <1>15, <1>16, <1>17 DEF Next, Step

-----------------------------------------------------------------------------
\* Every reachable state satisfies the invariant.
LEMMA InvHolds == Spec => []Inv
  BY InitInv, StepInv, PTL DEF Spec

\* Sessions are typed, and clients know generated jtis only.
THEOREM SessionsTyped == Spec => []TypeOK
  <1>1. Inv => TypeOK
    BY DEF Inv
  <1> QED
    BY <1>1, InvHolds, PTL

\* Rotation is single use, however many requests present one refresh token at
\* the same time and wherever they fail (AuthService::refresh over
\* RedisRefreshTokenStore::consume and store).
THEOREM RotationIsSingleUse == Spec => []OneSuccessor
  <1>1. Inv => OneSuccessor
    BY IssuedTokens DEF Inv, ParentsGone, OneSuccessor
  <1> QED
    BY <1>1, InvHolds, PTL

\* A refresh token whose logout succeeded is dead for good
\* (RedisRefreshTokenStore::revoke).
THEOREM LogoutStaysFinal == Spec => []LogoutIsFinal
  <1>1. Inv => LogoutIsFinal
    BY DEF Inv, LoggedOutGone, LogoutIsFinal
  <1> QED
    BY <1>1, InvHolds, PTL

-----------------------------------------------------------------------------
(***************************************************************************)
(* A change of password ends the sessions of the old one.  The argument: a *)
(* jti that no request holds while a password is being changed was in the  *)
(* set of the account when the change read it, so its key is deleted       *)
(* before the new hash is written; one that a request holds is spared, and *)
(* so is what it is rotated to.                                            *)
(***************************************************************************)
Clean(j) == j \notin overlapped /\ logout[j] = "no"
Live(j) == j \in issued \cap token /\ Clean(j)

\* What is held while a password is being changed overlaps the change.
HeldOverlap == \A c, d \in Clients :
    req[c].pc \in {"smembers", "victims", "update"} =>
        {req[d].old, req[d].new} \ {0} \subseteq overlapped

RevokingAsked == \A c \in Clients : Revoking(c) => logout[req[c].old] # "no"

\* What works, or will once it is stored or rotated, is of the current password.
ErasCurrent ==
    /\ \A j \in Tokens : Live(j) => origin[j].era = password /\ j \in members
    /\ \A c \in Clients :
          /\ Storing(c) /\ Clean(req[c].new) =>
                /\ origin[req[c].new].era = password
                /\ At(c, "expire") => req[c].new \in members
          /\ Consumed(c) /\ Clean(req[c].old) => origin[req[c].old].era = password

\* A change of password has yet to delete all that works.
VictimsComplete == \A c \in Clients, j \in Tokens : Live(j) =>
    /\ At(c, "victims") => j \in req[c].victims
    /\ ~At(c, "update")

ChangeInv == HeldOverlap /\ RevokingAsked /\ ErasCurrent /\ VictimsComplete

\* What every step makes of overlapped.
OverlapStep ==
    /\ overlapped \subseteq overlapped'
    /\ HeldOverlap'
    /\ \A j \in Tokens : nextJti <= j /\ j < nextJti' /\ origin'[j].parent \in overlapped => j \in overlapped'

LEMMA Overlaps ==
    ASSUME TypeOK, HeldOverlap, [HNext]_hvars
    PROVE  OverlapStep
  <1>1. CASE HNext
    <2>1. overlapped \subseteq overlapped' /\ Inherited \subseteq overlapped'
      BY <1>1 DEF HNext
    <2>2. Changing' => Handled' \ {0} \subseteq overlapped'
      BY <1>1 DEF HNext
    <2>3. \A c \in Clients : req'[c].pc \in {"smembers", "victims", "update"} => Changing'
      BY DEF Changing
    <2>4. \A d \in Clients : {req'[d].old, req'[d].new} \subseteq Handled'
      BY DEF Handled
    <2>5. HeldOverlap'
      BY <2>2, <2>3, <2>4 DEF HeldOverlap
    <2> QED
      BY <2>1, <2>5 DEF OverlapStep, Inherited
  <1>2. CASE UNCHANGED hvars
    <2>1. HeldOverlap' /\ overlapped' = overlapped /\ nextJti' = nextJti
      BY <1>2 DEF hvars, vars, HeldOverlap
    <2>2. \A j \in Tokens : ~(nextJti <= j /\ j < nextJti)
      BY BoundsAssumption DEF TypeOK, Tokens
    <2> QED
      BY <2>1, <2>2 DEF OverlapStep
  <1> QED
    BY <1>1, <1>2

\* A jti that is stored, consumed or revoked is one, and the one being stored is
\* no other.
LEMMA HeldJtis ==
    ASSUME Inv, NEW c \in Clients
    PROVE  /\ Storing(c) => /\ req[c].new \in Tokens /\ req[c].new # 0
                            /\ req[c].new \notin issued /\ req[c].new # nextJti
           /\ Consumed(c) => req[c].old \in Tokens \cap issued /\ req[c].old # 0 /\ req[c].old \notin token
           /\ Revoking(c) => req[c].old \in Tokens \cap issued
  <1>1. issued \subseteq Tokens /\ nextJti \in 1..(MaxTokens + 1)
    BY IssuedTokens DEF Inv, TypeOK
  <1>2. Storing(c) => req[c].new \in 1..(nextJti - 1) /\ req[c].new \notin issued
    BY DEF Inv, StoresOwnJti
  <1>3. Storing(c) => req[c].new \in Tokens /\ req[c].new # 0 /\ req[c].new # nextJti
    BY <1>1, <1>2, BoundsAssumption DEF Tokens
  <1>4. \A j \in Tokens : j # 0
    BY DEF Tokens
  <1>5. (Consumed(c) => req[c].old \in issued \ token) /\ (Revoking(c) => req[c].old \in issued)
    BY DEF Inv, ConsumedOnce, Presented
  <1> QED
    BY <1>1, <1>2, <1>3, <1>4, <1>5

\* Clean(j) in the next state, for a jti that is named in this one.
CleanNext(j) == j \notin overlapped' /\ logout'[j] = "no"

\* A step after which nothing works, or is about to, that was not before, and
\* all of it is still in the set of the account.
LEMMA ChangeKept ==
    ASSUME Inv, ChangeInv, OverlapStep, NEW c \in Clients, NEW q,
           req'[c] = q, \A d \in Clients : d # c => req'[d] = req[d],
           UNCHANGED <<password, origin>>,
           \A j \in Tokens : logout'[j] = "no" => logout[j] = "no",
           \A j \in Tokens : Live(j)' => Live(j) /\ (j \in members => j \in members'),
           \A d \in Clients : At(d, "expire") /\ CleanNext(req[d].new) /\ req[d].new \in members
                             => req[d].new \in members',
           q.pc \in {"setex", "sadd", "expire"} => Storing(c) /\ q.new = req[c].new,
           q.pc = "expire" => At(c, "expire") \/ q.new \in members',
           q.pc \in {"consumed", "user"} => q.old \in Tokens /\ (CleanNext(q.old) => origin[q.old].era = password),
           q.pc \in {"srem", "del"} => logout'[q.old] # "no",
           q.pc = "victims" => \A j \in Tokens : Live(j)' => j \in q.victims,
           q.pc = "update" => \A j \in Tokens : ~Live(j)'
    PROVE  ChangeInv'
  <1>1. \A j \in Tokens : CleanNext(j) => Clean(j)
    BY DEF OverlapStep, Clean, CleanNext
  <1>2. RevokingAsked'
    BY HeldJtis DEF ChangeInv, RevokingAsked, Revoking
  <1>3. \A j \in Tokens : Live(j)' => origin'[j].era = password' /\ j \in members'
    BY DEF ChangeInv, ErasCurrent
  <1>4. ASSUME NEW d \in Clients, Storing(d)', CleanNext(req'[d].new)
        PROVE  /\ origin'[req'[d].new].era = password'
               /\ req'[d].pc = "expire" => req'[d].new \in members'
    <2>1. Storing(d) /\ req'[d].new = req[d].new
      BY <1>4 DEF Storing
    <2>2. Clean(req[d].new)
      BY <1>1, <1>4, <2>1, HeldJtis
    <2>3. CleanNext(req[d].new)
      BY <1>4, <2>1
    <2>4. At(d, "expire") => req[d].new \in members'
      BY <2>1, <2>2, <2>3 DEF ChangeInv, ErasCurrent
    <2>5. req'[d].pc = "expire" => At(d, "expire") \/ req'[d].new \in members'
      BY DEF At
    <2> QED
      BY <2>1, <2>2, <2>4, <2>5 DEF ChangeInv, ErasCurrent
  <1>5. ASSUME NEW d \in Clients, Consumed(d)', CleanNext(req'[d].old)
        PROVE  origin'[req'[d].old].era = password'
    <2>1. CASE d = c
      <3>1. CleanNext(q.old) => origin[q.old].era = password
        BY <1>5, <2>1 DEF Consumed
      <3>2. CleanNext(q.old)
        BY <1>5, <2>1
      <3> QED
        BY <2>1, <3>1, <3>2
    <2>2. CASE d # c
      <3>1. Consumed(d) /\ req'[d].old = req[d].old
        BY <1>5, <2>2 DEF Consumed
      <3>2. Clean(req[d].old)
        BY <1>1, <1>5, <3>1, HeldJtis
      <3> QED
        BY <3>1, <3>2 DEF ChangeInv, ErasCurrent
    <2> QED
      BY <2>1, <2>2
  <1>6. ErasCurrent'
    BY <1>3, <1>4, <1>5 DEF ErasCurrent, Clean, CleanNext, At
  <1>7. VictimsComplete'
    BY DEF ChangeInv, VictimsComplete, At
  <1> QED
    BY <1>2, <1>6, <1>7 DEF ChangeInv, OverlapStep

\* A request that gives up, or goes on with nothing in its hands, while keys may
\* be deleted.
LEMMA ChangeGivesUp ==
    ASSUME Inv, ChangeInv, OverlapStep, NEW c \in Clients, Goto(c, Idle),
           token' \subseteq token, members' = members,
           UNCHANGED <<password, issued, origin, logout>>
    PROVE  ChangeInv'
  <1>1. req'[c] = Idle /\ (\A d \in Clients : d # c => req'[d] = req[d]) /\ Idle.pc = "idle"
    BY DEF Inv, TypeOK, Goto, Idle
  <1>2. \A j \in Tokens : Live(j)' => Live(j)
    BY DEF Live, Clean, OverlapStep
  <1> HIDE DEF Idle
  <1> QED
    BY <1>1, <1>2, ChangeKept

\* The calls of a store: the key, the set, and the answer.
LEMMA ChangeStores ==
    ASSUME Inv, ChangeInv, OverlapStep, NEW c \in Clients, StoreSetex(c) \/ StoreSadd(c)
    PROVE  ChangeInv'
  <1> DEFINE n == req[c].new
  <1>0. /\ req \in [Clients -> Request] /\ req[c] \in Request /\ Storing(c) /\ n \notin issued
        /\ UNCHANGED <<password, issued, origin, logout>> /\ ~At(c, "expire")
    BY HeldJtis DEF Inv, TypeOK, StoreSetex, StoreSadd, history, Storing, At
  <1>1. PICK q \in {Idle, [req[c] EXCEPT !.pc = "sadd"], [req[c] EXCEPT !.pc = "expire"]} :
           /\ Goto(c, q)
           /\ token' \subseteq token \cup {n} /\ members \subseteq members'
           /\ q.pc = "expire" => n \in members'
    <2>1. CASE StoreSetex(c)
      <3>1. Goto(c, Idle) \/ Goto(c, [req[c] EXCEPT !.pc = "sadd"])
        BY <2>1 DEF StoreSetex, Call
      <3>2. token' \subseteq token \cup {n} /\ members' = members
        BY <2>1 DEF StoreSetex, Call
      <3>3. Idle.pc = "idle" /\ [req[c] EXCEPT !.pc = "sadd"].pc = "sadd"
        BY <1>0 DEF Idle, Request
      <3> QED
        BY <3>1, <3>2, <3>3
    <2>2. CASE StoreSadd(c)
      <3>1. \/ Goto(c, Idle) /\ members' \in {members, members \cup {n}}
            \/ Goto(c, [req[c] EXCEPT !.pc = "expire"]) /\ members' = members \cup {n}
        BY <2>2 DEF StoreSadd, Call
      <3>2. token' = token /\ Idle.pc = "idle"
        BY <2>2 DEF StoreSadd, Idle
      <3> QED
        BY <3>1, <3>2
    <2> QED
      BY <2>1, <2>2
  <1>2. /\ req'[c] = q /\ \A d \in Clients : d # c => req'[d] = req[d]
        /\ q.pc \in {"idle", "sadd", "expire"} /\ (q.pc # "idle" => q.new = n)
    BY <1>0, <1>1 DEF Goto, Idle, Request
  <1>3. \A j \in Tokens : Live(j)' => Live(j)
    BY <1>0, <1>1 DEF Live, Clean, OverlapStep
  <1> QED
    BY <1>0, <1>1, <1>2, <1>3, ChangeKept

LEMMA ChangeAnswers ==
    ASSUME Inv, ChangeInv, OverlapStep, NEW c \in Clients, StoreExpire(c)
    PROVE  ChangeInv'
  <1> DEFINE n == req[c].new
  <1>0. /\ req \in [Clients -> Request] /\ Storing(c) /\ At(c, "expire") /\ n \in Tokens /\ n # 0
        /\ UNCHANGED <<password, token, members, origin, logout>> /\ issued' \subseteq issued \cup {n}
        /\ Goto(c, Idle) /\ Idle.pc = "idle"
    BY HeldJtis DEF Inv, TypeOK, StoreExpire, store, Storing, At, Idle
  <1>1. /\ req'[c] = Idle /\ \A d \in Clients : d # c => req'[d] = req[d]
    BY <1>0 DEF Goto
  <1>2. \A j : Clean(j)' => Clean(j)
    BY <1>0 DEF Clean, OverlapStep
  <1>3. \A j \in Tokens : Live(j)' => Live(j) \/ (j = n /\ Clean(n))
    BY <1>0, <1>2 DEF Live
  <1>4. Clean(n) => /\ origin[n].era = password /\ n \in members
                    /\ \A d \in Clients : ~At(d, "victims") /\ ~At(d, "update")
    BY <1>0 DEF ChangeInv, ErasCurrent, HeldOverlap, At, Clean
  <1>5. RevokingAsked'
    BY <1>0, <1>1 DEF ChangeInv, RevokingAsked, Revoking
  <1>6. ErasCurrent'
    <2>1. \A j \in Tokens : Live(j)' => origin'[j].era = password' /\ j \in members'
      BY <1>0, <1>3, <1>4 DEF ChangeInv, ErasCurrent
    <2>2. \A d \in Clients : Storing(d)' \/ Consumed(d)' => d # c /\ req'[d] = req[d]
      BY <1>0, <1>1 DEF Storing, Consumed
    <2> QED
      BY <1>0, <1>2, <2>1, <2>2 DEF ChangeInv, ErasCurrent, Storing, Consumed, At, Clean
  <1>7. VictimsComplete'
    <2>1. \A d \in Clients : At(d, "victims")' \/ At(d, "update")' => d # c /\ req'[d] = req[d]
      BY <1>0, <1>1 DEF At
    <2> QED
      BY <1>0, <1>3, <1>4, <2>1 DEF ChangeInv, VictimsComplete, At
  <1> QED
    BY <1>5, <1>6, <1>7 DEF ChangeInv, OverlapStep

\* A login, or the second half of a refresh: the new jti is of the password
\* that was checked for it.
LEMMA ChangeIssues ==
    ASSUME Inv, ChangeInv, OverlapStep, NEW c \in Clients, NEW era, Issue(c, era),
           \/ At(c, "idle") /\ era = password
           \/ At(c, "user") /\ era = origin[req[c].old].era,
           UNCHANGED <<password, token, members, issued>>
    PROVE  ChangeInv'
  <1> DEFINE n == nextJti
             old == req[c].old
  <1>0. /\ req \in [Clients -> Request] /\ req[c] \in Request /\ n \in Tokens /\ n \in Nat
        /\ nextJti' = n + 1 /\ n \notin issued
    BY BoundsAssumption DEF Inv, TypeOK, Issue, Tokens
  <1>1. /\ req'[c].pc = "setex" /\ req'[c].new = n
        /\ \A d \in Clients : d # c => req'[d] = req[d]
    BY <1>0 DEF Issue, Goto, Request
  <1>2. /\ origin'[n].parent = old /\ origin'[n].era = era
        /\ \A k \in Tokens : k # n => origin'[k] = origin[k] /\ logout'[k] = logout[k]
        /\ logout'[n] = IF old # 0 /\ logout[old] # "no" THEN "asked" ELSE "no"
    BY <1>0 DEF Inv, TypeOK, Issue
  <1>3. \A k \in Tokens : k # n /\ CleanNext(k) => Clean(k)
    BY <1>2 DEF CleanNext, Clean, OverlapStep
  <1>4. CleanNext(n) => era = password
    <2>1. CASE At(c, "idle") /\ era = password
      BY <2>1
    <2>2. CASE At(c, "user") /\ era = origin[old].era
      <3>1. Consumed(c) /\ old \in Tokens /\ old # 0
        BY <2>2, HeldJtis DEF Consumed, At
      <3>2. CleanNext(n) => Clean(old)
        BY <1>0, <1>2, <3>1 DEF CleanNext, Clean, OverlapStep
      <3> QED
        BY <2>2, <3>1, <3>2 DEF ChangeInv, ErasCurrent
    <2> QED
      BY <2>1, <2>2
  <1>5. \A j \in Tokens : Live(j)' => Live(j) /\ j # n
    BY <1>0, <1>3 DEF Live, Clean, CleanNext
  <1>6. RevokingAsked'
    <2>1. \A d \in Clients : Revoking(d)' => d # c /\ Revoking(d) /\ req'[d] = req[d] /\ req[d].old # n
      BY <1>0, <1>1, HeldJtis DEF Revoking
    <2> QED
      BY <1>2, <2>1, HeldJtis DEF ChangeInv, RevokingAsked
  <1>7. ErasCurrent'
    <2>1. \A j \in Tokens : Live(j)' => origin'[j].era = password' /\ j \in members'
      BY <1>2, <1>5 DEF ChangeInv, ErasCurrent
    <2>2. ASSUME NEW d \in Clients, Storing(d)', CleanNext(req'[d].new)
          PROVE  origin'[req'[d].new].era = password' /\ (req'[d].pc = "expire" => req'[d].new \in members')
      <3>1. CASE d = c
        BY <1>1, <1>2, <1>4, <2>2, <3>1
      <3>2. CASE d # c
        <4>0. req'[d] = req[d] /\ Storing(d)
          BY <1>1, <2>2, <3>2 DEF Storing
        <4>1. req'[d] = req[d] /\ Storing(d) /\ req[d].new \in Tokens /\ req[d].new # n
          BY <4>0, HeldJtis
        <4>2. Clean(req[d].new)
          BY <1>3, <2>2, <4>1
        <4>3. /\ origin[req[d].new].era = password
              /\ req[d].pc = "expire" => req[d].new \in members
          BY <4>1, <4>2 DEF ChangeInv, ErasCurrent, At
        <4>4. origin'[req[d].new] = origin[req[d].new] /\ password' = password /\ members' = members
          BY <1>2, <4>1
        <4> QED
          BY <4>1, <4>3, <4>4
      <3> QED
        BY <3>1, <3>2
    <2>3. ASSUME NEW d \in Clients, Consumed(d)', CleanNext(req'[d].old)
          PROVE  origin'[req'[d].old].era = password'
      <3>1. d # c /\ req'[d] = req[d] /\ Consumed(d) /\ req[d].old \in Tokens /\ req[d].old # n
        BY <1>0, <1>1, <2>3, HeldJtis DEF Consumed
      <3> QED
        BY <1>2, <1>3, <2>3, <3>1 DEF ChangeInv, ErasCurrent
    <2> QED
      BY <2>1, <2>2, <2>3 DEF ErasCurrent, Clean, CleanNext, At
  <1>8. VictimsComplete'
    <2>1. \A d \in Clients : At(d, "victims")' \/ At(d, "update")' => req'[d] = req[d]
      BY <1>1 DEF At
    <2> QED
      BY <1>5, <2>1 DEF ChangeInv, VictimsComplete, At
  <1> QED
    BY <1>6, <1>7, <1>8 DEF ChangeInv, OverlapStep

\* A refresh consumes its token, and takes it from the set.
LEMMA ChangeConsumes ==
    ASSUME Inv, ChangeInv, OverlapStep, NEW c \in Clients, NEW j \in Tokens, Consume(c, j)
    PROVE  ChangeInv'
  <1>0. /\ req \in [Clients -> Request] /\ token' \subseteq token /\ j \in issued \cap token
        /\ UNCHANGED <<password, members, issued, origin, logout>>
    BY DEF Inv, TypeOK, Consume, history
  <1>1. \A k \in Tokens : Live(k)' => Live(k)
    BY <1>0 DEF Live, Clean, OverlapStep
  <1>2. CleanNext(j) => origin[j].era = password
    <2>1. CleanNext(j) => Live(j)
      BY <1>0 DEF CleanNext, Live, Clean, OverlapStep
    <2> QED
      BY <2>1 DEF ChangeInv, ErasCurrent
  <1>3. CASE Goto(c, [Idle EXCEPT !.pc = "consumed", !.old = j])
    <2> DEFINE q == [Idle EXCEPT !.pc = "consumed", !.old = j]
    <2>1. q.pc = "consumed" /\ q.old = j
      BY DEF Idle
    <2>2. req'[c] = q /\ \A d \in Clients : d # c => req'[d] = req[d]
      BY <1>0, <1>3 DEF Goto
    <2> HIDE DEF q
    <2> QED
      BY <1>0, <1>1, <1>2, <2>1, <2>2, ChangeKept
  <1>4. CASE UNCHANGED req
    <2>1. \A k : Clean(k)' => Clean(k)
      BY <1>0 DEF Clean, OverlapStep
    <2>2. RevokingAsked' /\ ErasCurrent' /\ VictimsComplete'
      BY <1>0, <1>1, <1>4, <2>1 DEF ChangeInv, RevokingAsked, ErasCurrent, VictimsComplete,
                                    Revoking, Storing, Consumed, At, Clean
    <2> QED
      BY <2>2 DEF ChangeInv, OverlapStep
  <1> QED
    BY <1>3, <1>4 DEF Consume

LEMMA ChangeSrems ==
    ASSUME Inv, ChangeInv, OverlapStep, NEW c \in Clients, ConsumeSrem(c) \/ RevokeSrem(c)
    PROVE  ChangeInv'
  <1> DEFINE o == req[c].old
  <1>0. /\ req \in [Clients -> Request] /\ req[c] \in Request /\ (Consumed(c) \/ Revoking(c))
        /\ UNCHANGED <<password, token, issued, origin, logout>>
    BY DEF Inv, TypeOK, ConsumeSrem, RevokeSrem, history, Consumed, Revoking, At
  <1>1. PICK q \in {Idle, [req[c] EXCEPT !.pc = "user"], [req[c] EXCEPT !.pc = "del"]} :
           /\ Goto(c, q) /\ members' \in {members, members \ {o}}
           /\ q.pc = "user" => Consumed(c)
           /\ q.pc = "del" => Revoking(c)
    <2>1. Idle.pc = "idle" /\ [req[c] EXCEPT !.pc = "user"].pc = "user"
          /\ [req[c] EXCEPT !.pc = "del"].pc = "del"
      BY <1>0 DEF Idle, Request
    <2>2. CASE ConsumeSrem(c)
      BY <2>1, <2>2 DEF ConsumeSrem, Call, Consumed, At
    <2>3. CASE RevokeSrem(c)
      BY <2>1, <2>3 DEF RevokeSrem, Call, Revoking, At
    <2> QED
      BY <2>2, <2>3
  <1>2. /\ req'[c] = q /\ \A d \in Clients : d # c => req'[d] = req[d]
        /\ q.pc \in {"idle", "user", "del"} /\ (q.pc # "idle" => q.old = o)
    BY <1>0, <1>1 DEF Goto, Idle, Request
  <1>3. o \in issued /\ (o \in token => logout[o] # "no")
    BY <1>0, HeldJtis DEF ChangeInv, RevokingAsked
  <1>4. \A j \in Tokens : Live(j)' => Live(j) /\ j # o
    BY <1>0, <1>3 DEF Live, Clean, OverlapStep
  <1>5. \A d \in Clients : At(d, "expire") => req[d].new # o
    BY <1>3, HeldJtis DEF Storing, At
  <1>6. q.pc = "user" => q.old \in Tokens /\ (CleanNext(q.old) => origin[q.old].era = password)
    <2>1. CleanNext(o) => Clean(o)
      BY <1>0 DEF CleanNext, Clean, OverlapStep
    <2> QED
      BY <1>1, <1>2, <2>1, HeldJtis DEF ChangeInv, ErasCurrent
  <1>7. q.pc = "del" => logout'[q.old] # "no"
    BY <1>0, <1>1, <1>2 DEF ChangeInv, RevokingAsked
  <1> QED
    BY <1>0, <1>1, <1>2, <1>4, <1>5, <1>6, <1>7, ChangeKept

LEMMA ChangeLogsOut ==
    ASSUME Inv, ChangeInv, OverlapStep, NEW c \in Clients,
           RevokeDel(c) \/ \E j \in Tokens : RevokeGet(c, j)
    PROVE  ChangeInv'
  <1>0. req \in [Clients -> Request] /\ logout \in [Tokens -> {"no", "asked", "done"}]
    BY DEF Inv, TypeOK
  <1>1. CASE RevokeDel(c)
    <2>1. /\ Goto(c, Idle) /\ token' \subseteq token
          /\ UNCHANGED <<password, members, issued, origin>>
          /\ logout' \in {logout, [logout EXCEPT ![req[c].old] = "done"]}
          /\ req[c].old \in Tokens
      BY <1>1, HeldJtis DEF RevokeDel, Revoking, At
    <2>2. \A j \in Tokens : logout'[j] = "no" => logout[j] = "no"
      BY <1>0, <2>1
    <2>3. \A j \in Tokens : Live(j)' => Live(j)
      BY <2>1, <2>2 DEF Live, Clean, OverlapStep
    <2>4. req'[c] = Idle /\ (\A d \in Clients : d # c => req'[d] = req[d]) /\ Idle.pc = "idle"
      BY <1>0, <2>1 DEF Goto, Idle
    <2> HIDE DEF Idle
    <2> QED
      BY <2>1, <2>2, <2>3, <2>4, ChangeKept
  <1>2. ASSUME NEW j \in Tokens, RevokeGet(c, j) PROVE ChangeInv'
    <2>1. PICK q \in {[Idle EXCEPT !.pc = "srem", !.old = j], [Idle EXCEPT !.pc = "del", !.old = j]} :
             Goto(c, q)
      BY <1>2 DEF RevokeGet
    <2>2. q.pc \in {"srem", "del"} /\ q.old = j
      BY <2>1 DEF Idle
    <2>3. /\ UNCHANGED <<password, token, members, issued, origin>>
          /\ logout' = [logout EXCEPT ![j] = IF @ = "done" THEN @ ELSE "asked"]
      BY <1>2 DEF RevokeGet, store
    <2>4. logout'[j] # "no" /\ \A k \in Tokens : logout'[k] = "no" => logout[k] = "no"
      BY <1>0, <2>3
    <2>5. \A k \in Tokens : Live(k)' => Live(k)
      BY <2>3, <2>4 DEF Live, Clean, OverlapStep
    <2>6. req'[c] = q /\ \A d \in Clients : d # c => req'[d] = req[d]
      BY <1>0, <2>1 DEF Goto
    <2> QED
      BY <2>2, <2>3, <2>4, <2>5, <2>6, ChangeKept
  <1> QED
    BY <1>1, <1>2

\* The steps of a change of password up to the write of the new hash.
LEMMA ChangeRevokes ==
    ASSUME Inv, ChangeInv, OverlapStep, NEW c \in Clients,
           ChangePassword(c) \/ RevokeUserRead(c) \/ RevokeUserDel(c) \/ RevokeUserDone(c)
    PROVE  ChangeInv'
  <1>0. /\ req \in [Clients -> Request] /\ req[c] \in Request /\ token' \subseteq token
        /\ UNCHANGED <<password, issued, origin, logout>>
    BY DEF Inv, TypeOK, ChangePassword, RevokeUserRead, RevokeUserDel, RevokeUserDone, store, history
  <1>1. \A j \in Tokens : Live(j)' => Live(j)
    BY <1>0 DEF Live, Clean, OverlapStep
  <1>2. CASE ChangePassword(c)
    <2> DEFINE q == [Idle EXCEPT !.pc = "smembers"]
    <2>1. q.pc = "smembers" /\ members' = members
      BY <1>2 DEF ChangePassword, store, Idle
    <2>2. req'[c] = q /\ \A d \in Clients : d # c => req'[d] = req[d]
      BY <1>0, <1>2 DEF ChangePassword, Goto
    <2> HIDE DEF q
    <2> QED
      BY <1>0, <1>1, <2>1, <2>2, ChangeKept
  <1>3. CASE RevokeUserRead(c)
    <2> DEFINE q == [Idle EXCEPT !.pc = "victims", !.victims = members]
    <2>1. q.pc = "victims" /\ q.victims = members /\ members' = members
      BY <1>3 DEF RevokeUserRead, store, Idle
    <2>2. \A j \in Tokens : Live(j)' => j \in q.victims
      BY <1>1, <2>1 DEF ChangeInv, ErasCurrent
    <2> HIDE DEF q
    <2>3. CASE Goto(c, q)
      <3>1. req'[c] = q /\ \A d \in Clients : d # c => req'[d] = req[d]
        BY <1>0, <2>3 DEF Goto
      <3> QED
        BY <1>0, <1>1, <2>1, <2>2, <3>1, ChangeKept
    <2>4. CASE Goto(c, Idle)
      BY <1>0, <2>1, <2>4, ChangeGivesUp
    <2> QED
      BY <1>3, <2>3, <2>4 DEF RevokeUserRead, q
  <1>4. CASE RevokeUserDel(c)
    <2>1. members' = members /\ At(c, "victims")
      BY <1>4 DEF RevokeUserDel
    <2>2. ASSUME NEW j \in req[c].victims, token' = token \ {j},
                 Goto(c, [req[c] EXCEPT !.victims = @ \ {j}])
          PROVE  ChangeInv'
      <3> DEFINE q == [req[c] EXCEPT !.victims = @ \ {j}]
      <3>1. q.pc = "victims" /\ q.victims = req[c].victims \ {j}
        BY <1>0, <2>1 DEF Request, At
      <3>2. \A k \in Tokens : Live(k)' => k \in q.victims
        <4>1. \A k \in Tokens : Live(k)' => k \in req[c].victims /\ k # j
          BY <1>1, <2>1, <2>2 DEF ChangeInv, VictimsComplete, Live
        <4> QED
          BY <3>1, <4>1
      <3>3. req'[c] = q /\ \A d \in Clients : d # c => req'[d] = req[d]
        BY <1>0, <2>2 DEF Goto
      <3> HIDE DEF q
      <3> QED
        BY <1>0, <1>1, <2>1, <3>1, <3>2, <3>3, ChangeKept
    <2>3. CASE Goto(c, Idle)
      BY <1>0, <2>1, <2>3, ChangeGivesUp
    <2> QED
      BY <1>4, <2>2, <2>3 DEF RevokeUserDel
  <1>5. CASE RevokeUserDone(c)
    <2>1. At(c, "victims") /\ req[c].victims = {}
      BY <1>5 DEF RevokeUserDone
    <2>2. \A j \in Tokens : ~Live(j)'
      BY <1>1, <2>1 DEF ChangeInv, VictimsComplete
    <2>3. \A d \in Clients : At(d, "expire") => ~CleanNext(req[d].new)
      <3>1. \A d \in Clients : At(d, "expire") => req[d].new \in overlapped
        BY <2>1, HeldJtis DEF ChangeInv, HeldOverlap, At, Storing
      <3> QED
        BY <3>1 DEF CleanNext, OverlapStep
    <2>4. PICK q \in {Idle, [req[c] EXCEPT !.pc = "update"]} : Goto(c, q)
      BY <1>5 DEF RevokeUserDone, Call
    <2>5. /\ req'[c] = q /\ \A d \in Clients : d # c => req'[d] = req[d]
          /\ q.pc \in {"idle", "update"}
      BY <1>0, <2>4 DEF Goto, Idle, Request
    <2> QED
      BY <1>0, <2>2, <2>3, <2>5, ChangeKept
  <1> QED
    BY <1>2, <1>3, <1>4, <1>5

\* The new hash is written: nothing that was not held works any more, and
\* nothing that is held counts.
LEMMA ChangeUpdates ==
    ASSUME Inv, ChangeInv, OverlapStep, NEW c \in Clients, UpdatePassword(c)
    PROVE  ChangeInv'
  <1>0. /\ req \in [Clients -> Request] /\ At(c, "update") /\ Goto(c, Idle)
        /\ UNCHANGED <<token, members, issued, origin, logout>>
    BY DEF Inv, TypeOK, UpdatePassword, Call, store, history
  <1>1. req'[c] = Idle /\ (\A d \in Clients : d # c => req'[d] = req[d]) /\ Idle.pc = "idle"
    BY <1>0 DEF Goto, Idle
  <1>2. \A j \in Tokens : ~Live(j)'
    BY <1>0 DEF ChangeInv, VictimsComplete, Live, Clean, OverlapStep
  <1>3. \A d \in Clients : /\ Storing(d)' => req'[d].new \in overlapped'
                           /\ Consumed(d)' => req'[d].old \in overlapped'
    <2>1. \A d \in Clients : /\ Storing(d) => req[d].new \in overlapped
                             /\ Consumed(d) => req[d].old \in overlapped
      BY <1>0, HeldJtis DEF ChangeInv, HeldOverlap, At
    <2>2. \A d \in Clients : Storing(d)' \/ Consumed(d)' => req'[d] = req[d]
      BY <1>1 DEF Storing, Consumed
    <2> QED
      BY <2>1, <2>2 DEF Storing, Consumed, OverlapStep
  <1>4. ErasCurrent' /\ VictimsComplete'
    BY <1>2, <1>3 DEF ErasCurrent, VictimsComplete, Clean
  <1>5. RevokingAsked'
    BY <1>0, <1>1 DEF ChangeInv, RevokingAsked, Revoking
  <1> QED
    BY <1>4, <1>5 DEF ChangeInv, OverlapStep

LEMMA ChangeNext == Inv /\ ChangeInv /\ [HNext]_hvars => ChangeInv'
  <1> SUFFICES ASSUME Inv, ChangeInv, [HNext]_hvars PROVE ChangeInv'
    OBVIOUS
  <1>0. OverlapStep /\ [Next]_vars
    BY Overlaps DEF Inv, ChangeInv, HNext, hvars
  <1>1. ASSUME NEW c \in Clients, FindUser(c) PROVE ChangeInv'
    <2>1. CASE Issue(c, origin[req[c].old].era)
      BY <1>0, <1>1, <2>1, ChangeIssues DEF FindUser, store
    <2>2. CASE Goto(c, Idle) /\ UNCHANGED <<nextJti, origin, logout>>
      BY <1>0, <1>1, <2>2, ChangeGivesUp DEF FindUser, store
    <2> QED
      BY <1>1, <2>1, <2>2 DEF FindUser
  <1>2. ASSUME NEW c \in Clients, Login(c) PROVE ChangeInv'
    BY <1>0, <1>2, ChangeIssues DEF Login
  <1>3. ASSUME UNCHANGED <<password, members, req, issued, origin, logout>>, token' \subseteq token
        PROVE  ChangeInv'
    <2>1. \A k : (Clean(k)' => Clean(k)) /\ (Live(k)' => Live(k))
      BY <1>0, <1>3 DEF Live, Clean, OverlapStep
    <2>2. RevokingAsked' /\ ErasCurrent' /\ VictimsComplete'
      BY <1>3, <2>1 DEF ChangeInv, RevokingAsked, ErasCurrent, VictimsComplete,
                        Revoking, Storing, Consumed, At, Clean
    <2> QED
      BY <1>0, <2>2 DEF ChangeInv, OverlapStep
  <1>4. ASSUME NEW j \in Tokens, TokenExpires(j) PROVE ChangeInv'
    BY <1>3, <1>4 DEF TokenExpires, history
  <1>5. CASE UNCHANGED vars
    BY <1>3, <1>5 DEF vars
  <1> QED
    BY <1>0, <1>1, <1>2, <1>4, <1>5, ChangeStores, ChangeAnswers, ChangeConsumes, ChangeSrems,
       ChangeLogsOut, ChangeRevokes, ChangeUpdates DEF Next, Step

\* A change of password ends the sessions of the old one: what still works was
\* obtained with the current password, but for what was in flight during a
\* change and what is rotated from it, and half-done logouts
\* (AuthService::changePassword over RedisRefreshTokenStore::revokeUser).
THEOREM ChangeEndsOldSessions == HSpec => []ChangeEndsSessions
  <1>1. HInit => Inv /\ ChangeInv
    <2> SUFFICES ASSUME HInit PROVE Inv /\ ChangeInv
      OBVIOUS
    <2>1. Init /\ \A c \in Clients : req[c] = Idle /\ Idle.pc = "idle"
      BY DEF HInit, Init, Idle
    <2>2. ChangeInv
      BY <2>1 DEF Init, ChangeInv, HeldOverlap, RevokingAsked, ErasCurrent, VictimsComplete,
                  Revoking, Storing, Consumed, At, Live
    <2> QED
      BY <2>1, <2>2, InitInv
  <1>2. Inv /\ ChangeInv /\ [HNext]_hvars => (Inv /\ ChangeInv)'
    <2>1. [HNext]_hvars => [Next]_vars
      BY DEF HNext, hvars
    <2> QED
      BY <2>1, StepInv, ChangeNext
  <1>3. Inv /\ ChangeInv => ChangeEndsSessions
    BY IssuedTokens DEF Inv, ChangeInv, ErasCurrent, Live, Clean, ChangeEndsSessions
  <1> QED
    BY <1>1, <1>2, <1>3, PTL DEF HSpec
=============================================================================
