---------------------------- MODULE AuthSessions ----------------------------
(***************************************************************************)
(* The sessions of one account: login, refresh, logout and change of       *)
(* password (auth_service.cpp) over the refresh tokens in Redis            *)
(* (refresh_token_store.cpp).  A token lives in two places, the key        *)
(* zimage:refresh:<jti> and the member <jti> of zimage:refresh:user:<id>,  *)
(* and every request changes them call by call, with other requests in     *)
(* between.  Accounts share no key, so one is enough; a request that is    *)
(* refused changes nothing and is not a step.                              *)
(***************************************************************************)
EXTENDS Integers, FiniteSets

CONSTANTS Clients,        \* requests that can be in flight at once
          MaxTokens,      \* bound: jtis ever generated
          MaxPasswords,   \* bound: changes of password begun
          MaxFaults       \* bound: failed calls

ASSUME BoundsAssumption == /\ MaxTokens \in Nat
                           /\ MaxPasswords \in Nat
                           /\ MaxFaults \in Nat

Tokens == 1..MaxTokens    \* generateJti never repeats

VARIABLES
    password,  \* which password the users row holds: 0, 1, ...
    token,     \* the jtis whose own key exists
    members,   \* the jtis in the set of the account
    nextJti,   \* the next jti to be generated
    req,       \* what every request is doing
    faults,    \* failed calls so far
    issued,    \* history: jtis that were answered to a client
    origin,    \* history: [parent, era] of a jti: the jti it was rotated
               \* from (0: a login) and the password that was checked for it
    logout     \* history: "no", "asked" or "done" for every jti; what was
               \* asked of a jti was asked of those it is rotated to

store == <<token, members>>
history == <<issued, origin, logout>>
vars == <<password, token, members, nextJti, req, faults, issued, origin, logout>>

Request == [pc : {"idle", "setex", "sadd", "expire", "consumed", "user",
                  "srem", "del", "smembers", "victims", "update"},
            old : Tokens \cup {0},    \* the jti the client presented
            new : Tokens \cup {0},    \* the jti to be issued
            victims : SUBSET Tokens]  \* what smembers returned
Idle == [pc |-> "idle", old |-> 0, new |-> 0, victims |-> {}]

\* Types, and that a jti is known to a client only when it has been generated.
TypeOK ==
    /\ password \in Nat
    /\ token \subseteq Tokens /\ members \subseteq Tokens
    /\ nextJti \in 1..(MaxTokens + 1)
    /\ req \in [Clients -> Request]
    /\ faults \in 0..MaxFaults
    /\ issued \subseteq 1..(nextJti - 1)
    /\ origin \in [Tokens -> [parent : Tokens \cup {0}, era : Nat]]
    /\ logout \in [Tokens -> {"no", "asked", "done"}]

Init ==
    /\ password = 0
    /\ token = {} /\ members = {} /\ nextJti = 1
    /\ req = [c \in Clients |-> Idle]
    /\ faults = 0
    /\ issued = {}
    /\ origin = [j \in Tokens |-> [parent |-> 0, era |-> 0]]
    /\ logout = [j \in Tokens |-> "no"]

-----------------------------------------------------------------------------
Goto(c, q) == req' = [req EXCEPT ![c] = q]
At(c, pc) == req[c].pc = pc

\* One call to Redis: it changes x from old to new and the request goes on at
\* pc, or it fails, done or not, and the request is answered with an error.
Call(c, old, new, x, pc) ==
    \/ /\ x = new /\ UNCHANGED faults
       /\ Goto(c, IF pc = "idle" THEN Idle ELSE [req[c] EXCEPT !.pc = pc])
    \/ x \in {old, new} /\ Goto(c, Idle) /\ faults < MaxFaults /\ faults' = faults + 1

\* Refreshes that have consumed their token and still need a jti.
Rotating == {c \in Clients : req[c].pc \in {"consumed", "user"}}

\* Bound: a request that will need a jti begins only if one is left for it.
JtiLeft == nextJti + Cardinality(Rotating) <= MaxTokens

\* Mutant of Issue: the jti is not a fresh one.
IssueAgain(c, era) ==
    /\ nextJti \in Tokens
    /\ origin' = [origin EXCEPT ![nextJti] = [parent |-> req[c].old, era |-> era]]
    /\ Goto(c, [req[c] EXCEPT !.pc = "setex", !.new = nextJti])
    /\ UNCHANGED <<nextJti, logout>>

\* issueTokenPair, with generateJti: store comes next.
Issue(c, era) ==
    /\ nextJti \in Tokens
    /\ nextJti' = nextJti + 1
    /\ origin' = [origin EXCEPT ![nextJti] = [parent |-> req[c].old, era |-> era]]
    /\ logout' = [logout EXCEPT ![nextJti] =
                     IF req[c].old # 0 /\ logout[req[c].old] # "no" THEN "asked" ELSE "no"]
    /\ Goto(c, [req[c] EXCEPT !.pc = "setex", !.new = nextJti])

Login(c) ==
    /\ At(c, "idle") /\ JtiLeft
    /\ Issue(c, password)
    /\ UNCHANGED <<password, token, members, faults, issued>>

\* RedisRefreshTokenStore::store
StoreSetex(c) ==
    /\ At(c, "setex")
    /\ Call(c, token, token \cup {req[c].new}, token', "sadd")
    /\ UNCHANGED <<password, members, nextJti, history>>

\* Mutant of StoreSadd: the set of the account is not kept.
StoreKeyOnly(c) ==
    /\ At(c, "sadd")
    /\ Goto(c, [req[c] EXCEPT !.pc = "expire"])
    /\ UNCHANGED <<password, store, nextJti, faults, history>>

StoreSadd(c) ==
    /\ At(c, "sadd")
    /\ Call(c, members, members \cup {req[c].new}, members', "expire")
    /\ UNCHANGED <<password, token, nextJti, history>>

\* The last call renews the TTL of the set; then the pair is answered.
StoreExpire(c) ==
    /\ At(c, "expire")
    /\ \/ issued' = issued \cup {req[c].new} /\ UNCHANGED faults
       \/ UNCHANGED issued /\ faults < MaxFaults /\ faults' = faults + 1
    /\ Goto(c, Idle)
    /\ UNCHANGED <<password, store, nextJti, origin, logout>>

\* Mutant of Consume: GET and DEL are two calls, with another GET in between.
ConsumeGetThenDel(c, j) ==
    /\ At(c, "idle") /\ JtiLeft /\ j \in issued
    /\ j \in token \/ \E d \in Clients : At(d, "consumed") /\ req[d].old = j
    /\ token' = token \ {j}
    /\ Goto(c, [Idle EXCEPT !.pc = "consumed", !.old = j])
    /\ UNCHANGED <<password, members, nextJti, faults, history>>

\* refresh: RedisRefreshTokenStore::consume, first GETDEL ...
Consume(c, j) ==
    /\ At(c, "idle") /\ JtiLeft /\ j \in issued \cap token
    /\ \/ /\ token' = token \ {j} /\ UNCHANGED faults
          /\ Goto(c, [Idle EXCEPT !.pc = "consumed", !.old = j])
       \/ /\ token' \in {token, token \ {j}} /\ UNCHANGED req
          /\ faults < MaxFaults /\ faults' = faults + 1
    /\ UNCHANGED <<password, members, nextJti, history>>

\* ... then SREM.
ConsumeSrem(c) ==
    /\ At(c, "consumed")
    /\ Call(c, members, members \ {req[c].old}, members', "user")
    /\ UNCHANGED <<password, token, nextJti, history>>

\* The user row is read and the next pair is issued, without a password.
FindUser(c) ==
    /\ At(c, "user")
    /\ \/ Issue(c, origin[req[c].old].era) /\ UNCHANGED faults
       \/ /\ Goto(c, Idle) /\ faults < MaxFaults /\ faults' = faults + 1
          /\ UNCHANGED <<nextJti, origin, logout>>
    /\ UNCHANGED <<password, store, issued>>

\* logout: RedisRefreshTokenStore::revoke.
RevokeGet(c, j) ==
    /\ At(c, "idle") /\ j \in issued
    /\ Goto(c, [Idle EXCEPT !.pc = IF j \in token THEN "srem" ELSE "del", !.old = j])
    /\ logout' = [logout EXCEPT ![j] = IF @ = "done" THEN @ ELSE "asked"]
    /\ UNCHANGED <<password, store, nextJti, faults, issued, origin>>

RevokeSrem(c) ==
    /\ At(c, "srem")
    /\ Call(c, members, members \ {req[c].old}, members', "del")
    /\ UNCHANGED <<password, token, nextJti, history>>

\* Mutant of RevokeDel: only the set is cleaned.
RevokeSetOnly(c) ==
    /\ At(c, "del")
    /\ Goto(c, Idle)
    /\ logout' = [logout EXCEPT ![req[c].old] = "done"]
    /\ UNCHANGED <<password, store, nextJti, faults, issued, origin>>

RevokeDel(c) ==
    /\ At(c, "del")
    /\ \/ /\ token' = token \ {req[c].old}
          /\ logout' = [logout EXCEPT ![req[c].old] = "done"]
          /\ UNCHANGED faults
       \/ /\ token' \in {token, token \ {req[c].old}}
          /\ faults < MaxFaults /\ faults' = faults + 1
          /\ UNCHANGED logout
    /\ Goto(c, Idle)
    /\ UNCHANGED <<password, members, nextJti, issued, origin>>

\* changePassword: the old password is checked, then revokeUser runs ...
ChangePassword(c) ==
    /\ At(c, "idle") /\ password < MaxPasswords
    /\ Goto(c, [Idle EXCEPT !.pc = "smembers"])
    /\ UNCHANGED <<password, store, nextJti, faults, history>>

RevokeUserRead(c) ==
    /\ At(c, "smembers")
    /\ \/ Goto(c, [Idle EXCEPT !.pc = "victims", !.victims = members]) /\ UNCHANGED faults
       \/ Goto(c, Idle) /\ faults < MaxFaults /\ faults' = faults + 1
    /\ UNCHANGED <<password, store, nextJti, history>>

RevokeUserDel(c) ==
    /\ At(c, "victims")
    /\ \E j \in req[c].victims :
          \/ /\ token' = token \ {j}
             /\ Goto(c, [req[c] EXCEPT !.victims = @ \ {j}])
             /\ UNCHANGED faults
          \/ /\ token' \in {token, token \ {j}}
             /\ Goto(c, Idle) /\ faults < MaxFaults /\ faults' = faults + 1
    /\ UNCHANGED <<password, members, nextJti, history>>

RevokeUserDone(c) ==
    /\ At(c, "victims") /\ req[c].victims = {}
    /\ Call(c, members, {}, members', "update")
    /\ UNCHANGED <<password, token, nextJti, history>>

\* ... and only then the new hash is written.
UpdatePassword(c) ==
    /\ At(c, "update")
    /\ Call(c, password, password + 1, password', "idle")
    /\ UNCHANGED <<store, nextJti, history>>

\* The TTL of a token runs out.
TokenExpires(j) ==
    /\ j \in token
    /\ token' = token \ {j}
    /\ UNCHANGED <<password, members, nextJti, req, faults, history>>

-----------------------------------------------------------------------------
Step(c) ==
    \/ Login(c) \/ StoreSetex(c) \/ StoreSadd(c) \/ StoreExpire(c)
    \/ ConsumeSrem(c) \/ FindUser(c) \/ RevokeSrem(c) \/ RevokeDel(c)
    \/ ChangePassword(c) \/ RevokeUserRead(c) \/ RevokeUserDel(c)
    \/ RevokeUserDone(c) \/ UpdatePassword(c)
    \/ \E j \in Tokens : Consume(c, j) \/ RevokeGet(c, j)

Next == (\E c \in Clients : Step(c)) \/ (\E j \in Tokens : TokenExpires(j))

Spec == Init /\ [][Next]_vars

-----------------------------------------------------------------------------
\* Rotation is single use: however many requests present a refresh token at
\* once, at most one of them is answered with a successor of it.
OneSuccessor ==
    \A j, k \in issued :
        origin[j].parent = origin[k].parent /\ origin[j].parent # 0 => j = k

\* A token whose logout was answered with success never works again, whatever
\* refresh or change of password ran at the same time.
LogoutIsFinal == \A j \in Tokens : logout[j] = "done" => j \notin token
=============================================================================
