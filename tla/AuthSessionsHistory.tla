------------------------ MODULE AuthSessionsHistory -------------------------
(***************************************************************************)
(* AuthSessions with one more history variable: which refresh tokens were  *)
(* in the hands of a request while a password was being changed.           *)
(***************************************************************************)
EXTENDS AuthSessions

VARIABLE overlapped   \* history: those jtis, and the ones rotated from them

hvars == <<vars, overlapped>>

Changing == \E c \in Clients : req[c].pc \in {"smembers", "victims", "update"}
Handled == UNION {{req[c].old, req[c].new} : c \in Clients}

\* The jti issued by this step, if it succeeds one that overlapped a change.
Inherited == {j \in Tokens : nextJti <= j /\ j < nextJti' /\ origin'[j].parent \in overlapped}

HInit == Init /\ overlapped = {}

HNext == /\ Next
         /\ overlapped' = overlapped \cup Inherited
                             \cup IF Changing' THEN Handled' \ {0} ELSE {}

HSpec == HInit /\ [][HNext]_hvars

-----------------------------------------------------------------------------
\* A change of password ends the sessions of the old one (README.md:108): a
\* refresh token that still works was obtained with the password that is valid
\* now.  Two kinds are spared: those that were being issued or rotated while a
\* password was changed, which the change cannot see and may even drop from
\* the set of the account (and what they are rotated to), and those of a
\* logout that failed half-way.
ChangeEndsSessions ==
    \A j \in (issued \cap token) \ overlapped : logout[j] = "no" => origin[j].era = password
=============================================================================
