--------------------------- MODULE MCAuthSessions ---------------------------
(***************************************************************************)
(* Instances of AuthSessions for TLC; requests are interchangeable.        *)
(***************************************************************************)
EXTENDS AuthSessionsHistory, TLC

Symmetry == Permutations(Clients)
=============================================================================
