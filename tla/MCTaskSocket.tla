---------------------------- MODULE MCTaskSocket -----------------------------
(***************************************************************************)
(* Two users one after the other in a tab with two views, two Backend      *)
(* processes and an update of one of their tasks.  Two connections are     *)
(* enough for one to be opened while the end of the other is under way.    *)
(***************************************************************************)
EXTENDS TaskSocket

CONSTANTS u1, u2, r1, r2, v1, v2, e1, s1, s2
=============================================================================
