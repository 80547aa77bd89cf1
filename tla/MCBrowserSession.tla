-------------------------- MODULE MCBrowserSession ---------------------------
(***************************************************************************)
(* Two requests of one tab, which log in, refresh and log in again.        *)
(***************************************************************************)
EXTENDS BrowserSession, TLC

CONSTANTS b1, q1, q2

OneTab == [q \in {q1, q2} |-> b1]

\* One answer to a login is on its way at a time.
Bounded == \A b \in Tabs : Cardinality(logins[b]) <= 1
=============================================================================
