--------------------------- MODULE MCImageCreate ----------------------------
(***************************************************************************)
(* An instance of ImageCreate for TLC: two requests at a time, of a user   *)
(* or an administrator, that reach two replicas whose clocks differ and    *)
(* which handle an outage of the limiter differently.                      *)
(***************************************************************************)
EXTENDS ImageCreate

CONSTANTS u1, c2, r1, r2

OneIsUser == {f \in [Clients -> Users] : \A c \in Clients \ {c2} : f[c] = u1}
Homes == [c \in Clients |-> IF c = c2 THEN r2 ELSE r1]
Clocks == [r \in Replicas |-> IF r = r2 THEN 1 ELSE 0]
OpenAtOne == [r \in Replicas |-> r = r1]
=============================================================================
