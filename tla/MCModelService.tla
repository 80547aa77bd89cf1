--------------------------- MODULE MCModelService ----------------------------
(***************************************************************************)
(* An instance of ModelService for TLC: three requests, two of them with   *)
(* one request_id, for two slots.                                          *)
(***************************************************************************)
EXTENDS ModelService

CONSTANTS r3, n1, n2

SharedName == [r \in Requests |-> IF r = r3 THEN n2 ELSE n1]
=============================================================================
