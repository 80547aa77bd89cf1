---------------------------- MODULE MCImageCache ----------------------------
(***************************************************************************)
(* Instances of ImageCache for TLC.                                        *)
(***************************************************************************)
EXTENDS ImageCache

CONSTANTS p1, p2, r1, r2

TwoReplicas == [p \in Threads |-> IF p = p1 THEN r1 ELSE r2]
=============================================================================
