------------------------------ MODULE MCStartup ------------------------------
(***************************************************************************)
(* An instance of Startup for TLC.                                         *)
(***************************************************************************)
EXTENDS Startup

CONSTANTS b1, b2, h1, h2

AllByFirst == [h \in Handlers |-> b1]

Says(json, env, file, unsafeCors) ==
    [json |-> json, env |-> env, file |-> file, unsafeCors |-> unsafeCors]

\* A secret from a file over the CHANGE_ME of the example; the same with local
\* origins; a file that cannot be read, and one that was forgotten.
SomeSettings ==
    {Says("CHANGE_ME", Unset, "secret", FALSE), Says("CHANGE_ME", Unset, "secret", TRUE),
     Says("CHANGE_ME", Unset, Unreadable, FALSE), Says("CHANGE_ME", Unset, Unset, FALSE)}

\* The first process finds Redis and the cache or none, the second one no cache.
SomePings == [r \in Backends |->
    IF r = b1 THEN {[redis |-> up, cache |-> up] : up \in BOOLEAN}
              ELSE {[redis |-> TRUE, cache |-> FALSE]}]
=============================================================================
