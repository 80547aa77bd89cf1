-------------------------- MODULE MCImageGenerator ---------------------------
EXTENDS ImageGenerator

\* Every property excuses what comes after an answer has crossed.  Two cancel
\* requests are on their way together only before the last of the tokens.
Bounded ==
    /\ ~crossed
    /\ token = MaxToken => Cardinality({k \in Cancels : cancels[k].pc # "off"}) <= 1
=============================================================================
