---------------------------- MODULE MCTaskEngine ----------------------------
(***************************************************************************)
(* Instances of TaskEngine for TLC: the threads are model values, and a    *)
(* deployment is a placement of threads on replicas and the worker ids     *)
(* their prefixes give them.                                               *)
(***************************************************************************)
EXTENDS TaskEngine, TLC

CONSTANTS w1, w2, c1, c2, r1, r2

\* One replica runs everything; every thread has an id of its own.
OneReplica == [x \in Workers \cup Clients |-> r1]
OwnIds == [w \in Workers |-> w]

\* Two replicas with a worker each; requests reach the first, or one each.
TwoReplicas == [x \in Workers \cup Clients |-> IF x \in {w2, c2} THEN r2 ELSE r1]

\* The outcome of the startup ping: always there, or not.
AllRedis == [r \in Replicas |-> {TRUE}]
EitherRedis == [r \in Replicas |-> BOOLEAN]

\* docker-compose.prod.yml starts two replicas with one worker_prefix: the
\* first worker of each is "backend-worker-1".
SharedIds == [w \in Workers |-> "backend-worker-1"]

\* What a request to create a task may say: nothing of its columns; that the
\* task was retried past its limit, is held by a worker with a lease that is
\* over and has its image; or counts below 0.
Plain == [retry |-> 0, max |-> 1, worker |-> NoWorker, lease |-> "none", stored |-> FALSE]
PlainBodies == {Plain}
Late == {[retry |-> 2, max |-> 0, worker |-> w, lease |-> "expired", stored |-> TRUE] :
            w \in Workers}
LateBodies == PlainBodies \cup Late
Below == [Plain EXCEPT !.retry = -1, !.max = -1]
AnyBodies == LateBodies \cup {Below}

Symmetry == Permutations(Workers)
=============================================================================
