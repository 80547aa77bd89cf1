--------------------------- MODULE TaskLifecycle ----------------------------
(***************************************************************************)
(* What the backend promises about one image task, whatever happens to its *)
(* workers: the states a task moves through, that a retry is always        *)
(* counted and always within the budget the task was created with or that  *)
(* of the health gate, that a finished task moves only when its user       *)
(* retries or deletes it, and that a deleted task is gone.                 *)
(***************************************************************************)
EXTENDS TaskStatus

CONSTANTS Tasks, HealthBudget

VARIABLE life   \* life[t] = [status, retry, max]; "deleted" is for good

New == [status |-> "absent", retry |-> 0, max |-> 0]
Gone == [status |-> "deleted", retry |-> 0, max |-> 0]

Init == life = [t \in Tasks |-> New]

\* Created with any count and any budget, both the client's.
Created(t) == /\ life[t].status = "absent"
              /\ life'[t].status = "queued"
              /\ life'[t].retry \in Int /\ life'[t].max \in Int

\* From one status to another, keeping the count or, for a retry, adding one to
\* it; the budget never changes.
Moves(t, From, To) == /\ life[t].status \in From
                      /\ life'[t].status \in To
                      /\ life'[t].retry = life[t].retry
                      /\ life'[t].max = life[t].max
Again(t, From, limit) == /\ life[t].status \in From
                         /\ life'[t].status = "queued"
                         /\ life'[t].retry = life[t].retry + 1
                         /\ life'[t].max = life[t].max
                         /\ life[t].retry < limit

Step(t) ==
    \/ Created(t)
    \/ Moves(t, {"queued"}, {"generating"})                    \* claimed
    \/ Moves(t, {"generating"}, Terminal)                      \* finished
    \/ Moves(t, {"queued"}, {"cancelled"})                     \* cancelled
    \/ life[t].status \in Terminal /\ life'[t] = Gone          \* deleted
    \/ Again(t, {"generating"}, HealthBudget)                  \* deferred
    \/ Again(t, {"generating", "failed", "timeout", "cancelled"}, life[t].max)

\* One statement of the engine may move several tasks.
Next == \A t \in Tasks : Step(t) \/ life'[t] = life[t]

Spec == Init /\ [][Next]_life
=============================================================================
