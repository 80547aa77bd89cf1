-------------------------- MODULE ModelHealthGate ---------------------------
(***************************************************************************)
(* The decision a worker takes on the ModelService health report before it *)
(* generates (Backend/src/services/model_health_gate.cpp).  The attempt    *)
(* budget kMaxModelHealthAttempts is 10 in the code and a parameter here.  *)
(***************************************************************************)
EXTENDS Integers

CONSTANT HealthAttempts   \* kMaxModelHealthAttempts

ASSUME HealthAttemptsAssumption == HealthAttempts \in Nat \ {0}

\* checkHealth() yields one of these; active is active_generations, capacity
\* is max_concurrent_generations with 0 for "not reported", and kind is FALSE
\* when active_kind is empty or "none".
HealthReport == [status : {"healthy", "loading", "busy", "unhealthy"},
                 kind : BOOLEAN, active : Nat, capacity : Nat]

\* Mutant of hasExceededAttemptBudget: one attempt too many.
ExceededOneLate(retryCount) == retryCount >= HealthAttempts

hasExceededAttemptBudget(retryCount) == retryCount >= HealthAttempts - 1

busyGenerationConflicts(h) ==
    h.kind /\ (h.capacity > 0 => h.active >= h.capacity)

deferOrFail(retryCount) ==
    IF hasExceededAttemptBudget(retryCount) THEN "Fail" ELSE "Defer"

decideForGenerate(h, retryCount) ==
    IF \/ h.status = "healthy"
       \/ h.status = "busy" /\ ~busyGenerationConflicts(h)
    THEN "Proceed"
    ELSE deferOrFail(retryCount)
=============================================================================
