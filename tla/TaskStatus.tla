----------------------------- MODULE TaskStatus -----------------------------
(***************************************************************************)
(* The status column of an image task and the predicates the services ask  *)
(* of it (Backend/include/models/task_status.h).  "absent" is not a value  *)
(* of the enum: it stands for a row that is not in the table.              *)
(***************************************************************************)
EXTENDS Integers

Waiting == {"queued", "pending"}
Terminal == {"success", "failed", "cancelled", "timeout"}
Status == Waiting \cup {"generating"} \cup Terminal \cup {"absent"}

isTerminal(s) == s \in Terminal
canCancel(s) == s \in Waiting \cup {"generating"}
canDelete(s) == isTerminal(s)

canRetry(s, retryCount, maxRetries) ==
    retryCount < maxRetries /\ s \in {"failed", "timeout", "cancelled"}
=============================================================================
