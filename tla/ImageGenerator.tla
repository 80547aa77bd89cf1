--------------------------- MODULE ImageGenerator ----------------------------
(***************************************************************************)
(* The view that submits a task and waits for it (ImageGenerator.vue):     *)
(* Generate, Cancel and Reset, the updates pushed by the Backend, the      *)
(* polling of the task's status and the timeout of the wait.  Everything   *)
(* runs on the browser's one thread, but an answer that is awaited comes   *)
(* after any number of other callbacks, and activeTaskToken is what tells  *)
(* an answer from one of a call that has been abandoned.  What follows the *)
(* settling of a promise runs before any other callback and is one step    *)
(* with it.                                                                *)
(***************************************************************************)
EXTENDS TaskStatus, FiniteSets

CONSTANTS MaxCalls,   \* bound: submissions made by handleGenerate
          MaxToken,   \* bound: activeTaskToken
          MaxCancels, \* bound: cancel requests on their way at one time
          Outcomes,   \* how a task may end when it is not cancelled
          None

ASSUME ViewAssumption == /\ Outcomes \subseteq Terminal /\ None \notin Nat
                         /\ MaxCalls \in Nat /\ MaxToken \in Nat /\ MaxCancels \in Nat

VARIABLES
    status,     \* status[t]: the status of the task created by call t
    told,       \* told[t]: the statuses of it that were pushed to the tab
    token,      \* activeTaskToken
    loading, cancelling,
    image,      \* currentImage: the task shown and its status
    waiter,     \* the call whose promise taskResolve and taskReject settle
    timeout,    \* the call taskTimeoutId was set for
    call,       \* every handleGenerate and its polling
    cancels,    \* the calls of handleCancelCurrentTask
    announced,  \* announced[g]: the outcome g has told the user
    crossed     \* history: an answer was applied to a view that had moved on

vars == <<status, told, token, loading, cancelling, image, waiter, timeout, call, cancels,
          announced, crossed>>

view == <<loading, cancelling, image, waiter, timeout, announced>>

Calls == 1..MaxCalls
Cancels == 1..MaxCancels

Image == [task : Calls \cup {None}, status : Status]
NoImage == [task |-> None, status |-> "absent"]

\* poll, read: the status poll and what it has read.
Call == [pc : {"idle", "sent", "accepted", "waiting", "ended"}, token : 0..MaxToken,
         poll : {"off", "timer", "asked", "read"}, read : Status]
Idle == [pc |-> "idle", token |-> 0, poll |-> "off", read |-> "absent"]

\* at: the token when the request was sent.
CancelCall == [pc : {"off", "asked", "cancelled", "refused"}, task : Calls \cup {None},
               at : 0..MaxToken]
NoCancel == [pc |-> "off", task |-> None, at |-> 0]

TypeOK ==
    /\ status \in [Calls -> Status] /\ told \in [Calls -> SUBSET Status]
    /\ token \in 0..MaxToken
    /\ loading \in BOOLEAN /\ cancelling \in BOOLEAN
    /\ image \in Image
    /\ waiter \in Calls \cup {None} /\ timeout \in Calls \cup {None}
    /\ call \in [Calls -> Call] /\ cancels \in [Cancels -> CancelCall]
    /\ announced \in [Calls -> {"nothing", "error"} \cup Terminal]
    /\ crossed \in BOOLEAN

Init ==
    /\ status = [t \in Calls |-> "absent"] /\ told = [t \in Calls |-> {}]
    /\ token = 0 /\ loading = FALSE /\ cancelling = FALSE
    /\ image = NoImage /\ waiter = None /\ timeout = None
    /\ call = [g \in Calls |-> Idle] /\ cancels = [k \in Cancels |-> NoCancel]
    /\ announced = [g \in Calls |-> "nothing"]
    /\ crossed = FALSE

-----------------------------------------------------------------------------
Shown(t) == image.task = t

\* clearTaskPolling: the one timer, not a poll that has been sent.
StopTimer(c) ==
    [g \in Calls |-> IF c[g].poll = "timer" THEN [c[g] EXCEPT !.poll = "off"] ELSE c[g]]
Ended(c, g) == IF g = None THEN c ELSE [c EXCEPT ![g].pc = "ended"]

\* clearTaskWaiter: the call that waits, if any, ends without a word, since
\* its token is not the active one or its own catch has called this.
ClearTaskWaiter(c) ==
    /\ waiter' = None /\ timeout' = None
    /\ call' = Ended(StopTimer(c), waiter)

\* resolveTaskWaiter, and the rest of the handleGenerate it resumes, which
\* looks at the token.  A failed task is announced by the catch, if loading.
Resolve(c, s, stillLoading, stillCancelling) ==
    LET current == waiter # None /\ c[waiter].token = token
        spoken == current /\ (s = "failed" => stillLoading)
    IN /\ IF waiter = None THEN call' = c /\ UNCHANGED <<waiter, timeout>>
                           ELSE ClearTaskWaiter(c)
       /\ loading' = (stillLoading /\ ~current)
       /\ cancelling' = (stillCancelling /\ ~current)
       /\ announced' = IF spoken THEN [announced EXCEPT ![waiter] = s] ELSE announced

\* applyTaskUpdate, and resolveTaskWaiter if the task has ended.
Apply(c, t, s) ==
    /\ image' = [task |-> t, status |-> s]
    /\ IF isTerminal(s) THEN Resolve(c, s, loading, cancelling)
       ELSE call' = c /\ UNCHANGED <<loading, cancelling, waiter, timeout, announced>>

(***************************************************************************)
(* handleGenerate                                                          *)
(***************************************************************************)
\* The button is disabled while loading.  The form is not valid: the token is
\* raised all the same, and handleGenerate is over.
Invalid ==
    /\ ~loading /\ token < MaxToken
    /\ token' = token + 1
    /\ cancelling' = FALSE
    /\ UNCHANGED <<status, told, loading, image, waiter, timeout, call, cancels, announced,
                   crossed>>

Generate(g) ==
    /\ ~loading /\ token < MaxToken
    /\ call[g].pc = "idle" /\ \A h \in Calls : h < g => call[h].pc # "idle"
    /\ token' = token + 1
    /\ loading' = TRUE /\ cancelling' = FALSE /\ image' = NoImage
    /\ ClearTaskWaiter([call EXCEPT ![g].pc = "sent", ![g].token = token + 1])
    /\ UNCHANGED <<status, told, cancels, announced, crossed>>

\* The submission fails, or its answer is lost.
SubmitFails(g) ==
    /\ call[g].pc \in {"sent", "accepted"}
    /\ IF call[g].token # token
       THEN call' = Ended(call, g) /\ UNCHANGED view
       ELSE /\ loading' = FALSE /\ cancelling' = FALSE
            /\ IF loading THEN /\ ClearTaskWaiter(Ended(call, g))
                               /\ announced' = [announced EXCEPT ![g] = "error"]
                          ELSE call' = Ended(call, g) /\ UNCHANGED <<waiter, timeout, announced>>
            /\ UNCHANGED image
    /\ UNCHANGED <<status, told, token, cancels, crossed>>

\* The answer: a queued task.  The token is not looked at: the task is shown,
\* and the waiter, the timeout and the poll timer are this call's from now on.
Submitted(g) ==
    /\ call[g].pc = "accepted"
    /\ image' = [task |-> g, status |-> "queued"]
    /\ waiter' = g /\ timeout' = g
    /\ call' = [StopTimer(call) EXCEPT ![g].pc = "waiting", ![g].poll = "timer"]
    /\ crossed' = (crossed \/ call[g].token # token)
    /\ UNCHANGED <<status, told, token, loading, cancelling, cancels, announced>>

\* The timeout of waitForTaskCompletion rejects the promise.
TimeoutFires(g) ==
    /\ timeout = g
    /\ IF call[g].token # token
       THEN timeout' = None /\ UNCHANGED <<loading, cancelling, image, waiter, call, announced>>
       ELSE /\ ClearTaskWaiter(call)
            /\ loading' = FALSE /\ cancelling' = FALSE
            /\ announced' = IF loading THEN [announced EXCEPT ![g] = "error"] ELSE announced
            /\ UNCHANGED image
    /\ UNCHANGED <<status, told, token, cancels, crossed>>

\* handleReset
Reset ==
    /\ token < MaxToken
    /\ token' = token + 1
    /\ loading' = FALSE /\ cancelling' = FALSE /\ image' = NoImage
    /\ ClearTaskWaiter(call)
    /\ UNCHANGED <<status, told, cancels, announced, crossed>>

(***************************************************************************)
(* The updates: pushed and polled.                                         *)
(***************************************************************************)
\* handleTaskSocketEvent.  An update may come late, after later ones, more
\* than once, or never.
SocketEvent(t, s) ==
    /\ s \in told[t] /\ Shown(t)
    /\ Apply(call, t, s)
    /\ UNCHANGED <<status, told, token, cancels, crossed>>

\* scheduleTaskStatusPoll
PollFires(g) ==
    /\ call[g].poll = "timer"
    /\ call' = [call EXCEPT ![g].poll =
           IF call[g].token = token /\ loading /\ Shown(g) THEN "asked" ELSE "off"]
    /\ UNCHANGED <<status, told, token, view, cancels, crossed>>

Current(g) == call[g].token = token /\ Shown(g)

PollOver(g) == [call EXCEPT ![g].poll = "off", ![g].read = "absent"]

\* The next poll is scheduled, in place of one that may be.
Rescheduled(g) ==
    IF loading /\ Current(g)
    THEN [StopTimer(call) EXCEPT ![g].poll = "timer", ![g].read = "absent"]
    ELSE PollOver(g)

\* Mutant of PollAnswered: an ended task is shown but left to the socket.
PollAnsweredUnresolved(g) ==
    /\ call[g].poll = "read"
    /\ call' = Rescheduled(g)
    /\ IF Current(g) THEN /\ image' = [task |-> g, status |-> call[g].read]
                          /\ UNCHANGED <<loading, cancelling, waiter, timeout, announced>>
                     ELSE UNCHANGED view
    /\ UNCHANGED <<status, told, token, cancels, crossed>>

PollAnswered(g) ==
    /\ call[g].poll = "read"
    /\ IF Current(g)
       THEN Apply(IF isTerminal(call[g].read) THEN PollOver(g) ELSE Rescheduled(g),
                  g, call[g].read)
       ELSE call' = Rescheduled(g) /\ UNCHANGED view
    /\ UNCHANGED <<status, told, token, cancels, crossed>>

\* Mutant of PollFails: a poll that fails is the last one.
PollFailsForGood(g) ==
    /\ call[g].poll = "asked"
    /\ call' = PollOver(g)
    /\ UNCHANGED <<status, told, token, view, cancels, crossed>>

\* The request fails or its answer is lost, which is the same.
PollFails(g) ==
    /\ call[g].poll = "asked"
    /\ call' = Rescheduled(g)
    /\ UNCHANGED <<status, told, token, view, cancels, crossed>>

(***************************************************************************)
(* handleCancelCurrentTask                                                 *)
(***************************************************************************)
\* The button is disabled while cancelling, but the end of a wait resets that:
\* another request may be on its way still.  k is the first place free.
Cancel(k) ==
    /\ image.task # None /\ canCancel(image.status) /\ ~cancelling
    /\ cancels[k].pc = "off" /\ \A j \in Cancels : j < k => cancels[j].pc # "off"
    /\ cancelling' = TRUE
    /\ cancels' = [cancels EXCEPT ![k] = [pc |-> "asked", task |-> image.task, at |-> token]]
    /\ UNCHANGED <<status, told, token, loading, image, waiter, timeout, call, announced, crossed>>

CancelOver(k) == cancels' = [cancels EXCEPT ![k] = NoCancel]

\* Mutant of CancelAnswered: a cancel that was refused is taken for done.
CancelAnsweredUnread(k) ==
    /\ cancels[k].pc \in {"cancelled", "refused"}
    /\ image' = [task |-> cancels[k].task, status |-> "cancelled"]
    /\ Resolve(call, "cancelled", FALSE, FALSE)
    /\ crossed' = (crossed \/ cancels[k].at # token)
    /\ CancelOver(k)
    /\ UNCHANGED <<status, told, token>>

\* The token is not looked at: whoever waits is told that it is cancelled.
CancelAnswered(k) ==
    /\ cancels[k].pc = "cancelled"
    /\ image' = [task |-> cancels[k].task, status |-> "cancelled"]
    /\ Resolve(call, "cancelled", FALSE, FALSE)
    /\ crossed' = (crossed \/ cancels[k].at # token)
    /\ CancelOver(k)
    /\ UNCHANGED <<status, told, token>>

\* Refused, or the answer is lost.
CancelFails(k) ==
    /\ cancels[k].pc # "off"
    /\ cancelling' = FALSE
    /\ CancelOver(k)
    /\ UNCHANGED <<status, told, token, loading, image, waiter, timeout, call, announced, crossed>>

(***************************************************************************)
(* The Backend, as TaskLifecycle has it.  What is pushed need not come, so *)
(* the scanner's changes, which are not pushed, need no case of their own; *)
(* neither does a task that is queued again, which changes nothing here.   *)
(***************************************************************************)
Push(t, s) == told' = [told EXCEPT ![t] = @ \cup {s}]

Accept(g) ==
    /\ call[g].pc = "sent"
    /\ status' = [status EXCEPT ![g] = "queued"] /\ Push(g, "queued")
    /\ call' = [call EXCEPT ![g].pc = "accepted"]
    /\ UNCHANGED <<token, view, cancels, crossed>>

Claim(t) ==
    /\ status[t] = "queued"
    /\ status' = [status EXCEPT ![t] = "generating"] /\ Push(t, "generating")
    /\ UNCHANGED <<token, view, call, cancels, crossed>>

Finish(t, s) ==
    /\ status[t] = "generating"
    /\ status' = [status EXCEPT ![t] = s]
    /\ Push(t, s)
    /\ UNCHANGED <<token, view, call, cancels, crossed>>

PollRead(g) ==
    /\ call[g].poll = "asked"
    /\ call' = [call EXCEPT ![g].poll = "read", ![g].read = status[g]]
    /\ UNCHANGED <<status, told, token, view, cancels, crossed>>

CancelById(k) ==
    /\ cancels[k].pc = "asked"
    /\ LET t == cancels[k].task IN
       IF canCancel(status[t])
       THEN /\ status' = [status EXCEPT ![t] = "cancelled"] /\ Push(t, "cancelled")
            /\ cancels' = [cancels EXCEPT ![k].pc = "cancelled"]
       ELSE cancels' = [cancels EXCEPT ![k].pc = "refused"] /\ UNCHANGED <<status, told>>
    /\ UNCHANGED <<token, view, call, crossed>>

-----------------------------------------------------------------------------
Next ==
    \/ Invalid \/ Reset
    \/ \E g \in Calls : \/ Generate(g) \/ SubmitFails(g) \/ Submitted(g) \/ TimeoutFires(g)
                        \/ PollFires(g) \/ PollAnswered(g) \/ PollFails(g)
                        \/ Accept(g) \/ Claim(g) \/ PollRead(g)
    \/ \E k \in Cancels : Cancel(k) \/ CancelAnswered(k) \/ CancelFails(k) \/ CancelById(k)
    \/ \E t \in Calls, s \in Status : SocketEvent(t, s)
    \/ \E t \in Calls, s \in Outcomes : Finish(t, s)

Spec == Init /\ [][Next]_vars

\* A submission is answered, if only by axios' timeout, and a task settles
\* (TaskEngine!EveryTaskSettles).  Each of these steps is taken once for a
\* call, so fairness to any of them is fairness to all.
Settle(g) == \/ Accept(g) \/ Submitted(g) \/ SubmitFails(g) \/ Claim(g)
             \/ \E s \in Outcomes : Finish(g, s)

\* The poll timer fires, answers are handled, and polls do not fail for ever.
\* Nothing is assumed of the long timeout of the wait.
Fairness ==
    /\ WF_vars(\E g \in Calls : Settle(g))
    /\ WF_vars(\E g \in Calls : PollFires(g) \/ PollAnswered(g))
    /\ SF_vars(\E g \in Calls : PollRead(g))

FairSpec == Spec /\ Fairness

-----------------------------------------------------------------------------
\* What the user is told of a submission is what became of its task, however
\* late, repeated or out of order the updates were, and whatever the user has
\* submitted, reset or cancelled before.  The exception is an answer that
\* comes to a view that has moved on: handleGenerate and
\* handleCancelCurrentTask do not look at the token then
\* (ImageGenerator.vue:530 and :614).
AnnouncedIsReal ==
    \A g \in Calls : announced[g] \in Terminal => crossed \/ announced[g] = status[g]

\* A call that waits is the last one made, its task is shown, the view is
\* loading, and both its timeout and its polling are on, with the same
\* exception: it never depends on the socket alone.
Watched ==
    waiter # None /\ ~crossed =>
        /\ loading /\ Shown(waiter) /\ timeout = waiter
        /\ call[waiter].pc = "waiting" /\ call[waiter].poll # "off"
        /\ call[waiter].token = token

\* A view that is loading comes to an end, by polling alone if no update is
\* pushed and without the timeout, with the same exception: then the view may
\* be loading until the user resets it.
WaitEnds == (loading /\ ~crossed) ~> (~loading \/ crossed)
=============================================================================
