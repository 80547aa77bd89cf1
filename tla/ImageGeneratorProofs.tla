------------------------ MODULE ImageGeneratorProofs -------------------------
(***************************************************************************)
(* Proofs about ImageGenerator, for any number of submissions and any      *)
(* token.                                                                  *)
(***************************************************************************)
EXTENDS ImageGenerator, TLAPS

\* An outcome that was pushed, read by a poll or answered to a cancel is final,
\* and a task is there only after its submission was accepted.
OutcomesFinal ==
    /\ \A t \in Calls :
          /\ \A s \in told[t] : s \in Terminal => status[t] = s
          /\ call[t].read \in Terminal => status[t] = call[t].read
          /\ call[t].pc \in {"idle", "sent"} => status[t] = "absent"
    /\ \A k \in Cancels :
          /\ cancels[k].pc # "off" => cancels[k].task \in Calls
          /\ cancels[k].pc = "cancelled" => status[cancels[k].task] = "cancelled"

\* A token is given to one call, and never ahead of activeTaskToken.
CallTokens ==
    \A g \in Calls :
        /\ call[g].token <= token
        /\ call[g].pc \in {"sent", "accepted"} => call[g].token # 0
        /\ \A h \in Calls : call[g].token = call[h].token => g = h \/ call[g].token = 0

TokensDiffer == CallTokens /\ \A k \in Cancels : cancels[k].at <= token

Submitting(g) == call[g].pc \in {"sent", "accepted"} /\ call[g].token = token
Cancelling(t) ==
    \E k \in Cancels : cancels[k].pc # "off" /\ cancels[k].task = t /\ cancels[k].at = token

\* While the current call is submitted the view is loading and shows nothing,
\* nothing waits, and no task of the current token is being cancelled.
EmptyWhileSubmitting ==
    ~crossed => \A g \in Calls : Submitting(g) =>
                    loading /\ image.task = None /\ waiter = None /\ \A t \in Calls : ~Cancelling(t)

TimeoutOfWaiter == ~crossed => timeout = waiter

\* What is being cancelled under the current token is what waits.
CancelOfWaiter == ~crossed => \A t \in Calls : Cancelling(t) /\ waiter # None => waiter = t

IInv == /\ TypeOK /\ OutcomesFinal /\ TokensDiffer /\ EmptyWhileSubmitting /\ TimeoutOfWaiter
        /\ CancelOfWaiter /\ Watched /\ AnnouncedIsReal

USE DEF isTerminal

-----------------------------------------------------------------------------
(***************************************************************************)
(* What the helpers make of the calls.                                     *)
(***************************************************************************)
CallMap == [Calls -> Call]
CancelMap == [Cancels -> CancelCall]

\* At most the poll timers are stopped and calls are ended.
Keeps(c, d) ==
    \A g \in Calls : /\ d[g].token = c[g].token /\ d[g].read = c[g].read
                     /\ d[g].pc \in {c[g].pc, "ended"}

\* Two fields of a call are set.
LEMMA PollSet ==
    ASSUME NEW r \in Call, NEW p \in {"off", "timer"}
    PROVE  LET d == [r EXCEPT !.poll = p, !.read = "absent"]
           IN /\ d \in Call /\ d.pc = r.pc /\ d.token = r.token
              /\ d.poll = p /\ d.read = "absent"
<1>1. "absent" \in Status
  BY DEF Status
<1>2. [r EXCEPT !.poll = p, !.read = "absent"] \in Call
  BY <1>1 DEF Call
<1> QED BY <1>2 DEF Call

LEMMA NoneIsNoCall == None \notin Calls
  BY ViewAssumption DEF Calls

LEMMA StopTimerType ==
    ASSUME NEW c \in CallMap
    PROVE  /\ StopTimer(c) \in CallMap
           /\ \A g \in Calls : /\ StopTimer(c)[g].token = c[g].token
                               /\ StopTimer(c)[g].read = c[g].read
                               /\ StopTimer(c)[g].pc = c[g].pc
                               /\ c[g].poll # "timer" => StopTimer(c)[g].poll = c[g].poll
<1>1. ASSUME NEW g \in Calls
      PROVE  LET d == [c[g] EXCEPT !.poll = "off"]
             IN /\ d \in Call /\ d.token = c[g].token /\ d.read = c[g].read
                /\ d.pc = c[g].pc
  BY DEF CallMap, Call
<1>2. \A g \in Calls : c[g] \in Call
  BY DEF CallMap
<1> QED BY <1>1, <1>2 DEF StopTimer, CallMap

LEMMA EndedType ==
    ASSUME NEW c \in CallMap, NEW g \in Calls \cup {None}
    PROVE  /\ Ended(c, g) \in CallMap /\ Keeps(c, Ended(c, g))
           /\ \A h \in Calls \ {g} : Ended(c, g)[h] = c[h]
           /\ g \in Calls => Ended(c, g)[g].pc = "ended"
<1>1. CASE g = None
  BY <1>1, NoneIsNoCall DEF Ended, Keeps
<1>2. CASE g # None
  <2>1. Ended(c, g) = [c EXCEPT ![g].pc = "ended"] /\ g \in Calls
    BY <1>2 DEF Ended
  <2>2. LET d == [c[g] EXCEPT !.pc = "ended"]
        IN /\ d \in Call /\ d.token = c[g].token /\ d.read = c[g].read
           /\ d.pc = "ended"
    BY <2>1 DEF CallMap, Call
  <2> QED BY <2>1, <2>2 DEF CallMap, Keeps
<1> QED BY <1>1, <1>2

LEMMA ClearFacts ==
    ASSUME NEW c \in CallMap, waiter \in Calls \cup {None}, ClearTaskWaiter(c)
    PROVE  /\ call' \in CallMap /\ Keeps(c, call')
           /\ waiter' = None /\ timeout' = None
<1> DEFINE d == StopTimer(c)
<1>1. /\ d \in CallMap
      /\ \A g \in Calls : /\ d[g].token = c[g].token /\ d[g].read = c[g].read
                          /\ d[g].pc = c[g].pc
  BY StopTimerType
<1>2. call' = Ended(d, waiter) /\ waiter' = None /\ timeout' = None
  BY DEF ClearTaskWaiter
<1> HIDE DEF d
<1>3. Ended(d, waiter) \in CallMap /\ Keeps(d, Ended(d, waiter))
  BY <1>1, EndedType
<1> QED BY <1>1, <1>2, <1>3 DEF Keeps

\* If a call waits, it ends, and its user may be told s; if none does, nothing
\* happens but what the caller says.
LEMMA ResolveFacts ==
    ASSUME TypeOK, NEW c \in CallMap, NEW s \in Terminal, NEW l \in BOOLEAN, NEW k \in BOOLEAN,
           Resolve(c, s, l, k)
    PROVE  /\ call' \in CallMap /\ Keeps(c, call')
           /\ waiter' = None
           /\ waiter # None => timeout' = None
           /\ waiter = None => timeout' = timeout /\ announced' = announced /\ loading' = l
           /\ loading' \in BOOLEAN /\ cancelling' \in BOOLEAN
           /\ \/ announced' = announced
              \/ waiter \in Calls /\ announced' = [announced EXCEPT ![waiter] = s]
<1>1. waiter \in Calls \cup {None}
  BY DEF TypeOK
<1>2. loading' \in BOOLEAN /\ cancelling' \in BOOLEAN /\ (waiter = None => loading' = l)
  BY DEF Resolve
<1>3. /\ waiter = None => announced' = announced
      /\ \/ announced' = announced
         \/ waiter \in Calls /\ announced' = [announced EXCEPT ![waiter] = s]
  <2> DEFINE current == waiter # None /\ c[waiter].token = token
             spoken == current /\ (s = "failed" => l)
  <2>1. announced' = IF spoken THEN [announced EXCEPT ![waiter] = s] ELSE announced
    BY DEF Resolve
  <2>2. spoken => waiter # None
    OBVIOUS
  <2> HIDE DEF spoken
  <2>3. CASE spoken
    BY <1>1, <2>1, <2>2, <2>3
  <2>4. CASE ~spoken
    BY <2>1, <2>4
  <2> QED BY <2>3, <2>4
<1>4. CASE waiter = None
  BY <1>2, <1>3, <1>4 DEF Resolve, Keeps
<1>5. CASE waiter # None
  <2>1. ClearTaskWaiter(c)
    BY <1>5 DEF Resolve
  <2> QED BY <1>1, <1>2, <1>3, <1>5, <2>1, ClearFacts
<1> QED BY <1>4, <1>5

LEMMA PollOverFacts ==
    ASSUME call \in CallMap, NEW g \in Calls
    PROVE  /\ PollOver(g) \in CallMap
           /\ \A h \in Calls \ {g} : PollOver(g)[h] = call[h]
           /\ LET d == PollOver(g)
              IN /\ d[g].pc = call[g].pc /\ d[g].token = call[g].token
                 /\ d[g].read = "absent"
<1>1. PollOver(g) = [call EXCEPT ![g] = [@ EXCEPT !.poll = "off", !.read = "absent"]]
  BY DEF PollOver, CallMap
<1>2. LET d == [call[g] EXCEPT !.poll = "off", !.read = "absent"]
      IN /\ d \in Call /\ d.pc = call[g].pc /\ d.token = call[g].token
         /\ d.read = "absent"
  BY PollSet DEF CallMap
<1> QED BY <1>1, <1>2 DEF CallMap

LEMMA RescheduledFacts ==
    ASSUME call \in CallMap, NEW g \in Calls
    PROVE  LET d == Rescheduled(g)
           IN /\ d \in CallMap
              /\ \A h \in Calls : /\ d[h].pc = call[h].pc /\ d[h].token = call[h].token
                                  /\ d[h].read \in {call[h].read, "absent"}
              /\ loading /\ Current(g) => d[g].poll = "timer"
              /\ ~(loading /\ Current(g)) => \A h \in Calls \ {g} : d[h] = call[h]
<1>1. CASE ~(loading /\ Current(g))
  BY <1>1, PollOverFacts DEF Rescheduled
<1>2. CASE loading /\ Current(g)
  <2> DEFINE c == StopTimer(call)
  <2>1. /\ c \in CallMap
        /\ \A h \in Calls : /\ c[h].token = call[h].token /\ c[h].read = call[h].read
                            /\ c[h].pc = call[h].pc
    BY StopTimerType
  <2>2. Rescheduled(g) = [c EXCEPT ![g].poll = "timer", ![g].read = "absent"]
    BY <1>2 DEF Rescheduled
  <2> HIDE DEF c
  <2>3. Rescheduled(g) = [c EXCEPT ![g] = [@ EXCEPT !.poll = "timer", !.read = "absent"]]
    BY <2>1, <2>2 DEF CallMap
  <2>4. LET d == [c[g] EXCEPT !.poll = "timer", !.read = "absent"]
        IN /\ d \in Call /\ d.pc = c[g].pc /\ d.token = c[g].token /\ d.poll = "timer"
           /\ d.read = "absent"
    BY <2>1, PollSet DEF CallMap
  <2> QED BY <1>2, <2>1, <2>3, <2>4 DEF CallMap
<1> QED BY <1>1, <1>2

LEMMA CancelOverFacts ==
    ASSUME cancels \in CancelMap, NEW k \in Cancels, CancelOver(k)
    PROVE  /\ cancels' \in CancelMap /\ cancels'[k] = NoCancel
           /\ \A j \in Cancels \ {k} : cancels'[j] = cancels[j]
<1>1. NoCancel \in CancelCall
  BY ViewAssumption DEF NoCancel, CancelCall
<1> QED BY <1>1 DEF CancelOver, CancelMap

-----------------------------------------------------------------------------
(***************************************************************************)
(* The steps that leave the view alone, apart from a spinner: timers,      *)
(* requests sent, and the backend.                                         *)
(***************************************************************************)
\* Calls keep their tokens, and what polls keeps polling.
QuietCall(h) ==
    /\ call'[h].token = call[h].token
    /\ \/ call'[h].pc = call[h].pc
       \/ call[h].pc = "sent" /\ call'[h].pc = "accepted"
    /\ loading /\ Current(h) /\ call[h].poll # "off" => call'[h].poll # "off"

\* A request is answered or is over, and only what is shown begins to be
\* cancelled.
QuietCancel(k) ==
    \/ cancels'[k] \in {cancels[k], NoCancel}
    \/ /\ image.task \in Calls
       /\ cancels'[k] = [pc |-> "asked", task |-> image.task, at |-> token]
    \/ /\ cancels[k].pc = "asked" /\ cancels'[k].pc \in {"cancelled", "refused"}
       /\ cancels'[k].task = cancels[k].task /\ cancels'[k].at = cancels[k].at
       /\ cancels'[k].pc = "cancelled" => status'[cancels[k].task] = "cancelled"

Quiet ==
    /\ UNCHANGED <<token, loading, image, waiter, timeout, announced, crossed>>
    /\ cancelling' \in BOOLEAN
    /\ call' \in CallMap
    /\ \A h \in Calls : QuietCall(h)
    /\ cancels' \in CancelMap
    /\ \A k \in Cancels : QuietCancel(k)

\* One field of one call is set.
LEMMA QuietPc ==
    ASSUME call \in CallMap, NEW g \in Calls, call[g].pc = "sent",
           call' = [call EXCEPT ![g].pc = "accepted"]
    PROVE  call' \in CallMap /\ \A h \in Calls : QuietCall(h)
<1>1. LET d == [call[g] EXCEPT !.pc = "accepted"]
      IN /\ d \in Call /\ d.pc = "accepted" /\ d.token = call[g].token /\ d.poll = call[g].poll
  BY DEF CallMap, Call
<1> QED BY <1>1 DEF CallMap, QuietCall

LEMMA QuietPoll ==
    ASSUME call \in CallMap, NEW g \in Calls, NEW p \in {"off", "timer", "asked", "read"},
           call' = [call EXCEPT ![g].poll = p],
           p = "off" => ~(loading /\ Current(g))
    PROVE  call' \in CallMap /\ \A h \in Calls : QuietCall(h)
<1>1. LET d == [call[g] EXCEPT !.poll = p]
      IN /\ d \in Call /\ d.pc = call[g].pc /\ d.token = call[g].token /\ d.poll = p
  BY DEF CallMap, Call
<1> QED BY <1>1 DEF CallMap, QuietCall

\* Nothing is asked, answered or over.
LEMMA QuietRequests ==
    ASSUME cancels \in CancelMap, UNCHANGED cancels
    PROVE  cancels' \in CancelMap /\ \A k \in Cancels : QuietCancel(k)
BY DEF QuietCancel

\* The next poll takes the place of the one that is over.
LEMMA QuietRescheduled ==
    ASSUME call \in CallMap, NEW g \in Calls, call' = Rescheduled(g)
    PROVE  call' \in CallMap /\ \A h \in Calls : QuietCall(h)
<1> DEFINE d == Rescheduled(g)
<1>1. /\ d \in CallMap
      /\ \A h \in Calls : /\ d[h].pc = call[h].pc /\ d[h].token = call[h].token
      /\ loading /\ Current(g) => d[g].poll = "timer"
      /\ ~(loading /\ Current(g)) => \A h \in Calls \ {g} : d[h] = call[h]
  BY RescheduledFacts
<1>2. \A h \in Calls : Current(h) /\ Current(g) => h = g
  BY DEF Current, Shown
<1> HIDE DEF d
<1>3. \A h \in Calls : loading /\ Current(h) /\ call[h].poll # "off" => d[h].poll # "off"
  BY <1>1, <1>2
<1> QED BY <1>1, <1>3 DEF QuietCall, d

LEMMA QuietSteps ==
    ASSUME TypeOK, NEW g \in Calls,
           \/ PollFires(g) \/ PollFails(g) \/ Accept(g) \/ Claim(g) \/ PollRead(g)
           \/ \E s \in Outcomes : Finish(g, s)
           \/ PollAnswered(g) /\ ~Current(g)
    PROVE  Quiet
<1> USE DEF Quiet
<1>0. call \in CallMap /\ cancelling \in BOOLEAN /\ token \in 0..MaxToken /\ cancels \in CancelMap
  BY DEF TypeOK, CallMap, CancelMap
<1> USE <1>0, QuietRequests
<1>1. CASE PollFires(g)
  <2>1. PICK p \in {"asked", "off"} : /\ call' = [call EXCEPT ![g].poll = p]
                                      /\ p = "off" => ~(loading /\ Current(g))
    BY <1>1 DEF PollFires, Current
  <2>2. call' \in CallMap /\ \A h \in Calls : QuietCall(h)
    BY <1>0, <2>1, QuietPoll
  <2> QED BY <1>0, <1>1, <2>2 DEF PollFires, view
<1>2. CASE PollFails(g)
  <2>1. call' \in CallMap /\ \A h \in Calls : QuietCall(h)
    BY <1>0, <1>2, QuietRescheduled DEF PollFails
  <2> QED BY <1>0, <1>2, <2>1 DEF PollFails, view
<1>3. CASE Accept(g)
  <2>1. call' \in CallMap /\ \A h \in Calls : QuietCall(h)
    BY <1>0, <1>3, QuietPc DEF Accept
  <2> QED BY <1>0, <1>3, <2>1 DEF Accept, view
<1>4. CASE Claim(g)
  BY <1>0, <1>4 DEF Claim, view, QuietCall
<1>5. CASE PollRead(g)
  <2>1. call' = [call EXCEPT ![g] = [@ EXCEPT !.poll = "read", !.read = status[g]]]
    BY <1>0, <1>5 DEF PollRead, CallMap
  <2>2. LET d == [call[g] EXCEPT !.poll = "read", !.read = status[g]]
        IN /\ d \in Call /\ d.pc = call[g].pc /\ d.token = call[g].token /\ d.poll = "read"
    <3>1. call[g] \in Call /\ status[g] \in Status
      BY <1>0 DEF CallMap, TypeOK
    <3>2. [call[g] EXCEPT !.poll = "read", !.read = status[g]] \in Call
      BY <3>1 DEF Call
    <3> QED BY <3>1, <3>2 DEF Call
  <2>3. call' \in CallMap /\ \A h \in Calls : QuietCall(h)
    BY <1>0, <2>1, <2>2 DEF CallMap, QuietCall
  <2> QED BY <1>0, <1>5, <2>3 DEF PollRead, view
<1>6. ASSUME NEW s \in Outcomes, Finish(g, s) PROVE Quiet
  BY <1>0, <1>6 DEF Finish, view, QuietCall
<1>7. CASE PollAnswered(g) /\ ~Current(g)
  <2>1. call' = Rescheduled(g) /\ UNCHANGED <<view, token, cancels, crossed>>
    BY <1>7 DEF PollAnswered
  <2>2. call' \in CallMap /\ \A h \in Calls : QuietCall(h)
    BY <1>0, <2>1, QuietRescheduled
  <2> QED BY <1>0, <2>1, <2>2 DEF view
<1> QED BY <1>1, <1>2, <1>3, <1>4, <1>5, <1>6, <1>7

LEMMA QuietCancels ==
    ASSUME TypeOK, OutcomesFinal, NEW k \in Cancels, Cancel(k) \/ CancelFails(k) \/ CancelById(k)
    PROVE  Quiet
<1>0. /\ call \in CallMap /\ cancelling \in BOOLEAN /\ token \in 0..MaxToken
      /\ cancels \in CancelMap /\ cancels[k] \in CancelCall
  BY DEF TypeOK, CallMap, CancelMap
<1>1. UNCHANGED <<token, loading, image, waiter, timeout, announced, crossed, call>>
      /\ cancelling' \in BOOLEAN
  BY <1>0 DEF Cancel, CancelFails, CancelById, view
<1>2. call' \in CallMap /\ \A h \in Calls : QuietCall(h)
  BY <1>0, <1>1 DEF QuietCall
<1>3. CASE Cancel(k)
  <2> DEFINE r == [pc |-> "asked", task |-> image.task, at |-> token]
  <2>1. image.task \in Calls
    BY <1>3 DEF Cancel, TypeOK, Image
  <2>2. r \in CancelCall
    BY <1>0, <2>1 DEF CancelCall
  <2>3. cancels' = [cancels EXCEPT ![k] = r]
    BY <1>3 DEF Cancel
  <2>4. cancels' \in CancelMap
    BY <1>0, <2>2, <2>3 DEF CancelMap
  <2>5. \A j \in Cancels : QuietCancel(j)
    BY <1>0, <2>1, <2>3 DEF QuietCancel, CancelMap
  <2> QED BY <1>1, <1>2, <2>4, <2>5 DEF Quiet
<1>4. CASE CancelFails(k)
  <2>1. cancels' \in CancelMap /\ \A j \in Cancels : QuietCancel(j)
    BY <1>0, <1>4, CancelOverFacts DEF CancelFails, QuietCancel
  <2> QED BY <1>1, <1>2, <2>1 DEF Quiet
<1>5. CASE CancelById(k)
  <2>1. cancels[k].pc = "asked" /\ cancels[k].task \in Calls /\ status \in [Calls -> Status]
    BY <1>5 DEF CancelById, OutcomesFinal, TypeOK
  <2>2. PICK p \in {"cancelled", "refused"} :
            /\ cancels' = [cancels EXCEPT ![k].pc = p]
            /\ p = "cancelled" => status' = [status EXCEPT ![cancels[k].task] = "cancelled"]
    BY <1>5 DEF CancelById
  <2>3. LET d == [cancels[k] EXCEPT !.pc = p]
        IN d \in CancelCall /\ d.pc = p /\ d.task = cancels[k].task /\ d.at = cancels[k].at
    BY <1>0 DEF CancelCall
  <2>4. p = "cancelled" => status'[cancels[k].task] = "cancelled"
    BY <2>1, <2>2
  <2>5. cancels' \in CancelMap
    BY <1>0, <2>2, <2>3 DEF CancelMap
  <2>6. \A j \in Cancels : QuietCancel(j)
    BY <1>0, <2>1, <2>2, <2>3, <2>4 DEF QuietCancel, CancelMap
  <2> QED BY <1>1, <1>2, <2>5, <2>6 DEF Quiet
<1> QED BY <1>3, <1>4, <1>5

LEMMA QuietStutter == TypeOK /\ UNCHANGED vars => Quiet
  BY DEF Quiet, QuietCall, QuietCancel, TypeOK, CallMap, CancelMap, vars

-----------------------------------------------------------------------------
(***************************************************************************)
(* The steps that bring an outcome or an update to the view.               *)
(***************************************************************************)
\* At most a call ends and its poll is over.
CallKept(h) ==
    /\ call'[h].token = call[h].token
    /\ call'[h].pc \in {call[h].pc, "ended"}
    /\ call'[h].read \in {call[h].read, "absent"}

\* Whoever waits is told s, or nothing.
Settled(s) ==
    /\ waiter' = None
    /\ waiter # None => timeout' = None
    /\ waiter = None => timeout' = timeout /\ announced' = announced
    /\ \/ announced' = announced
       \/ waiter \in Calls /\ announced' = [announced EXCEPT ![waiter] = s]
    /\ loading' \in BOOLEAN /\ cancelling' \in BOOLEAN

\* An update s of the task t that is shown.
Updated(t, s) ==
    /\ Shown(t) /\ s \in Status
    /\ image' = [task |-> t, status |-> s]
    /\ UNCHANGED <<status, told, token, cancels, crossed>>
    /\ call' \in CallMap /\ \A h \in Calls : CallKept(h)
    /\ \/ /\ UNCHANGED <<loading, cancelling, waiter, timeout, announced>>
          /\ \A h \in Calls : /\ call'[h].pc = call[h].pc
                              /\ loading /\ Current(h) /\ call[h].poll # "off"
                                 => call'[h].poll # "off"
       \/ s \in Terminal /\ Settled(s)

\* c is what is left of the calls before the update is applied.
LEMMA ApplyUpdates ==
    ASSUME TypeOK, NEW t \in Calls, NEW s \in Status, Shown(t), NEW c \in CallMap, Apply(c, t, s),
           UNCHANGED <<status, told, token, cancels, crossed>>,
           \A h \in Calls : /\ c[h].token = call[h].token /\ c[h].pc = call[h].pc
                            /\ c[h].read \in {call[h].read, "absent"}
                            /\ s \notin Terminal /\ loading /\ Current(h) /\ call[h].poll # "off"
                               => c[h].poll # "off"
    PROVE  Updated(t, s)
<1>1. CASE s \in Terminal
  <2>1. Resolve(c, s, loading, cancelling) /\ loading \in BOOLEAN /\ cancelling \in BOOLEAN
    BY <1>1 DEF Apply, TypeOK
  <2>2. call' \in CallMap /\ Keeps(c, call') /\ Settled(s)
    BY <1>1, <2>1, ResolveFacts DEF Settled
  <2>3. \A h \in Calls : CallKept(h)
    BY <2>2 DEF Keeps, CallKept
  <2> QED BY <1>1, <2>2, <2>3 DEF Apply, Updated
<1>2. CASE s \notin Terminal
  <2>1. call' = c /\ UNCHANGED <<loading, cancelling, waiter, timeout, announced>>
    BY <1>2 DEF Apply
  <2>2. \A h \in Calls : CallKept(h)
    BY <2>1 DEF CallKept
  <2> QED BY <1>2, <2>1, <2>2 DEF Apply, Updated
<1> QED BY <1>1, <1>2

LEMMA SocketEventUpdates ==
    ASSUME TypeOK, NEW t \in Calls, NEW s \in Status, SocketEvent(t, s)
    PROVE  Updated(t, s)
<1>1. call \in CallMap
  BY DEF TypeOK, CallMap
<1> QED BY <1>1, ApplyUpdates DEF SocketEvent

LEMMA PollUpdates ==
    ASSUME TypeOK, NEW g \in Calls, PollAnswered(g), Current(g)
    PROVE  Updated(g, call[g].read)
<1> DEFINE s == call[g].read
           c == IF isTerminal(s) THEN PollOver(g) ELSE Rescheduled(g)
<1>1. call \in CallMap /\ s \in Status
  BY DEF TypeOK, CallMap, Call
<1>2. Apply(c, g, s) /\ UNCHANGED <<status, told, token, cancels, crossed>> /\ Shown(g)
  BY DEF PollAnswered, Current
<1>3. /\ c \in CallMap
      /\ \A h \in Calls : /\ c[h].token = call[h].token /\ c[h].pc = call[h].pc
                          /\ c[h].read \in {call[h].read, "absent"}
  BY <1>1, PollOverFacts, RescheduledFacts
<1>4. \A h \in Calls : s \notin Terminal /\ loading /\ Current(h) => c[h].poll # "off"
  <2>1. \A h \in Calls : Current(h) => h = g
    BY DEF Current, Shown
  <2>2. s \notin Terminal /\ loading => c[g].poll = "timer"
    BY <1>1, RescheduledFacts
  <2> HIDE DEF c, s
  <2> QED BY <2>1, <2>2
<1> HIDE DEF c, s
<1>5. Updated(g, s)
  BY <1>1, <1>2, <1>3, <1>4, ApplyUpdates
<1> QED BY <1>5 DEF s

\* The answer to a cancel: it is the task's outcome, and everyone is told.
CancelTold(k) ==
    /\ cancels[k].pc = "cancelled"
    /\ image' = [task |-> cancels[k].task, status |-> "cancelled"]
    /\ crossed' = (crossed \/ cancels[k].at # token)
    /\ UNCHANGED <<status, told, token>>
    /\ call' \in CallMap /\ \A h \in Calls : CallKept(h)
    /\ cancels' \in CancelMap /\ \A j \in Cancels : cancels'[j] \in {cancels[j], NoCancel}
    /\ Settled("cancelled")

LEMMA CancelAnsweredTells ==
    ASSUME TypeOK, NEW k \in Cancels, CancelAnswered(k)
    PROVE  CancelTold(k)
<1>1. call \in CallMap /\ cancels \in CancelMap /\ "cancelled" \in Terminal
  BY DEF TypeOK, CallMap, CancelMap, Terminal
<1>2. Resolve(call, "cancelled", FALSE, FALSE) /\ CancelOver(k)
  BY DEF CancelAnswered
<1>3. call' \in CallMap /\ Keeps(call, call') /\ Settled("cancelled")
  BY <1>1, <1>2, ResolveFacts DEF Settled
<1>4. \A h \in Calls : CallKept(h)
  BY <1>3 DEF Keeps, CallKept
<1>5. cancels' \in CancelMap /\ \A j \in Cancels : cancels'[j] \in {cancels[j], NoCancel}
  BY <1>1, <1>2, CancelOverFacts
<1> QED BY <1>3, <1>4, <1>5 DEF CancelAnswered, CancelTold

-----------------------------------------------------------------------------
(***************************************************************************)
(* The other steps, which begin and end calls.                             *)
(***************************************************************************)
LEMMA GenerateFacts ==
    ASSUME TypeOK, NEW g \in Calls, Generate(g)
    PROVE  /\ call' \in CallMap /\ token' = token + 1 /\ token' \in 0..MaxToken
           /\ waiter' = None /\ timeout' = None
           /\ call'[g].token = token + 1
           /\ \A h \in Calls : /\ h # g => call'[h].token = call[h].token
                               /\ call'[h].read = call[h].read
                               /\ call'[h].pc = "idle" => call[h].pc = "idle"
                               /\ call'[h].pc \in {"sent", "accepted"} => h = g \/ call'[h].pc = call[h].pc
<1> DEFINE c == [call EXCEPT ![g] = [@ EXCEPT !.pc = "sent", !.token = token + 1]]
<1>1. call \in CallMap /\ waiter \in Calls \cup {None} /\ call[g] \in Call
  BY DEF TypeOK, CallMap
<1>2. token' = token + 1 /\ token' \in 0..MaxToken
  BY ViewAssumption DEF Generate, TypeOK
<1>3. c = [call EXCEPT ![g].pc = "sent", ![g].token = token + 1]
  BY <1>1 DEF CallMap
<1>4. ClearTaskWaiter(c)
  BY <1>3 DEF Generate
<1>5. LET d == [call[g] EXCEPT !.pc = "sent", !.token = token + 1]
      IN /\ d \in Call /\ d.pc = "sent" /\ d.token = token + 1 /\ d.read = call[g].read
  <2>1. [call[g] EXCEPT !.pc = "sent", !.token = token + 1] \in Call
    BY <1>1, <1>2 DEF Call
  <2> QED BY <1>1, <2>1 DEF Call
<1>6. /\ c \in CallMap /\ c[g].pc = "sent" /\ c[g].token = token + 1 /\ c[g].read = call[g].read
      /\ \A h \in Calls \ {g} : c[h] = call[h]
  BY <1>1, <1>5 DEF CallMap
<1> HIDE DEF c
<1>7. call' \in CallMap /\ Keeps(c, call') /\ waiter' = None /\ timeout' = None
  BY <1>1, <1>4, <1>6, ClearFacts
<1> QED BY <1>2, <1>6, <1>7 DEF Keeps

LEMMA SubmitFailsFacts ==
    ASSUME TypeOK, NEW g \in Calls, SubmitFails(g)
    PROVE  /\ call' \in CallMap /\ Keeps(call, call') /\ call'[g].pc = "ended"
           /\ loading' \in BOOLEAN /\ cancelling' \in BOOLEAN
           /\ announced' \in {announced, [announced EXCEPT ![g] = "error"]}
           /\ (waiter' = waiter /\ timeout' = timeout) \/ (waiter' = None /\ timeout' = None)
           /\ call[g].token # token => UNCHANGED view /\ \A h \in Calls \ {g} : call'[h] = call[h]
<1> DEFINE c == Ended(call, g)
<1>1. call \in CallMap /\ waiter \in Calls \cup {None} /\ loading \in BOOLEAN /\ cancelling \in BOOLEAN
  BY DEF TypeOK, CallMap
<1>2. /\ c \in CallMap /\ Keeps(call, c) /\ c[g].pc = "ended"
      /\ \A h \in Calls \ {g} : c[h] = call[h]
  BY <1>1, EndedType
<1>3. CASE call[g].token # token
  <2>1. call' = c /\ UNCHANGED view
    BY <1>3 DEF SubmitFails
  <2> HIDE DEF c
  <2> QED BY <1>1, <1>2, <2>1 DEF view
<1>4. CASE call[g].token = token /\ loading
  <2>1. /\ ClearTaskWaiter(c) /\ announced' = [announced EXCEPT ![g] = "error"]
        /\ loading' = FALSE /\ cancelling' = FALSE
    BY <1>4 DEF SubmitFails
  <2> HIDE DEF c
  <2>2. call' \in CallMap /\ Keeps(c, call') /\ waiter' = None /\ timeout' = None
    BY <1>1, <1>2, <2>1, ClearFacts
  <2>3. Keeps(call, call') /\ call'[g].pc = "ended"
    BY <1>2, <2>2 DEF Keeps
  <2> QED BY <1>4, <2>1, <2>2, <2>3
<1>5. CASE call[g].token = token /\ ~loading
  <2>1. /\ call' = c /\ UNCHANGED <<waiter, timeout, announced>>
        /\ loading' = FALSE /\ cancelling' = FALSE
    BY <1>5 DEF SubmitFails
  <2> HIDE DEF c
  <2> QED BY <1>2, <1>5, <2>1
<1> QED BY <1>1, <1>3, <1>4, <1>5

LEMMA SubmittedFacts ==
    ASSUME TypeOK, NEW g \in Calls, Submitted(g)
    PROVE  /\ call' \in CallMap
           /\ call'[g].pc = "waiting" /\ call'[g].poll = "timer"
           /\ \A h \in Calls : /\ call'[h].token = call[h].token /\ call'[h].read = call[h].read
                               /\ h # g => call'[h].pc = call[h].pc
<1> DEFINE c == StopTimer(call)
<1>1. call \in CallMap
  BY DEF TypeOK, CallMap
<1>2. /\ c \in CallMap
      /\ \A h \in Calls : /\ c[h].token = call[h].token /\ c[h].read = call[h].read
                          /\ c[h].pc = call[h].pc
  BY <1>1, StopTimerType
<1>3. call' = [c EXCEPT ![g].pc = "waiting", ![g].poll = "timer"]
  BY DEF Submitted
<1> HIDE DEF c
<1>4. call' = [c EXCEPT ![g] = [@ EXCEPT !.pc = "waiting", !.poll = "timer"]]
  BY <1>2, <1>3 DEF CallMap
<1>5. LET d == [c[g] EXCEPT !.pc = "waiting", !.poll = "timer"]
      IN /\ d \in Call /\ d.pc = "waiting" /\ d.poll = "timer" /\ d.token = c[g].token
         /\ d.read = c[g].read
  <2>1. c[g] \in Call
    BY <1>2 DEF CallMap
  <2>2. [c[g] EXCEPT !.pc = "waiting", !.poll = "timer"] \in Call
    BY <2>1 DEF Call
  <2> QED BY <2>1, <2>2 DEF Call
<1> QED BY <1>2, <1>4, <1>5 DEF CallMap

LEMMA TimeoutFacts ==
    ASSUME TypeOK, NEW g \in Calls, TimeoutFires(g)
    PROVE  /\ call' \in CallMap /\ Keeps(call, call')
           /\ loading' \in BOOLEAN /\ cancelling' \in BOOLEAN /\ timeout' = None
           /\ announced' \in {announced, [announced EXCEPT ![g] = "error"]}
           /\ waiter' \in {waiter, None}
           /\ call[g].token = token => waiter' = None
<1>1. call \in CallMap /\ waiter \in Calls \cup {None} /\ loading \in BOOLEAN /\ cancelling \in BOOLEAN
  BY DEF TypeOK, CallMap
<1>2. CASE call[g].token # token
  BY <1>1, <1>2 DEF TimeoutFires, Keeps
<1>3. CASE call[g].token = token
  <2>1. ClearTaskWaiter(call) /\ loading' = FALSE /\ cancelling' = FALSE
    BY <1>3 DEF TimeoutFires
  <2>2. announced' \in {announced, [announced EXCEPT ![g] = "error"]}
    <3>1. announced' = IF loading THEN [announced EXCEPT ![g] = "error"] ELSE announced
      BY <1>3 DEF TimeoutFires
    <3>2. CASE loading
      BY <3>1, <3>2
    <3>3. CASE ~loading
      BY <3>1, <3>3
    <3> QED BY <3>2, <3>3
  <2> QED BY <1>1, <2>1, <2>2, ClearFacts
<1> QED BY <1>2, <1>3

LEMMA ResetFacts ==
    ASSUME TypeOK, Reset
    PROVE  /\ call' \in CallMap /\ Keeps(call, call') /\ waiter' = None /\ timeout' = None
           /\ token' = token + 1 /\ token' \in 0..MaxToken
<1>1. call \in CallMap /\ waiter \in Calls \cup {None}
  BY DEF TypeOK, CallMap
<1>2. token' = token + 1 /\ token' \in 0..MaxToken
  BY ViewAssumption DEF Reset, TypeOK
<1> QED BY <1>1, <1>2, ClearFacts DEF Reset
-----------------------------------------------------------------------------
(***************************************************************************)
(* Every step is one of these.                                             *)
(***************************************************************************)
Other == \/ Invalid \/ Reset
         \/ \E g \in Calls : Generate(g) \/ SubmitFails(g) \/ Submitted(g) \/ TimeoutFires(g)

\* An update that ends a wait is the task's outcome.
RealUpdate(t, s) == Updated(t, s) /\ (s \in Terminal => status[t] = s)

LEMMA StepCases ==
    ASSUME TypeOK, OutcomesFinal, [Next]_vars
    PROVE  \/ Quiet \/ Other
           \/ \E t \in Calls, s \in Status : RealUpdate(t, s)
           \/ \E k \in Cancels : CancelTold(k)
<1>1. ASSUME NEW t \in Calls, NEW s \in Status, SocketEvent(t, s)
      PROVE  RealUpdate(t, s)
  <2>1. s \in told[t]
    BY <1>1 DEF SocketEvent
  <2> QED BY <1>1, <2>1, SocketEventUpdates DEF OutcomesFinal, RealUpdate
<1>2. ASSUME NEW g \in Calls, PollAnswered(g), Current(g)
      PROVE  \E s \in Status : RealUpdate(g, s)
  <2>1. call[g].read \in Status
    BY DEF TypeOK, Call
  <2> QED BY <1>2, <2>1, PollUpdates DEF OutcomesFinal, RealUpdate
<1>3. ASSUME NEW g \in Calls,
             \/ PollFires(g) \/ PollFails(g) \/ Accept(g) \/ Claim(g) \/ PollRead(g)
             \/ PollAnswered(g) /\ ~Current(g)
      PROVE  Quiet
  BY <1>3, QuietSteps
<1>4. ASSUME NEW t \in Calls, NEW s \in Outcomes, Finish(t, s) PROVE Quiet
  BY <1>4, QuietSteps
<1>5. ASSUME NEW k \in Cancels, Cancel(k) \/ CancelFails(k) \/ CancelById(k) PROVE Quiet
  BY <1>5, QuietCancels
<1> QED BY <1>1, <1>2, <1>3, <1>4, <1>5, QuietStutter, CancelAnsweredTells DEF Next, Other

\* A request is answered, is over, or begins for the task that is shown.
LEMMA RequestsMove ==
    ASSUME TypeOK, OutcomesFinal, [Next]_vars
    PROVE  cancels' \in CancelMap /\ \A k \in Cancels : QuietCancel(k)
<1>1. cancels \in CancelMap
  BY DEF TypeOK, CancelMap
<1>2. CASE Other
  <2>1. UNCHANGED cancels
    BY <1>2 DEF Other, Invalid, Reset, Generate, SubmitFails, Submitted, TimeoutFires
  <2> QED BY <1>1, <2>1, QuietRequests
<1> QED BY <1>1, <1>2, StepCases, QuietRequests
        DEF Quiet, RealUpdate, Updated, CancelTold, QuietCancel

-----------------------------------------------------------------------------
(***************************************************************************)
(* The tasks, and the type of everything.                                  *)
(***************************************************************************)
\* An outcome is never replaced; what is pushed or read by a poll is what the
\* task is at that time.
TaskKept(t) ==
    /\ status[t] \in Terminal => status'[t] = status[t]
    /\ \A s \in told'[t] : s \in told[t] \/ s = status'[t]
    /\ call'[t].read \in {call[t].read, "absent", status'[t]}
    /\ call'[t].pc \in {"idle", "sent"} => status'[t] = status[t] /\ call[t].pc \in {"idle", "sent"}

TablesKept == UNCHANGED <<status, told>> /\ \A t \in Calls : TaskKept(t)

Tables == status' \in [Calls -> Status] /\ told' \in [Calls -> SUBSET Status]

\* The task g becomes s.
Becomes(g, s) ==
    /\ status' = [status EXCEPT ![g] = s] /\ told' = [told EXCEPT ![g] = @ \cup {s}]
    /\ status[g] \notin Terminal
    /\ \A t \in Calls : /\ call'[t].read = call[t].read
                        /\ t # g => call'[t].pc = call[t].pc
    /\ call'[g].pc \notin {"idle", "sent"}

LEMMA BecomesKeeps ==
    ASSUME TypeOK, NEW g \in Calls, NEW s \in Status, Becomes(g, s)
    PROVE  Tables /\ \A t \in Calls : TaskKept(t)
<1>0. status \in [Calls -> Status] /\ told \in [Calls -> SUBSET Status]
  BY DEF TypeOK
<1>1. /\ status'[g] = s /\ told'[g] = told[g] \cup {s}
      /\ \A t \in Calls \ {g} : status'[t] = status[t] /\ told'[t] = told[t]
  BY <1>0 DEF Becomes
<1>2. Tables
  BY <1>0 DEF Becomes, Tables
<1>3. /\ status[g] \notin Terminal
      /\ \A t \in Calls : call'[t].read = call[t].read
      /\ \A t \in Calls \ {g} : call'[t].pc = call[t].pc
      /\ call'[g].pc \notin {"idle", "sent"}
  BY DEF Becomes
<1>4. \A x \in told'[g] : x \in told[g] \/ x = s
  BY <1>1
<1>5. TaskKept(g)
  BY <1>1, <1>3, <1>4 DEF TaskKept
<1>6. ASSUME NEW t \in Calls \ {g} PROVE TaskKept(t)
  BY <1>1, <1>3 DEF TaskKept
<1> QED BY <1>2, <1>5, <1>6

LEMMA BackendKeeps ==
    ASSUME TypeOK, OutcomesFinal, NEW g \in Calls,
           \/ Accept(g) \/ Claim(g) \/ PollRead(g) \/ \E k \in Cancels : CancelById(k) /\ cancels[k].task = g
           \/ \E s \in Outcomes : Finish(g, s)
    PROVE  Tables /\ \A t \in Calls : TaskKept(t)
<1> USE DEF Tables
<1>0. /\ status \in [Calls -> Status] /\ told \in [Calls -> SUBSET Status] /\ call \in CallMap
      /\ \A t \in Calls : call[t] \in Call
  BY DEF TypeOK, CallMap
<1>1. call[g].pc \in {"idle", "sent"} => status[g] = "absent"
  BY DEF OutcomesFinal
<1>2. "queued" \in Status \ {"absent"} /\ "generating" \in Status \ {"absent"}
      /\ "cancelled" \in Status \ {"absent"} /\ "cancelled" \in Terminal
      /\ "queued" \notin Terminal /\ "generating" \notin Terminal /\ "absent" \notin Terminal
      /\ Outcomes \subseteq Status \ {"absent"}
  BY ViewAssumption DEF Status, Terminal, Waiting
<1>3. CASE Accept(g)
  <2>1. /\ status[g] = "absent"
        /\ status' = [status EXCEPT ![g] = "queued"]
        /\ told' = [told EXCEPT ![g] = @ \cup {"queued"}]
        /\ call' = [call EXCEPT ![g].pc = "accepted"]
    BY <1>3 DEF Accept, Push, OutcomesFinal
  <2>2. LET d == [call[g] EXCEPT !.pc = "accepted"]
        IN d.pc = "accepted" /\ d.read = call[g].read
    BY <1>0 DEF Call
  <2>3. \A t \in Calls : /\ call'[t].read = call[t].read
                         /\ t # g => call'[t].pc = call[t].pc
    BY <1>0, <2>1, <2>2 DEF CallMap
  <2>4. call'[g].pc = "accepted"
    BY <1>0, <2>1, <2>2 DEF CallMap
  <2>5. Becomes(g, "queued")
    BY <1>2, <2>1, <2>3, <2>4 DEF Becomes
  <2> QED BY <1>2, <2>5, BecomesKeeps
<1>4. CASE Claim(g)
  <2>1. /\ status[g] = "queued" /\ call' = call
        /\ status' = [status EXCEPT ![g] = "generating"]
        /\ told' = [told EXCEPT ![g] = @ \cup {"generating"}]
    BY <1>4 DEF Claim, Push
  <2>2. Becomes(g, "generating")
    BY <1>1, <1>2, <2>1 DEF Becomes
  <2> QED BY <1>2, <2>2, BecomesKeeps
<1>5. ASSUME NEW s \in Outcomes, Finish(g, s) PROVE Tables /\ \A t \in Calls : TaskKept(t)
  <2>1. /\ status[g] = "generating" /\ call' = call
        /\ status' = [status EXCEPT ![g] = s]
        /\ told' = [told EXCEPT ![g] = @ \cup {s}]
    BY <1>5 DEF Finish, Push
  <2>2. Becomes(g, s)
    BY <1>1, <1>2, <2>1 DEF Becomes
  <2> QED BY <1>2, <2>2, BecomesKeeps
<1>6. CASE PollRead(g)
  <2>1. /\ status' = status /\ told' = told
        /\ call' = [call EXCEPT ![g].poll = "read", ![g].read = status[g]]
    BY <1>6 DEF PollRead
  <2>2. call' = [call EXCEPT ![g] = [@ EXCEPT !.poll = "read", !.read = status[g]]]
    BY <1>0, <2>1 DEF CallMap
  <2>3. LET d == [call[g] EXCEPT !.poll = "read", !.read = status[g]]
        IN d.pc = call[g].pc /\ d.read = status[g]
    BY <1>0 DEF Call
  <2> QED BY <1>0, <2>1, <2>2, <2>3 DEF TaskKept, CallMap
<1>7. ASSUME NEW k \in Cancels, CancelById(k), cancels[k].task = g, canCancel(status[g])
      PROVE  Tables /\ \A t \in Calls : TaskKept(t)
  <2>1. /\ status' = [status EXCEPT ![g] = "cancelled"] /\ call' = call
        /\ told' = [told EXCEPT ![g] = @ \cup {"cancelled"}]
    BY <1>7 DEF CancelById, Push
  <2>2. status[g] \notin Terminal /\ status[g] # "absent"
    BY <1>7 DEF canCancel, Waiting, Terminal
  <2>3. Becomes(g, "cancelled")
    BY <1>1, <2>1, <2>2 DEF Becomes
  <2> QED BY <1>2, <2>3, BecomesKeeps
<1>8. ASSUME NEW k \in Cancels, CancelById(k), cancels[k].task = g, ~canCancel(status[g])
      PROVE  Tables /\ \A t \in Calls : TaskKept(t)
  BY <1>0, <1>8 DEF CancelById, TaskKept
<1> QED BY <1>3, <1>4, <1>5, <1>6, <1>7, <1>8

\* Nothing else touches a task.
CallAsks(h) ==
    /\ call'[h].read \in {call[h].read, "absent"}
    /\ call'[h].pc \in {"idle", "sent"} => call[h].pc \in {"idle", "sent"}

LEMMA AsksKeeps ==
    ASSUME TypeOK, status' = status, told' = told, \A h \in Calls : CallAsks(h)
    PROVE  Tables /\ \A t \in Calls : TaskKept(t)
BY DEF TypeOK, Tables, TaskKept, CallAsks

LEMMA ViewAsks ==
    ASSUME TypeOK, NEW g \in Calls,
           PollFires(g) \/ PollFails(g) \/ (PollAnswered(g) /\ ~Current(g))
    PROVE  status' = status /\ told' = told /\ \A h \in Calls : CallAsks(h)
<1>0. call \in CallMap /\ \A h \in Calls : call[h] \in Call
  BY DEF TypeOK, CallMap
<1>1. CASE PollFires(g)
  <2>1. PICK p \in {"asked", "off"} : call' = [call EXCEPT ![g].poll = p]
    BY <1>1 DEF PollFires
  <2>2. LET d == [call[g] EXCEPT !.poll = p]
        IN d.pc = call[g].pc /\ d.read = call[g].read
    BY <1>0 DEF Call
  <2>3. \A h \in Calls : CallAsks(h)
    BY <1>0, <2>1, <2>2 DEF CallMap, CallAsks
  <2> QED BY <1>1, <2>3 DEF PollFires
<1>2. CASE PollFails(g) \/ (PollAnswered(g) /\ ~Current(g))
  <2>1. call' = Rescheduled(g) /\ status' = status /\ told' = told
    BY <1>2 DEF PollFails, PollAnswered
  <2>2. \A h \in Calls : CallAsks(h)
    BY <1>0, <2>1, RescheduledFacts DEF CallAsks
  <2> QED BY <2>1, <2>2
<1> QED BY <1>1, <1>2

LEMMA UpdateAsks ==
    ASSUME TypeOK,
           \/ \E k \in Cancels : CancelTold(k)
           \/ \E t \in Calls, s \in Status : Updated(t, s)
    PROVE  status' = status /\ told' = told /\ \A h \in Calls : CallAsks(h)
BY DEF CancelTold, Updated, CallKept, CallAsks

LEMMA OtherAsks ==
    ASSUME TypeOK, Other
    PROVE  status' = status /\ told' = told /\ \A h \in Calls : CallAsks(h)
<1>1. CASE Invalid
  BY <1>1 DEF Invalid, CallAsks
<1>2. CASE Reset
  BY <1>2, ResetFacts DEF Reset, Keeps, CallAsks
<1>3. ASSUME NEW g \in Calls, Generate(g)
      PROVE  status' = status /\ told' = told /\ \A h \in Calls : CallAsks(h)
  <2>1. \A h \in Calls : CallAsks(h)
    <3>1. call[g].pc = "idle"
      BY <1>3 DEF Generate
    <3> QED BY <1>3, <3>1, GenerateFacts DEF CallAsks
  <2> QED BY <1>3, <2>1 DEF Generate
<1>4. ASSUME NEW g \in Calls, SubmitFails(g)
      PROVE  status' = status /\ told' = told /\ \A h \in Calls : CallAsks(h)
  BY <1>4, SubmitFailsFacts DEF SubmitFails, Keeps, CallAsks
<1>5. ASSUME NEW g \in Calls, Submitted(g)
      PROVE  status' = status /\ told' = told /\ \A h \in Calls : CallAsks(h)
  BY <1>5, SubmittedFacts DEF Submitted, CallAsks
<1>6. ASSUME NEW g \in Calls, TimeoutFires(g)
      PROVE  status' = status /\ told' = told /\ \A h \in Calls : CallAsks(h)
  BY <1>6, TimeoutFacts DEF TimeoutFires, Keeps, CallAsks
<1> QED BY <1>1, <1>2, <1>3, <1>4, <1>5, <1>6 DEF Other

LEMMA TasksKept ==
    ASSUME TypeOK, OutcomesFinal, [Next]_vars
    PROVE  Tables /\ \A t \in Calls : TaskKept(t)
<1> DEFINE Kept == Tables /\ \A t \in Calls : TaskKept(t)
<1>1. ASSUME NEW g \in Calls,
             Accept(g) \/ Claim(g) \/ PollRead(g) \/ \E s \in Outcomes : Finish(g, s)
      PROVE  Kept
  BY <1>1, BackendKeeps
<1>2. ASSUME NEW g \in Calls,
             PollFires(g) \/ PollFails(g) \/ (PollAnswered(g) /\ ~Current(g))
      PROVE  Kept
  BY <1>2, ViewAsks, AsksKeeps
<1>3. ASSUME NEW k \in Cancels, CancelAnswered(k) PROVE Kept
  BY <1>3, CancelAnsweredTells, UpdateAsks, AsksKeeps
<1>4. ASSUME NEW g \in Calls, PollAnswered(g), Current(g) PROVE Kept
  <2>1. call[g].read \in Status
    BY DEF TypeOK, Call
  <2> QED BY <1>4, <2>1, PollUpdates, UpdateAsks, AsksKeeps
<1>5. ASSUME NEW t \in Calls, NEW s \in Status, SocketEvent(t, s) PROVE Kept
  BY <1>5, SocketEventUpdates, UpdateAsks, AsksKeeps
<1>6. CASE Other
  BY <1>6, OtherAsks, AsksKeeps
<1>7. CASE UNCHANGED vars
  BY <1>7, AsksKeeps DEF vars, CallAsks
<1>8. ASSUME NEW k \in Cancels, CancelById(k) PROVE Kept
  <2>1. cancels[k].task \in Calls
    BY <1>8 DEF CancelById, OutcomesFinal
  <2> QED BY <1>8, <2>1, BackendKeeps
<1>9. ASSUME NEW k \in Cancels, Cancel(k) \/ CancelFails(k) PROVE Kept
  BY <1>9, AsksKeeps DEF Cancel, CancelFails, CallAsks
<1> HIDE DEF Kept
<1> QED BY <1>1, <1>2, <1>3, <1>4, <1>5, <1>6, <1>7, <1>8, <1>9 DEF Next, Other, Kept

LEMMA OutcomesFinalNext == TypeOK /\ OutcomesFinal /\ [Next]_vars => OutcomesFinal'
<1> SUFFICES ASSUME TypeOK, OutcomesFinal, [Next]_vars PROVE OutcomesFinal'
  OBVIOUS
<1>1. \A t \in Calls : TaskKept(t)
  BY TasksKept
<1>2. "cancelled" \in Terminal /\ "absent" \notin Terminal
  BY DEF Terminal
<1>3. ASSUME NEW t \in Calls
      PROVE  /\ \A s \in told'[t] : s \in Terminal => status'[t] = s
             /\ call'[t].read \in Terminal => status'[t] = call'[t].read
             /\ call'[t].pc \in {"idle", "sent"} => status'[t] = "absent"
  BY <1>1, <1>2 DEF TaskKept, OutcomesFinal
<1>4. ASSUME NEW k \in Cancels
      PROVE  /\ cancels'[k].pc # "off" => cancels'[k].task \in Calls
             /\ cancels'[k].pc = "cancelled" => status'[cancels'[k].task] = "cancelled"
  <2>1. /\ cancels[k].pc # "off" => cancels[k].task \in Calls
        /\ cancels[k].pc = "cancelled" => status[cancels[k].task] = "cancelled"
    BY DEF OutcomesFinal
  <2>2. cancels[k].pc = "cancelled" => status'[cancels[k].task] = "cancelled"
    BY <1>1, <1>2, <2>1 DEF TaskKept
  <2> QED BY <2>1, <2>2, RequestsMove DEF QuietCancel, NoCancel
<1> QED BY <1>3, <1>4 DEF OutcomesFinal

LEMMA TypeNext == TypeOK /\ OutcomesFinal /\ [Next]_vars => TypeOK'
<1> SUFFICES ASSUME TypeOK, OutcomesFinal, [Next]_vars PROVE TypeOK'
  OBVIOUS
<1> DEFINE Announcements == [Calls -> {"nothing", "error"} \cup Terminal]
           ViewType == /\ token \in 0..MaxToken /\ loading \in BOOLEAN /\ cancelling \in BOOLEAN
                       /\ image \in Image /\ waiter \in Calls \cup {None} /\ timeout \in Calls \cup {None}
                       /\ call \in CallMap /\ announced \in Announcements /\ crossed \in BOOLEAN
<1>1. Tables /\ cancels' \in CancelMap
  BY TasksKept, RequestsMove
<1>2. ViewType
  BY DEF TypeOK, CallMap
<1>3. NoImage \in Image /\ "queued" \in Status /\ "cancelled" \in Status /\ "cancelled" \in Terminal
  BY DEF NoImage, Image, Status, Terminal, Waiting
<1>4. \A t \in Calls, s \in Status : [task |-> t, status |-> s] \in Image
  BY DEF Image
<1>5. \A g \in Calls, s \in {"error"} \cup Terminal : [announced EXCEPT ![g] = s] \in Announcements
  BY <1>2
<1>6. ASSUME NEW s \in Terminal, Settled(s)
      PROVE  /\ loading' \in BOOLEAN /\ cancelling' \in BOOLEAN /\ waiter' \in Calls \cup {None}
             /\ timeout' \in Calls \cup {None} /\ announced' \in Announcements
  BY <1>2, <1>5, <1>6 DEF Settled
<1>7. ASSUME Quiet PROVE ViewType'
  BY <1>2, <1>7 DEF Quiet
<1>8. ASSUME NEW t \in Calls, NEW s \in Status, RealUpdate(t, s) PROVE ViewType'
  <2>1. /\ image' \in Image /\ call' \in CallMap /\ token' = token /\ crossed' = crossed
    BY <1>4, <1>8 DEF RealUpdate, Updated
  <2>2. CASE UNCHANGED <<loading, cancelling, waiter, timeout, announced>>
    BY <1>2, <2>1, <2>2
  <2>3. CASE s \in Terminal /\ Settled(s)
    BY <1>2, <1>6, <2>1, <2>3
  <2> QED BY <1>8, <2>2, <2>3 DEF RealUpdate, Updated
<1>9. ASSUME NEW k \in Cancels, CancelTold(k) PROVE ViewType'
  <2>0. cancels[k].task \in Calls
    BY <1>9 DEF CancelTold, OutcomesFinal
  <2>1. /\ image' \in Image /\ call' \in CallMap /\ token' = token
        /\ Settled("cancelled") /\ crossed' \in BOOLEAN
    BY <1>3, <1>4, <1>9, <2>0 DEF CancelTold
  <2> QED BY <1>2, <1>3, <1>6, <2>1
<1>10. ASSUME Invalid PROVE ViewType'
  <2>1. token' \in 0..MaxToken
    BY <1>2, <1>10, ViewAssumption DEF Invalid
  <2> QED BY <1>2, <1>10, <2>1 DEF Invalid
<1>11. ASSUME Reset PROVE ViewType'
  BY <1>2, <1>3, <1>11, ResetFacts DEF Reset
<1>12. ASSUME NEW g \in Calls, Generate(g) PROVE ViewType'
  BY <1>2, <1>3, <1>12, GenerateFacts DEF Generate
<1>13. ASSUME NEW g \in Calls, SubmitFails(g) PROVE ViewType'
  <2>1. image' = image /\ token' = token /\ crossed' = crossed
    BY <1>13 DEF SubmitFails, view
  <2> QED BY <1>2, <1>5, <1>13, <2>1, SubmitFailsFacts
<1>14. ASSUME NEW g \in Calls, Submitted(g) PROVE ViewType'
  <2>1. image' \in Image /\ crossed' \in BOOLEAN
    BY <1>3, <1>4, <1>14 DEF Submitted
  <2> QED BY <1>2, <1>14, <2>1, SubmittedFacts DEF Submitted
<1>15. ASSUME NEW g \in Calls, TimeoutFires(g) PROVE ViewType'
  <2>1. image' = image /\ token' = token /\ crossed' = crossed
    BY <1>15 DEF TimeoutFires
  <2> QED BY <1>2, <1>5, <1>15, <2>1, TimeoutFacts
<1>16. ViewType'
  <2> HIDE DEF ViewType
  <2> QED BY <1>7, <1>8, <1>9, <1>10, <1>11, <1>12, <1>13, <1>14, <1>15, StepCases DEF Other
<1> QED BY <1>1, <1>16 DEF Tables, TypeOK, CallMap, CancelMap

-----------------------------------------------------------------------------
(***************************************************************************)
(* The tokens.                                                             *)
(***************************************************************************)
\* A step that makes no call keeps the tokens of those there are.
LEMMA TokensKept ==
    ASSUME TypeOK, TypeOK', CallTokens, token' >= token,
           \A h \in Calls : /\ call'[h].token = call[h].token
                            /\ call'[h].pc \in {"sent", "accepted"} => call[h].pc \in {"sent", "accepted"}
    PROVE  CallTokens'
<1>1. token \in Nat /\ token' \in Nat
  BY DEF TypeOK
<1>2. \A h \in Calls : call[h].token \in Nat
  BY DEF TypeOK, Call
<1>3. \A h \in Calls : call'[h].token <= token'
  BY <1>1, <1>2 DEF CallTokens
<1> QED BY <1>3 DEF CallTokens

LEMMA CallTokensNext == TypeOK /\ TypeOK' /\ OutcomesFinal /\ CallTokens /\ [Next]_vars => CallTokens'
<1> SUFFICES ASSUME TypeOK, TypeOK', OutcomesFinal, CallTokens, [Next]_vars PROVE CallTokens'
  OBVIOUS
<1>0. token \in Nat /\ \A h \in Calls : call[h].token \in Nat
  BY DEF TypeOK, Call
<1>1. CASE Quiet
  BY <1>0, <1>1, TokensKept DEF Quiet, QuietCall
<1>2. ASSUME NEW t \in Calls, NEW s \in Status, RealUpdate(t, s) PROVE CallTokens'
  BY <1>0, <1>2, TokensKept DEF RealUpdate, Updated, CallKept
<1>3. ASSUME NEW k \in Cancels, CancelTold(k) PROVE CallTokens'
  BY <1>0, <1>3, TokensKept DEF CancelTold, CallKept
<1>4. CASE Invalid
  BY <1>0, <1>4, TokensKept DEF Invalid
<1>5. CASE Reset
  BY <1>0, <1>5, ResetFacts, TokensKept DEF Keeps
<1>6. ASSUME NEW g \in Calls, SubmitFails(g) PROVE CallTokens'
  <2>1. token' = token
    BY <1>6 DEF SubmitFails
  <2> QED BY <1>0, <1>6, <2>1, SubmitFailsFacts, TokensKept DEF Keeps
<1>7. ASSUME NEW g \in Calls, Submitted(g) PROVE CallTokens'
  <2>1. token' = token
    BY <1>7 DEF Submitted
  <2> QED BY <1>0, <1>7, <2>1, SubmittedFacts, TokensKept
<1>8. ASSUME NEW g \in Calls, TimeoutFires(g) PROVE CallTokens'
  <2>1. token' = token
    BY <1>8 DEF TimeoutFires
  <2> QED BY <1>0, <1>8, <2>1, TimeoutFacts, TokensKept DEF Keeps
<1>9. ASSUME NEW g \in Calls, Generate(g) PROVE CallTokens'
  <2>1. token' = token + 1 /\ call'[g].token = token + 1
    BY <1>9, GenerateFacts
  <2>2. \A h \in Calls : /\ h # g => call'[h].token = call[h].token
                         /\ h # g /\ call'[h].pc \in {"sent", "accepted"} => call'[h].pc = call[h].pc
    BY <1>9, GenerateFacts
  <2>3. \A h \in Calls : call[h].token <= token
    BY DEF CallTokens
  <2>4. \A h \in Calls : call'[h].token <= token'
    BY <1>0, <2>1, <2>2, <2>3
  <2>5. \A h \in Calls \ {g} : call'[h].token # call'[g].token
    BY <1>0, <2>1, <2>2, <2>3
  <2> QED BY <1>0, <2>1, <2>2, <2>4, <2>5 DEF CallTokens
<1> QED BY <1>1, <1>2, <1>3, <1>4, <1>5, <1>6, <1>7, <1>8, <1>9, StepCases DEF Other

LEMMA TokensDifferNext == TypeOK /\ TypeOK' /\ OutcomesFinal /\ TokensDiffer /\ [Next]_vars => TokensDiffer'
<1> SUFFICES ASSUME TypeOK, TypeOK', OutcomesFinal, TokensDiffer, [Next]_vars PROVE TokensDiffer'
  OBVIOUS
<1>1. token \in Nat /\ token' \in Nat /\ token <= token'
  <2>1. token' = token \/ token' = token + 1
    BY StepCases DEF Quiet, RealUpdate, Updated, CancelTold, Other, Invalid, Reset, Generate,
                     SubmitFails, Submitted, TimeoutFires
  <2> QED BY <2>1 DEF TypeOK
<1>2. ASSUME NEW k \in Cancels PROVE cancels'[k].at <= token'
  <2>1. cancels[k].at \in Nat /\ cancels[k].at <= token
    BY DEF TypeOK, CancelCall, TokensDiffer
  <2>2. cancels'[k].at \in {cancels[k].at, 0, token}
    BY RequestsMove DEF QuietCancel, NoCancel
  <2> QED BY <1>1, <2>1, <2>2
<1> QED BY <1>2, CallTokensNext DEF TokensDiffer

-----------------------------------------------------------------------------
(***************************************************************************)
(* What waits, what is shown and what is being cancelled.                  *)
(***************************************************************************)
ViewInv == EmptyWhileSubmitting /\ TimeoutOfWaiter /\ CancelOfWaiter /\ Watched

TypedCalls == /\ token \in Nat /\ waiter \in Calls \cup {None}
              /\ \A h \in Calls : call[h].token \in Nat
              /\ \A k \in Cancels : cancels[k].at \in Nat

LEMMA TypedCallsHold == TypeOK => TypedCalls
BY DEF TypeOK, Call, CancelCall, TypedCalls

\* No step makes a call current, but Generate.
LEMMA SubmittingKept ==
    ASSUME NEW h \in Calls, call'[h].token = call[h].token, token' = token,
           call'[h].pc \in {"sent", "accepted"} => call[h].pc \in {"sent", "accepted"}
    PROVE  Submitting(h)' => Submitting(h)
BY DEF Submitting

\* Once the token is raised, nothing that was there before is current.
LEMMA TokenRaised ==
    ASSUME TypeOK, TokensDiffer, token' = token + 1, NEW h \in Calls
    PROVE  /\ call'[h].token = call[h].token => ~Submitting(h)'
           /\ UNCHANGED cancels => ~Cancelling(h)'
BY TypedCallsHold DEF TokensDiffer, CallTokens, TypedCalls, Submitting, Cancelling

\* One call is submitted at a time.
LEMMA OneSubmitting ==
    ASSUME TokensDiffer, NEW g \in Calls, NEW h \in Calls, Submitting(g), Submitting(h)
    PROVE  g = h
BY DEF TokensDiffer, CallTokens, Submitting

\* A cancel that is over was not begun under the current token.
LEMMA CancelsKept ==
    ASSUME token' = token, \A k \in Cancels : cancels'[k] \in {cancels[k], NoCancel}, NEW h \in Calls
    PROVE  Cancelling(h)' => Cancelling(h)
BY DEF Cancelling, NoCancel

LEMMA QuietView ==
    ASSUME TypeOK, ViewInv, Quiet
    PROVE  ViewInv'
<1>1. /\ token' = token /\ loading' = loading /\ image' = image /\ waiter' = waiter
      /\ timeout' = timeout /\ crossed' = crossed /\ \A h \in Calls : QuietCall(h)
  BY DEF Quiet
<1>2. \A h \in Calls : Submitting(h)' => Submitting(h)
  BY <1>1 DEF QuietCall, Submitting
<1>3. ASSUME NEW h \in Calls, Cancelling(h)' PROVE Cancelling(h) \/ Shown(h)
  <2>1. PICK k \in Cancels : /\ cancels'[k].pc # "off" /\ cancels'[k].task = h
                             /\ cancels'[k].at = token
    BY <1>1, <1>3 DEF Cancelling
  <2>2. QuietCancel(k)
    BY DEF Quiet
  <2> QED BY <2>1, <2>2 DEF QuietCancel, Cancelling, Shown, NoCancel
<1>4. EmptyWhileSubmitting'
  BY <1>1, <1>2, <1>3, NoneIsNoCall DEF ViewInv, EmptyWhileSubmitting, Shown
<1>5. TimeoutOfWaiter'
  BY <1>1 DEF ViewInv, TimeoutOfWaiter
<1>6. CancelOfWaiter'
  BY <1>1, <1>3 DEF ViewInv, CancelOfWaiter, Watched, Shown
<1>7. Watched'
  <2> SUFFICES ASSUME waiter # None, ~crossed PROVE Watched'
    BY <1>1 DEF Watched
  <2>1. /\ loading /\ Shown(waiter) /\ timeout = waiter
        /\ call[waiter].pc = "waiting" /\ call[waiter].poll # "off"
        /\ call[waiter].token = token /\ waiter \in Calls
    BY DEF ViewInv, Watched, TypeOK
  <2>2. QuietCall(waiter) /\ Current(waiter)
    BY <1>1, <2>1 DEF Current
  <2> QED BY <1>1, <2>1, <2>2 DEF QuietCall, Watched, Shown
<1> QED BY <1>4, <1>5, <1>6, <1>7 DEF ViewInv

\* While a task is shown or waits, no call is submitted: what the step leaves
\* must only fit what waits.
LEMMA NothingSubmitting ==
    ASSUME ViewInv, ~crossed, image.task \in Calls \/ waiter # None \/ \E t \in Calls : Cancelling(t)
    PROVE  \A h \in Calls : ~Submitting(h)
BY NoneIsNoCall DEF ViewInv, EmptyWhileSubmitting

\* A step after which nothing waits and no call is submitted.
LEMMA NothingWaits ==
    ASSUME waiter' = None, ~crossed' => timeout' = None /\ \A h \in Calls : ~Submitting(h)'
    PROVE  ViewInv'
BY DEF ViewInv, EmptyWhileSubmitting, TimeoutOfWaiter, CancelOfWaiter, Watched

LEMMA UpdateView ==
    ASSUME TypeOK, ViewInv, NEW t \in Calls, NEW s \in Status, Updated(t, s)
    PROVE  ViewInv'
<1>1. /\ token' = token /\ crossed' = crossed /\ Shown(t) /\ image' = [task |-> t, status |-> s]
      /\ (\A h \in Calls : CallKept(h)) /\ cancels' = cancels
  BY DEF Updated
<1>2. \A h \in Calls : (Submitting(h)' => Submitting(h)) /\ (Cancelling(h)' => Cancelling(h))
  BY <1>1, SubmittingKept, CancelsKept DEF CallKept
<1>3. ~crossed => \A h \in Calls : ~Submitting(h)
  BY <1>1, NothingSubmitting DEF Shown
<1>4. CASE Settled(s)
  <2>1. ~crossed => timeout' = None
    BY <1>4 DEF Settled, ViewInv, TimeoutOfWaiter
  <2> QED BY <1>1, <1>2, <1>3, <1>4, <2>1, NothingWaits DEF Settled
<1>5. CASE /\ UNCHANGED <<loading, cancelling, waiter, timeout, announced>>
           /\ \A h \in Calls : /\ call'[h].pc = call[h].pc
                               /\ loading /\ Current(h) /\ call[h].poll # "off" => call'[h].poll # "off"
  <2>1. EmptyWhileSubmitting'
    BY <1>1, <1>2, <1>3 DEF EmptyWhileSubmitting
  <2>2. TimeoutOfWaiter'
    BY <1>1, <1>5 DEF ViewInv, TimeoutOfWaiter
  <2>3. CancelOfWaiter'
    BY <1>1, <1>2, <1>5 DEF ViewInv, CancelOfWaiter
  <2>4. Watched'
    <3> SUFFICES ASSUME waiter # None, ~crossed PROVE Watched'
      BY <1>1, <1>5 DEF Watched
    <3>1. /\ loading /\ Shown(waiter) /\ timeout = waiter
          /\ call[waiter].pc = "waiting" /\ call[waiter].poll # "off"
          /\ call[waiter].token = token /\ waiter \in Calls
      BY DEF ViewInv, Watched, TypeOK
    <3>2. t = waiter /\ Current(waiter) /\ CallKept(waiter)
      BY <1>1, <3>1 DEF Current, Shown
    <3>3. Shown(waiter)'
      BY <1>1, <1>5, <3>2 DEF Shown
    <3> QED BY <1>1, <1>5, <3>1, <3>2, <3>3 DEF CallKept, Watched
  <2> QED BY <2>1, <2>2, <2>3, <2>4 DEF ViewInv
<1> QED BY <1>4, <1>5 DEF Updated

LEMMA CancelView ==
    ASSUME TypeOK, ViewInv, NEW k \in Cancels, CancelTold(k), OutcomesFinal
    PROVE  ViewInv'
<1>1. /\ token' = token /\ crossed' = (crossed \/ cancels[k].at # token)
      /\ cancels[k].pc = "cancelled" /\ cancels[k].task \in Calls
      /\ Settled("cancelled") /\ \A h \in Calls : CallKept(h)
  BY DEF CancelTold, OutcomesFinal
<1>2. \A h \in Calls : Submitting(h)' => Submitting(h)
  BY <1>1, SubmittingKept DEF CallKept
<1>3. ~crossed' => ~crossed /\ Cancelling(cancels[k].task)
  BY <1>1 DEF Cancelling
<1>4. ~crossed' => \A h \in Calls : ~Submitting(h)
  BY <1>1, <1>3, NothingSubmitting
<1>5. ~crossed' => timeout' = None
  BY <1>1, <1>3 DEF Settled, ViewInv, TimeoutOfWaiter
<1> QED BY <1>1, <1>2, <1>4, <1>5, NothingWaits DEF Settled

LEMMA InvalidView ==
    ASSUME TypeOK, TokensDiffer, ViewInv, Invalid
    PROVE  ViewInv'
<1>1. /\ ~loading /\ token' = token + 1 /\ crossed' = crossed /\ waiter' = waiter
      /\ timeout' = timeout /\ call' = call
  BY DEF Invalid
<1>2. ~crossed => waiter = None
  BY <1>1 DEF ViewInv, Watched
<1>3. \A h \in Calls : ~Submitting(h)'
  BY <1>1, TokenRaised
<1> QED BY <1>1, <1>2, <1>3 DEF ViewInv, EmptyWhileSubmitting, TimeoutOfWaiter, CancelOfWaiter, Watched

LEMMA ResetView ==
    ASSUME TypeOK, TokensDiffer, ViewInv, Reset
    PROVE  ViewInv'
<1>1. token' = token + 1 /\ waiter' = None /\ timeout' = None /\ Keeps(call, call')
  BY ResetFacts
<1>2. \A h \in Calls : ~Submitting(h)'
  BY <1>1, TokenRaised DEF Keeps
<1> QED BY <1>1, <1>2, NothingWaits

LEMMA GenerateView ==
    ASSUME TypeOK, TokensDiffer, ViewInv, NEW g \in Calls, Generate(g)
    PROVE  ViewInv'
<1>1. token' = token + 1 /\ waiter' = None /\ timeout' = None /\ cancels' = cancels
  BY GenerateFacts DEF Generate
<1>2. \A h \in Calls : ~Cancelling(h)'
  BY <1>1, TokenRaised
<1>3. loading' = TRUE /\ image'.task = None
  BY DEF Generate, NoImage
<1> QED BY <1>1, <1>2, <1>3 DEF ViewInv, EmptyWhileSubmitting, TimeoutOfWaiter, CancelOfWaiter, Watched

LEMMA SubmitFailsView ==
    ASSUME TypeOK, TokensDiffer, ViewInv, NEW g \in Calls, SubmitFails(g)
    PROVE  ViewInv'
<1>1. /\ token' = token /\ crossed' = crossed /\ cancels' = cancels /\ call[g].pc \in {"sent", "accepted"}
      /\ Keeps(call, call') /\ call'[g].pc = "ended"
      /\ (waiter' = waiter /\ timeout' = timeout) \/ (waiter' = None /\ timeout' = None)
  BY SubmitFailsFacts DEF SubmitFails
<1>2. \A h \in Calls : /\ Submitting(h)' => Submitting(h) /\ h # g
                       /\ Cancelling(h)' => Cancelling(h)
  BY <1>1 DEF Keeps, Submitting, Cancelling
<1>3. CASE call[g].token # token
  <2>1. UNCHANGED view /\ \A h \in Calls \ {g} : call'[h] = call[h]
    BY <1>3, SubmitFailsFacts
  <2>2. EmptyWhileSubmitting'
    BY <1>1, <1>2, <2>1 DEF ViewInv, EmptyWhileSubmitting, view
  <2>3. TimeoutOfWaiter' /\ CancelOfWaiter'
    BY <1>1, <1>2, <2>1 DEF ViewInv, TimeoutOfWaiter, CancelOfWaiter, view
  <2>4. Watched'
    <3> SUFFICES ASSUME waiter # None, ~crossed PROVE Watched'
      BY <1>1, <2>1 DEF Watched, view
    <3>1. waiter \in Calls /\ call[waiter].pc = "waiting"
      BY DEF ViewInv, Watched, TypeOK
    <3>2. call'[waiter] = call[waiter]
      BY <1>1, <2>1, <3>1
    <3> QED BY <1>1, <2>1, <3>2 DEF ViewInv, Watched, view, Shown
  <2> QED BY <2>2, <2>3, <2>4 DEF ViewInv
<1>4. CASE call[g].token = token
  <2>1. Submitting(g)
    BY <1>1, <1>4 DEF Submitting
  <2>2. \A h \in Calls : ~Submitting(h)'
    BY <1>2, <2>1, OneSubmitting
  <2>3. ~crossed => waiter = None /\ timeout = None
    BY <2>1 DEF ViewInv, EmptyWhileSubmitting, TimeoutOfWaiter
  <2>4. CASE crossed
    BY <1>1, <2>4 DEF ViewInv, EmptyWhileSubmitting, TimeoutOfWaiter, CancelOfWaiter, Watched
  <2>5. CASE ~crossed
    BY <1>1, <2>2, <2>3, <2>5, NothingWaits
  <2> QED BY <2>4, <2>5
<1> QED BY <1>3, <1>4

LEMMA SubmittedView ==
    ASSUME TypeOK, TokensDiffer, ViewInv, NEW g \in Calls, Submitted(g)
    PROVE  ViewInv'
<1>1. /\ call[g].pc = "accepted" /\ crossed' = (crossed \/ call[g].token # token)
      /\ image' = [task |-> g, status |-> "queued"]
      /\ waiter' = g /\ timeout' = g /\ token' = token /\ loading' = loading
      /\ cancels' = cancels
  BY DEF Submitted
<1>2. /\ call'[g].pc = "waiting" /\ call'[g].poll = "timer"
      /\ \A h \in Calls : /\ call'[h].token = call[h].token
                          /\ h # g => call'[h].pc = call[h].pc
  BY SubmittedFacts
<1> SUFFICES ASSUME ~crossed' PROVE ViewInv'
  BY DEF ViewInv, EmptyWhileSubmitting, TimeoutOfWaiter, CancelOfWaiter, Watched
<1>3. ~crossed /\ call[g].token = token /\ Submitting(g)
  BY <1>1 DEF Submitting
<1>4. loading /\ \A h \in Calls : ~Cancelling(h)
  BY <1>3 DEF ViewInv, EmptyWhileSubmitting
<1>5. \A h \in Calls : Submitting(h)' => h # g /\ Submitting(h)
  BY <1>1, <1>2 DEF Submitting
<1>6. \A h \in Calls : ~Submitting(h)'
  BY <1>3, <1>5, OneSubmitting
<1>7. \A h \in Calls : ~Cancelling(h)'
  BY <1>1, <1>2, <1>4 DEF Cancelling
<1>8. Watched'
  BY <1>1, <1>2, <1>3, <1>4 DEF Watched, Shown
<1> QED BY <1>1, <1>6, <1>7, <1>8 DEF ViewInv, EmptyWhileSubmitting, TimeoutOfWaiter, CancelOfWaiter

LEMMA TimeoutView ==
    ASSUME TypeOK, TokensDiffer, ViewInv, NEW g \in Calls, TimeoutFires(g)
    PROVE  ViewInv'
<1>1. token' = token /\ crossed' = crossed /\ timeout = g
  BY DEF TimeoutFires
<1>2. /\ Keeps(call, call') /\ timeout' = None
      /\ call[g].token = token => waiter' = None
  BY TimeoutFacts
<1> SUFFICES ASSUME ~crossed PROVE ViewInv'
  BY <1>1 DEF ViewInv, EmptyWhileSubmitting, TimeoutOfWaiter, CancelOfWaiter, Watched
<1>3. waiter = g /\ waiter # None
  BY <1>1, NoneIsNoCall DEF ViewInv, TimeoutOfWaiter
<1>4. call[g].token = token
  BY <1>3 DEF ViewInv, Watched
<1>5. \A h \in Calls : Submitting(h)' => Submitting(h)
  BY <1>1, <1>2, SubmittingKept DEF Keeps
<1>6. \A h \in Calls : ~Submitting(h)
  BY <1>3, NothingSubmitting
<1> QED BY <1>2, <1>4, <1>5, <1>6, NothingWaits

LEMMA ViewNext == TypeOK /\ OutcomesFinal /\ TokensDiffer /\ ViewInv /\ [Next]_vars => ViewInv'
<1> SUFFICES ASSUME TypeOK, OutcomesFinal, TokensDiffer, ViewInv, [Next]_vars PROVE ViewInv'
  OBVIOUS
<1>1. ASSUME NEW t \in Calls, NEW s \in Status, RealUpdate(t, s) PROVE ViewInv'
  BY <1>1, UpdateView DEF RealUpdate
<1>2. CASE Other
  BY <1>2, InvalidView, ResetView, GenerateView, SubmitFailsView, SubmittedView, TimeoutView DEF Other
<1> QED BY <1>1, <1>2, QuietView, CancelView, StepCases

-----------------------------------------------------------------------------
(***************************************************************************)
(* What the user is told.                                                  *)
(***************************************************************************)
\* Whoever is told the outcome of a task waits for that task.
LEMMA ToldKeeps ==
    ASSUME TypeOK, AnnouncedIsReal, NEW s \in Terminal, Settled(s), \A t \in Calls : TaskKept(t),
           crossed => crossed',
           ~crossed' /\ waiter # None => status[waiter] = s
    PROVE  AnnouncedIsReal'
<1> SUFFICES ASSUME NEW g \in Calls, announced'[g] \in Terminal, ~crossed'
             PROVE  announced'[g] = status'[g]
  BY DEF AnnouncedIsReal
<1>1. ~crossed /\ (status[g] \in Terminal => status'[g] = status[g])
  BY DEF TaskKept
<1>2. announced \in [Calls -> {"nothing", "error"} \cup Terminal]
  BY DEF TypeOK
<1>3. CASE announced'[g] = announced[g]
  BY <1>1, <1>3 DEF AnnouncedIsReal
<1>4. CASE announced'[g] # announced[g]
  <2>1. waiter = g /\ announced'[g] = s /\ waiter # None
    BY <1>2, <1>4, NoneIsNoCall DEF Settled
  <2> QED BY <1>1, <2>1
<1> QED BY <1>3, <1>4

LEMMA NothingTold ==
    ASSUME TypeOK, AnnouncedIsReal, \A t \in Calls : TaskKept(t), crossed => crossed',
           \A g \in Calls : announced'[g] \in {announced[g], "error"}
    PROVE  AnnouncedIsReal'
<1>1. "error" \notin Terminal
  BY DEF Terminal
<1> QED BY <1>1 DEF AnnouncedIsReal, TaskKept

LEMMA AnnouncedNext ==
    TypeOK /\ OutcomesFinal /\ ViewInv /\ AnnouncedIsReal /\ [Next]_vars => AnnouncedIsReal'
<1> SUFFICES ASSUME TypeOK, OutcomesFinal, ViewInv, AnnouncedIsReal, [Next]_vars PROVE AnnouncedIsReal'
  OBVIOUS
<1>0. /\ \A t \in Calls : TaskKept(t)
      /\ announced \in [Calls -> {"nothing", "error"} \cup Terminal]
  BY TasksKept DEF TypeOK
<1>1. CASE Quiet
  BY <1>0, <1>1, NothingTold DEF Quiet
<1>2. ASSUME NEW t \in Calls, NEW s \in Status, RealUpdate(t, s) PROVE AnnouncedIsReal'
  <2>1. /\ crossed' = crossed /\ Shown(t) /\ (s \in Terminal => status[t] = s)
        /\ UNCHANGED announced \/ (s \in Terminal /\ Settled(s))
    BY <1>2 DEF RealUpdate, Updated
  <2>2. CASE UNCHANGED announced
    BY <1>0, <2>1, <2>2, NothingTold
  <2>3. CASE s \in Terminal /\ Settled(s)
    <3>1. ~crossed /\ waiter # None => waiter = t
      BY <2>1 DEF ViewInv, Watched, Shown
    <3> QED BY <1>0, <2>1, <2>3, <3>1, ToldKeeps
  <2> QED BY <2>1, <2>2, <2>3
<1>3. ASSUME NEW k \in Cancels, CancelTold(k) PROVE AnnouncedIsReal'
  <2>1. /\ crossed' = (crossed \/ cancels[k].at # token) /\ cancels[k].pc = "cancelled"
        /\ Settled("cancelled") /\ "cancelled" \in Terminal
    BY <1>3 DEF CancelTold, Terminal
  <2>2. cancels[k].task \in Calls /\ status[cancels[k].task] = "cancelled"
    BY <2>1 DEF OutcomesFinal
  <2>3. ~crossed' /\ waiter # None => waiter = cancels[k].task
    BY <2>1, <2>2 DEF ViewInv, CancelOfWaiter, Cancelling
  <2> QED BY <1>0, <2>1, <2>2, <2>3, ToldKeeps
<1>4. CASE Other
  <2>1. crossed => crossed'
    BY <1>4 DEF Other, Invalid, Reset, Generate, SubmitFails, Submitted, TimeoutFires
  <2>2. ASSUME NEW g \in Calls, SubmitFails(g) \/ TimeoutFires(g)
        PROVE  \A h \in Calls : announced'[h] \in {announced[h], "error"}
    BY <1>0, <2>2, SubmitFailsFacts, TimeoutFacts
  <2>3. ASSUME UNCHANGED announced PROVE \A h \in Calls : announced'[h] \in {announced[h], "error"}
    BY <2>3
  <2>4. \A h \in Calls : announced'[h] \in {announced[h], "error"}
    BY <1>4, <2>2, <2>3 DEF Other, Invalid, Reset, Generate, Submitted, view
  <2> QED BY <1>0, <2>1, <2>4, NothingTold
<1> QED BY <1>1, <1>2, <1>3, <1>4, StepCases

-----------------------------------------------------------------------------
(***************************************************************************)
(* The theorems.                                                           *)
(***************************************************************************)
LEMMA InvInit == Init => IInv
<1> SUFFICES ASSUME Init PROVE IInv
  OBVIOUS
<1>1. /\ \A g \in Calls : /\ call[g] = Idle /\ announced[g] = "nothing"
                           /\ status[g] = "absent" /\ told[g] = {}
      /\ \A k \in Cancels : cancels[k] = NoCancel
  BY DEF Init
<1>2. TypeOK
  <2>1. Idle \in Call /\ NoCancel \in CancelCall /\ NoImage \in Image /\ "absent" \in Status
    BY ViewAssumption DEF Idle, Call, NoCancel, CancelCall, Image, NoImage, Status
  <2>2. call \in [Calls -> Call] /\ cancels \in [Cancels -> CancelCall] /\ status \in [Calls -> Status]
    BY <2>1 DEF Init
  <2>3. told \in [Calls -> SUBSET Status] /\ announced \in [Calls -> {"nothing", "error"} \cup Terminal]
    BY DEF Init
  <2>4. token \in 0..MaxToken
    BY ViewAssumption DEF Init
  <2> QED BY <2>1, <2>2, <2>3, <2>4 DEF Init, TypeOK
<1>3. "absent" \notin Terminal /\ "nothing" \notin Terminal
  BY DEF Terminal
<1>4. OutcomesFinal /\ TokensDiffer /\ AnnouncedIsReal
  BY <1>1, <1>3 DEF Init, OutcomesFinal, TokensDiffer, CallTokens, AnnouncedIsReal, Idle, NoCancel
<1>5. EmptyWhileSubmitting /\ TimeoutOfWaiter /\ CancelOfWaiter /\ Watched
  BY <1>1 DEF Init, EmptyWhileSubmitting, TimeoutOfWaiter, CancelOfWaiter, Watched, Submitting,
                    Cancelling, Idle, NoCancel
<1> QED BY <1>2, <1>4, <1>5 DEF IInv

LEMMA InvNext == IInv /\ [Next]_vars => IInv'
BY TypeNext, OutcomesFinalNext, TokensDifferNext, ViewNext, AnnouncedNext DEF IInv, ViewInv

LEMMA InvHolds == Spec => []IInv
<1> QED BY InvInit, InvNext, PTL DEF Spec

\* The state of the view keeps its type, whatever the answers and the updates.
THEOREM TypeCorrect == Spec => []TypeOK
<1>1. IInv => TypeOK
  BY DEF IInv
<1> QED BY <1>1, InvHolds, PTL

\* What the user is told of a submission (resolveTaskWaiter and the rest of
\* handleGenerate) is what became of its task, however late, repeated or out of
\* order the updates are, unless an answer came to a view that had moved on.
THEOREM OutcomesReal == Spec => []AnnouncedIsReal
<1>1. IInv => AnnouncedIsReal
  BY DEF IInv
<1> QED BY <1>1, InvHolds, PTL

\* A call that waits (waitForTaskCompletion) is the current one, shows its task,
\* keeps its timeout and is never left without a poll, with the same exception.
THEOREM WaitsWatched == Spec => []Watched
<1>1. IInv => Watched
  BY DEF IInv
<1> QED BY <1>1, InvHolds, PTL
=============================================================================
