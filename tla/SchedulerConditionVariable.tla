--------------------- MODULE SchedulerConditionVariable ---------------------
(***************************************************************************)
(* SchedulerConditionVariable: every waiter makes a semaphore of its own   *)
(* on its stack, puts a pointer to it in waitingQueue (here waiters),      *)
(* releases the mutex and waits on the semaphore; Notify_One, Notify_All   *)
(* and CancelWaiters take pointers out of the queue and use them outside   *)
(* the queue lock.                                                         *)
(*                                                                         *)
(* The outer mutex is its contract (one owner at a time, SchedulerMutex    *)
(* has the rest).  The local semaphore has at most one waiter, so its      *)
(* queue is a flag; its operations keep the steps of SchedulerSemaphore.   *)
(***************************************************************************)
EXTENDS WaitPrimitive

CONSTANT Notifiers   \* whoever calls Notify_One and Notify_All

VARIABLES
  owner,   \* the fiber that holds the outer mutex
  frame,   \* fibers inside Wait, whose local semaphore exists
  sem,     \* the local semaphores: permits and a waiter or none
  note     \* each notifier: the semaphores it still has to signal

cvVars == <<owner, frame, sem, note>>
queueVars == <<waiters, cancelled, result, canc, swept>>
vars == <<fiberVars, queueVars, pc, cvVars>>

FreshSem == [permits |-> 0, waiting |-> FALSE]
Idle == [step |-> "none", sems |-> <<>>]

Points == {"body", "cs", "looked", "pushed", "semwait", "semlooked", "queued",
           "remove", "relock"}

TypeOK ==
  /\ WaitTypeOK
  /\ pc \in [Callers -> Points]
  /\ owner \in Fibers \cup {NoTask}
  /\ frame \subseteq Fibers
  /\ sem \in [Fibers -> [permits : 0..1, waiting : BOOLEAN]]
  /\ note \in [Notifiers -> [step : {"none", "signal", "resume", "relock"},
                             sems : Seq(Fibers)]]

Init ==
  /\ WaitInit
  /\ owner = NoTask
  /\ frame = {}
  /\ sem = [f \in Fibers |-> FreshSem]
  /\ note = [n \in Notifiers |-> Idle]

-----------------------------------------------------------------------------
(* The waiter *)

Lock(f) ==
  /\ At(f, "body") /\ owner = NoTask
  /\ owner' = f
  /\ Goto(f, "cs")
  /\ UNCHANGED <<fiberVars, queueVars, frame, sem, note>>

Unlock(f) ==
  /\ At(f, "cs")
  /\ owner' = NoTask
  /\ Goto(f, "body")
  /\ UNCHANGED <<fiberVars, queueVars, frame, sem, note>>

\* The local semaphore (0, 1) and its pointer in the queue.
PushWaiter(f) ==
  /\ frame' = frame \cup {f}
  /\ sem' = [sem EXCEPT ![f] = FreshSem]
  /\ waiters' = Append(waiters, f)
  /\ Goto(f, "pushed")

Wait(f) ==
  /\ f \notin Cancellable /\ At(f, "cs")
  /\ PushWaiter(f)
  /\ UNCHANGED <<fiberVars, owner, cancelled, result, note, canc, swept>>

\* WaitCancellable's look at the task before the queue lock: a cancelled
\* one returns with the mutex held and nothing changed.
WaitCancellable(f) ==
  /\ f \in Cancellable /\ At(f, "cs") /\ f \notin cancelled
  /\ Goto(f, "looked")
  /\ UNCHANGED <<fiberVars, cvVars, queueVars>>

\* The second look, under the queue lock.
WaitCancellablePush(f) ==
  /\ At(f, "looked")
  /\ \/ f \in cancelled /\ Goto(f, "cs") /\ UNCHANGED <<waiters, frame, sem>>
     \/ f \notin cancelled /\ PushWaiter(f)
  /\ UNCHANGED <<fiberVars, owner, cancelled, result, note, canc, swept>>

ReleaseMutex(f) ==
  /\ At(f, "pushed")
  /\ owner' = NoTask
  /\ Goto(f, "semwait")
  /\ UNCHANGED <<fiberVars, queueVars, frame, sem, note>>

\* Under the local semaphore's spinLock: an early signal's permit, or park.
SemTake(f) ==
  /\ sem[f].permits > 0
  /\ sem' = [sem EXCEPT ![f].permits = @ - 1]
  /\ Goto(f, "relock")
  /\ UNCHANGED <<status, result>>

\* Faulty variant: returns without having been signalled.
SemParkSpurious(f) ==
  /\ sem[f].permits = 0
  /\ Goto(f, "relock")
  /\ UNCHANGED <<status, sem, result>>

SemPark(f) ==
  /\ sem[f].permits = 0
  /\ status' = [status EXCEPT ![f] = "WANTS_SUSPEND"]
  /\ sem' = [sem EXCEPT ![f].waiting = TRUE]
  /\ Goto(f, "queued")
  /\ result' = result

SemWait(f) ==
  /\ f \notin Cancellable /\ At(f, "semwait")
  /\ SemTake(f) \/ SemPark(f)
  /\ UNCHANGED <<stack, queued, owner, waiters, frame, cancelled, note, canc,
                 swept>>

SemCancelled(f) ==
  /\ f \in cancelled
  /\ result' = [result EXCEPT ![f] = "Cancelled"]
  /\ Goto(f, "remove")
  /\ UNCHANGED <<status, sem>>

SemWaitCancellable(f) ==
  /\ f \in Cancellable /\ At(f, "semwait")
  /\ \/ SemCancelled(f)
     \/ /\ f \notin cancelled
        /\ result' = [result EXCEPT ![f] = "Ok"]
        /\ Goto(f, "semlooked")
        /\ UNCHANGED <<status, sem>>
  /\ UNCHANGED <<stack, queued, owner, waiters, frame, cancelled, note, canc,
                 swept>>

SemWaitCancellableLocked(f) ==
  /\ At(f, "semlooked")
  /\ \/ SemTake(f)
     \/ sem[f].permits = 0 /\ SemCancelled(f)
     \/ f \notin cancelled /\ SemPark(f)
  /\ UNCHANGED <<stack, queued, owner, waiters, frame, cancelled, note, canc,
                 swept>>

SemWaitReturns(f) ==
  /\ Resumed(f)
  /\ Goto(f, IF f \in Cancellable /\ result[f] = "Cancelled"
             THEN "remove" ELSE "relock")
  /\ UNCHANGED <<fiberVars, cvVars, queueVars>>

\* A cancelled wait takes its own entry out of the queue, if it is there.
RemoveOwnEntry(f) ==
  /\ At(f, "remove")
  /\ waiters' = SelectSeq(waiters, LAMBDA g : g # f)
  /\ Goto(f, "relock")
  /\ UNCHANGED <<fiberVars, cvVars, cancelled, result, canc, swept>>

\* mutex.Lock(), return: the local semaphore is gone.
Return(f) ==
  /\ At(f, "relock") /\ owner = NoTask
  /\ owner' = f
  /\ frame' = frame \ {f}
  /\ Goto(f, "cs")
  /\ UNCHANGED <<fiberVars, queueVars, sem, note>>

-----------------------------------------------------------------------------
(* Notify_One, Notify_All *)

Notify_One(n) ==
  /\ note[n] = Idle /\ waiters # <<>>
  /\ note' = [note EXCEPT ![n] = [step |-> "signal", sems |-> <<Head(waiters)>>]]
  /\ waiters' = Tail(waiters)
  /\ UNCHANGED <<fiberVars, owner, frame, sem, cancelled, pc, result, canc,
                 swept>>

Notify_All(n) ==
  /\ note[n] = Idle /\ waiters # <<>>
  /\ note' = [note EXCEPT ![n] = [step |-> "signal", sems |-> waiters]]
  /\ waiters' = <<>>
  /\ UNCHANGED <<fiberVars, owner, frame, sem, cancelled, pc, result, canc,
                 swept>>

\* What is left for the notifier after the first semaphore.
NextSem(n) ==
  IF Len(note[n].sems) = 1 THEN Idle
  ELSE [step |-> "signal", sems |-> Tail(note[n].sems)]

\* Faulty variant: a signal that finds nobody parked is forgotten.
StoreNoPermit(n) ==
  /\ sem' = sem
  /\ note' = [note EXCEPT ![n] = NextSem(n)]

StoreSemPermit(n) ==
  /\ sem' = [sem EXCEPT ![Head(note[n].sems)].permits = 1]
  /\ note' = [note EXCEPT ![n] = NextSem(n)]

\* Signal's critical section: pop the waiter, or store the permit.
SemSignal(n) ==
  /\ note[n].step = "signal"
  /\ LET f == Head(note[n].sems) IN
     \/ /\ sem[f].waiting
        /\ sem' = [sem EXCEPT ![f].waiting = FALSE]
        /\ note' = [note EXCEPT ![n].step = "resume"]
     \/ ~sem[f].waiting /\ StoreSemPermit(n)
  /\ UNCHANGED <<fiberVars, owner, queueVars, frame, pc>>

\* Signal outside the lock: skip a cancelled waiter or hand it the permit.
SemSignalResume(n) ==
  /\ note[n].step = "resume"
  /\ LET f == Head(note[n].sems)
         skip == f \in Cancellable /\ f \in cancelled
     IN /\ result' = [result EXCEPT ![f] = IF skip THEN "Cancelled" ELSE "Ok"]
        /\ Resume(f)
        /\ note' = [note EXCEPT ![n] =
                      IF skip THEN [@ EXCEPT !.step = "relock"] ELSE NextSem(n)]
  /\ UNCHANGED <<owner, waiters, frame, sem, cancelled, pc, canc, swept>>

\* After a skip Signal takes the semaphore's spinLock again and, with nobody
\* else there, stores the permit.
SemSignalRelock(n) ==
  /\ note[n].step = "relock"
  /\ StoreSemPermit(n)
  /\ UNCHANGED <<fiberVars, owner, queueVars, frame, pc>>

-----------------------------------------------------------------------------
(* CancelWaiters *)

Cancel(S) == CancelScope(S) /\ UNCHANGED cvVars

\* One pass under the queue lock.
CancelWaiters ==
  canc # NoCanc /\ CollectVictims(canc.tok, "eject") /\ UNCHANGED cvVars

\* CancelWaiters of one local semaphore: a parked cancellable waiter leaves
\* it, anything else stays as it is.
SemEject ==
  /\ canc.step = "eject"
  /\ LET f == Head(canc.victims) IN
     \/ /\ sem[f].waiting /\ f \in Cancellable
        /\ sem' = [sem EXCEPT ![f].waiting = FALSE]
        /\ canc' = [canc EXCEPT !.step = "resume"]
        /\ swept' = swept
     \/ /\ ~(sem[f].waiting /\ f \in Cancellable)
        /\ NextVictim("eject")
        /\ sem' = sem
  /\ UNCHANGED <<fiberVars, waiters, cancelled, result, pc, owner, frame,
                 note>>

SemEjectResume == ResumeVictim("eject") /\ UNCHANGED cvVars

-----------------------------------------------------------------------------
Worker(f) == (WorkerStep(f) \/ SwitchAway(f)) /\ UNCHANGED cvVars

FiberStep(f) ==
  \/ Lock(f) \/ Unlock(f) \/ Wait(f) \/ WaitCancellable(f)
  \/ WaitCancellablePush(f) \/ ReleaseMutex(f) \/ SemWait(f)
  \/ SemWaitCancellable(f) \/ SemWaitCancellableLocked(f)
  \/ SemWaitReturns(f) \/ RemoveOwnEntry(f) \/ Return(f)

NotifierStep(n) ==
  \/ Notify_One(n) \/ Notify_All(n)
  \/ SemSignal(n) \/ SemSignalResume(n) \/ SemSignalRelock(n)

CancelStep == CancelWaiters \/ SemEject \/ SemEjectResume

Next ==
  \/ \E f \in Fibers : FiberStep(f) \/ Worker(f)
  \/ \E n \in Notifiers : NotifierStep(n)
  \/ \E S \in SUBSET Cancellable \ {{}} : Cancel(S)
  \/ CancelStep

Spec == Init /\ [][Next]_vars

\* Fibers that can run do, the mutex is fair, calls in progress finish.
\* Nothing obliges anyone to wait, to notify or to cancel.
FiberMust(f) ==
  \/ Worker(f) \/ Unlock(f) \/ WaitCancellablePush(f) \/ ReleaseMutex(f)
  \/ SemWait(f) \/ SemWaitCancellable(f) \/ SemWaitCancellableLocked(f)
  \/ SemWaitReturns(f) \/ RemoveOwnEntry(f)

NotifierMust(n) == SemSignal(n) \/ SemSignalResume(n) \/ SemSignalRelock(n)

Fairness ==
  /\ \A f \in Fibers : WF_vars(FiberMust(f)) /\ SF_vars(Return(f))
  /\ \A n \in Notifiers : WF_vars(NotifierMust(n))
  /\ WF_vars(CancelStep)

FairSpec == Spec /\ Fairness

-----------------------------------------------------------------------------
NotifierHas(n, f) == f \in ToSet(note[n].sems)
CancellerHas(f) == canc.step \in {"eject", "resume"} /\ f \in ToSet(canc.victims)

\* A waiter that is going to sleep or asleep can still be reached: its entry
\* is queued, a notifier or CancelWaiters has it in hand, or its semaphore
\* already holds the permit it will find.
NoStrandedWaiter ==
  \A f \in Fibers :
    (pc[f] \in {"pushed", "semwait", "semlooked"} \/ sem[f].waiting)
      => \/ f \in ToSet(waiters)
         \/ \E n \in Notifiers : NotifierHas(n, f)
         \/ CancellerHas(f)
         \/ sem[f].permits > 0
         \/ f \in Cancellable /\ f \in cancelled

\* "waiters holds a RAW POINTER into this fiber's STACK FRAME. That is
\* sound only because a waiter cannot leave before it is signalled": whoever
\* has a waiter's semaphore queued or in hand finds the frame still there.
FrameOutlivesPointer ==
  \A f \in Fibers :
    (\/ f \in ToSet(waiters)
     \/ \E n \in Notifiers : NotifierHas(n, f)
     \/ CancellerHas(f))
      => f \in frame

\* Without cancellation that is so.
FrameOutlivesIfUncancelled == cancelled = {} => FrameOutlivesPointer

\* The part of it that cancellation keeps: no pointer to a dead frame stays
\* in the queue, where the next Notify would pick it up.
QueueHoldsLiveFrames ==
  \A f \in ToSet(waiters) : f \in frame
=============================================================================
