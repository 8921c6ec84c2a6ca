------------------------------ MODULE MCWaits -------------------------------
(***************************************************************************)
(* The primitives a fiber can wait on, for TLC: SchedulerMutex,            *)
(* SchedulerSemaphore, SchedulerConditionVariable, WaitGroup, Event and    *)
(* the pooled DirectEvent.  The initial state chooses one of Parts and the *)
(* behaviour is that primitive's; the variables of the others keep their   *)
(* initial values.  SchedulerMutex is extended, so that what is proved of  *)
(* it is what is checked here; the others are instantiated.                *)
(***************************************************************************)
EXTENDS SchedulerMutex, TLC

CONSTANTS
  Parts,
  InitPermits, MaxPermits, MaxPosts,
  Notifiers,
  Tasks, MaxSpawns, MaxWaits,
  SecondWord, Signallers,
  Events, MaxRepeats

ASSUME MCAssumption ==
  /\ InitPermits \in Nat /\ MaxPermits \in Nat /\ InitPermits <= MaxPermits
  /\ MaxPosts \in Nat /\ MaxSpawns \in Nat /\ MaxWaits \in Nat
  /\ Callers \cap Tasks = {} /\ NoTask \notin Tasks
  /\ SecondWord \subseteq Fibers
  /\ MaxRepeats \in Nat /\ NoTask \notin Events

VARIABLES
  part,
  semPc, permits, sig, posts, dropped,                             \* semaphore
  cvPc, owner, frame, sem, note,                                   \* cv
  n, directWaiters, nextWaiter, mtx, wgPc, expect, walk, spawns, waits,  \* group
  slots, occupied, evPc, act,                                      \* event
  waiter, freeq, held, dePc, hand, deWaits, repeats                \* direct event

waitVars == <<waiters, result, canc>>
scopeVars == <<cancelled, swept>>
lockVars == <<pc, mutexVars>>
semVars == <<semPc, permits, sig, posts, dropped>>
cvVars == <<cvPc, owner, frame, sem, note>>
wgVars == <<n, directWaiters, nextWaiter, mtx, wgPc, expect, walk, spawns, waits>>
eventVars == <<slots, occupied, evPc, act>>
directVars == <<waiter, freeq, held, dePc, hand, deWaits, repeats>>
waitsVars == <<part, fiberVars, waitVars, scopeVars, lockVars, semVars, cvVars,
          wgVars, eventVars, directVars>>

Semaphore == INSTANCE SchedulerSemaphore WITH pc <- semPc
CV == INSTANCE SchedulerConditionVariable WITH pc <- cvPc
WG == INSTANCE WaitGroup WITH pc <- wgPc, Null <- NoTask
Ev == INSTANCE Event WITH pc <- evPc, Null <- NoTask
DE == INSTANCE DirectEvent WITH pc <- dePc, waits <- deWaits, Null <- NoTask

WaitsInit ==
  /\ part \in Parts
  /\ Init /\ Semaphore!Init /\ CV!Init /\ WG!Init /\ Ev!Init /\ DE!Init

MutexDoes(A) ==
  /\ part = "mutex" /\ A
  /\ UNCHANGED <<part, semVars, cvVars, wgVars, eventVars, directVars>>

SemaphoreDoes(A) ==
  /\ part = "semaphore" /\ A
  /\ UNCHANGED <<part, lockVars, cvVars, wgVars, eventVars, directVars>>

CvDoes(A) ==
  /\ part = "cv" /\ A
  /\ UNCHANGED <<part, lockVars, semVars, wgVars, eventVars, directVars>>

GroupDoes(A) ==
  /\ part = "group" /\ A
  /\ UNCHANGED <<part, waitVars, scopeVars, lockVars, semVars, cvVars, eventVars, directVars>>

EventDoes(A) ==
  /\ part = "event" /\ A
  /\ UNCHANGED <<part, waitVars, lockVars, semVars, cvVars, wgVars, directVars>>

DirectDoes(A) ==
  /\ part = "direct" /\ A
  /\ UNCHANGED <<part, waitVars, scopeVars, lockVars, semVars, cvVars, wgVars, eventVars>>

WaitsNext ==
  \/ MutexDoes(Next) \/ SemaphoreDoes(Semaphore!Next) \/ CvDoes(CV!Next)
  \/ GroupDoes(WG!Next) \/ EventDoes(Ev!Next) \/ DirectDoes(DE!Next)

WaitsSpec == WaitsInit /\ [][WaitsNext]_waitsVars

\* What each actor must do, in the primitive that was chosen (Event is checked
\* for safety only).
FiberMoves(f) ==
  \/ MutexDoes(FiberMust(f)) \/ SemaphoreDoes(Semaphore!FiberMust(f))
  \/ CvDoes(CV!FiberMust(f)) \/ GroupDoes(WG!FiberMust(f)) \/ DirectDoes(DE!FiberMust(f))

ThreadMoves(t) == MutexDoes(ThreadMust(t)) \/ GroupDoes(WG!BareWaitReturns(t))

ReleaserMoves(c) ==
  MutexDoes(UnlockStep(c)) \/ SemaphoreDoes(Semaphore!SignalMust(c))

CancellerMoves ==
  \/ MutexDoes(CancelWaiters) \/ SemaphoreDoes(Semaphore!CancelWaiters)
  \/ CvDoes(CV!CancelStep)

\* `part` never changes, so fairness of the union is the fairness of the
\* primitive.
WaitsFairness ==
  /\ \A f \in Fibers : WF_waitsVars(FiberMoves(f)) /\ SF_waitsVars(CvDoes(CV!Return(f)))
  /\ \A t \in Threads : WF_waitsVars(ThreadMoves(t))
  /\ \A c \in Callers : WF_waitsVars(ReleaserMoves(c))
  /\ \A m \in Notifiers : WF_waitsVars(CvDoes(CV!NotifierMust(m)))
  /\ \A t \in Tasks : WF_waitsVars(GroupDoes(WG!TaskStep(t)))
  /\ \A s \in Signallers : WF_waitsVars(DirectDoes(DE!SignalMust(s)))
  /\ WF_waitsVars(CancellerMoves)

FairWaitsSpec == WaitsSpec /\ WaitsFairness

\* Signallers are interchangeable, and so are the fibers that may be cancelled
\* when none of them is singled out by SecondWord.
Symmetry == Permutations(Signallers)
FiberSymmetry == Permutations(Cancellable)

-----------------------------------------------------------------------------
WaitsTypeOK ==
  CASE part = "mutex"     -> TypeOK
    [] part = "semaphore" -> Semaphore!TypeOK
    [] part = "cv"        -> CV!TypeOK
    [] part = "group"     -> WG!TypeOK
    [] part = "event"     -> Ev!TypeOK
    [] part = "direct"    -> DE!TypeOK

\* A waiter is resumed once and run from one queue, whoever gets to it:
\* SchedulerMutex and SchedulerSemaphore by the release or by CancelWaiters;
\* WaitGroup from exactly one list, the group's stack or one waker's; Event by
\* the one of SignalAll, SignalOne, CancelWaiters and SelfRemove that the slot
\* exchange gives the registration to.  DirectEvent: a pooled event serves one
\* fiber, which returns on its own signal unless a Signal was repeated.  (The state is of its type besides.)
WaitersResumedOnce ==
  /\ WaitsTypeOK
  /\ RunsInOnePlace
  /\ part = "mutex" => ResumedOnce
  /\ part = "semaphore" => Semaphore!ResumedOnce
  /\ part = "group" => WG!ListsPartitionWaiters
  /\ part = "event" => Ev!ClaimedOnce
  /\ part = "direct" => DE!EventServesOne /\ DE!WokenByItsOwn

\* SchedulerMutex: a bare thread never sleeps through a free lock.
\* SchedulerConditionVariable: a waiter going to sleep or asleep is queued, in
\* a notifier's or CancelWaiters' hands, or has its permit waiting.
\* WaitGroup: in the first round of a group WAITER_BIT is set while an armed
\* waiter is on the stack and tasks are outstanding.
\* Event: a waiter that will sleep or sleeps can be found through its slot and
\* bit, or by a call that has cleared the bit; "REGISTERED BEFORE THE SIGNAL
\* BEGAN IMPLIES WOKEN".
\* DirectEvent: a parked fiber is published with a signal to come, or taken by
\* a signaller that will resume it.
NoStrandedWaiter ==
  /\ part = "mutex" => NoStrandedBareWaiter
  /\ part = "cv" => CV!NoStrandedWaiter
  /\ part = "group" => WG!AnnouncedInFirstRound
  /\ part = "event" => Ev!NoStrandedWaiter /\ Ev!RegisteredIsWoken
  /\ part = "direct" => DE!NoStrandedWaiter

\* SchedulerSemaphore: no permit is made or lost by hand-off, skipping and
\* ejection of cancelled waiters; and as long as nobody is cancelled, no permit
\* is stored while a waiter is queued.
SemPermitsConserved ==
  part = "semaphore" =>
    Semaphore!PermitsConserved /\ Semaphore!NoPermitParkedIfUncancelled

\* Cancelling a scope and then calling CancelWaiters leaves none of its waiters
\* in the queue of a SchedulerSemaphore or SchedulerConditionVariable, the
\* second look of WaitCancellable included, and none asleep on an Event.
CancelledAreSwept ==
  /\ part \in {"semaphore", "cv"} => SweptNeverQueued
  /\ part = "event" => Ev!SweptNeverParks

\* SchedulerConditionVariable: the queue holds no pointer to a frame that is
\* gone; and as long as nobody is cancelled, whoever else has a pointer to a
\* waiter's local semaphore finds the frame still there.
CvFramesAreThere ==
  part = "cv" => CV!QueueHoldsLiveFrames /\ CV!FrameOutlivesIfUncancelled

\* WaitGroup: when the only fiber that uses it is back, no task is inside the group.
GroupQuietAfterJoin == part = "group" => WG!GroupQuietAfterJoin

\* A wait ends.  Uncancelled: a queued fiber gets the SchedulerMutex or its
\* SchedulerSemaphore permit, and a notification that took a waiter off the
\* queue of a SchedulerConditionVariable lets it return, and so does the signal
\* a DirectEvent was armed with.  Cancelled: the waiter
\* leaves, SchedulerMutex's by the next Unlock even if CancelWaiters missed it,
\* SchedulerConditionVariable's by being ejected.
WaitersServed ==
  /\ \A f \in Fibers \ Cancellable :
       /\ (part = "mutex" /\ pc[f] = "queued") ~> pc[f] = "cs"
       /\ (part = "cv" /\ \E m \in Notifiers : CV!NotifierHas(m, f)) ~> cvPc[f] = "cs"
  /\ \A f \in Fibers :
       /\ (part = "semaphore" /\ semPc[f] = "queued") ~> (semPc[f] = "holding" \/ cancelled # {})
       /\ (part = "direct" /\ dePc[f] = "park") ~> dePc[f] = "body"
  /\ \A f \in Cancellable :
       /\ (part = "mutex" /\ pc[f] = "queued" /\ f \in cancelled) ~> pc[f] # "queued"
       /\ (part = "cv" /\ f \in frame /\ f \in cancelled) ~> f \notin frame

\* WaitGroup: a fiber that waits for the first round returns from WaitFor, and
\* with one fiber waiting, so does a bare thread's poll.
GroupWaitEnds == part = "group" => WG!FiberWaitEnds /\ WG!BareWaitEndsWithOneWaiter
=============================================================================
