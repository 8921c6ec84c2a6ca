--------------------------- MODULE SchedulerMutex ---------------------------
(***************************************************************************)
(* SchedulerMutex: fibers that queue and suspend, bare threads that block  *)
(* on a condition variable, hand-off of the lock to the first waiter by    *)
(* Unlock, and cancellation of waiters by skip-at-release and by           *)
(* CancelWaiters.                                                          *)
(*                                                                         *)
(* One step is one critical section of spinLock, holderLock or bareMtx, or *)
(* the code between two of them.                                           *)
(***************************************************************************)
EXTENDS WaitPrimitive

ASSUME MutexAssumption == IsFiniteSet(Threads)

VARIABLES
  locked,
  lockHolder,
  bareMtx,      \* who holds the std::mutex of the bare-thread fallback
  bareWaiters,
  next          \* Unlock's local: the waiter it popped

mutexVars == <<locked, lockHolder, bareMtx, bareWaiters, next>>
queueVars == <<waiters, cancelled, result, canc, swept>>
bareVars == <<bareMtx, bareWaiters>>
vars == <<fiberVars, queueVars, pc, mutexVars>>

FiberPoints == {"body", "checked", "queued", "acquired", "cs",
                "release", "handoff", "freed", "notify"}
ThreadPoints == {"register", "gate", "pred", "sleepy", "asleep", "leave"}

TypeOK ==
  /\ WaitTypeOK
  /\ pc \in [Callers -> FiberPoints \cup ThreadPoints]
  /\ locked \in BOOLEAN
  /\ lockHolder \in Fibers \cup {NoTask}
  /\ bareMtx \in Threads \cup {NoTask}
  /\ bareWaiters \in Nat
  /\ next \in [Callers -> Fibers \cup {NoTask}]

Init ==
  /\ WaitInit
  /\ locked = FALSE
  /\ lockHolder = NoTask
  /\ bareMtx = NoTask
  /\ bareWaiters = 0
  /\ next = [c \in Callers |-> NoTask]

-----------------------------------------------------------------------------
(* Lock, LockCancellable, Try_Lock *)

\* if (!locked) { locked = true; ... } under spinLock.
TakeLock(c, p) ==
  /\ ~locked
  /\ locked' = TRUE
  /\ Goto(c, p)
  /\ UNCHANGED <<status, waiters>>

\* ... else queue and park.
Park(f) == locked /\ Enqueue(f) /\ locked' = locked

Lock(f) ==
  /\ f \notin Cancellable /\ At(f, "body")
  /\ TakeLock(f, "acquired") \/ Park(f)
  /\ UNCHANGED <<stack, queued, lockHolder, bareVars, cancelled, next, result,
                 canc, swept>>

\* LockCancellable's only look at the task, before spinLock.
LockCancellable(f) ==
  /\ f \in Cancellable /\ At(f, "body")
  /\ f \notin cancelled
  /\ Goto(f, "checked")
  /\ result' = [result EXCEPT ![f] = "Ok"]
  /\ UNCHANGED <<fiberVars, mutexVars, waiters, cancelled, canc, swept>>

LockCancellableLocked(f) ==
  /\ At(f, "checked")
  /\ TakeLock(f, "acquired") \/ Park(f)
  /\ UNCHANGED <<stack, queued, lockHolder, bareVars, cancelled, next, result,
                 canc, swept>>

\* Try_Lock; a failed one changes nothing.
Try_Lock(f) ==
  /\ At(f, "body") /\ TakeLock(f, "acquired")
  /\ UNCHANGED <<stack, queued, lockHolder, bareVars, cancelled, next, result,
                 canc, swept>>

\* Back from ContextSwitch: the lock was handed over, or the slot says not.
LockReturns(f) ==
  /\ Resumed(f)
  /\ Goto(f, IF f \in Cancellable /\ result[f] = "Cancelled"
             THEN "body" ELSE "acquired")
  /\ UNCHANGED <<fiberVars, mutexVars, queueVars>>

\* lockHolder = callerTask under holderLock, after the lock is ours.
StoreHolder(f) ==
  /\ At(f, "acquired")
  /\ lockHolder' = f
  /\ Goto(f, "cs")
  /\ UNCHANGED <<fiberVars, locked, queueVars, bareVars, next>>

-----------------------------------------------------------------------------
(* Lock on a bare thread *)

\* One Try_Lock; if it fails, the blocking path.  (A bare LockCancellable
\* polls this step and never blocks.)
BareLock(t) ==
  /\ At(t, "body")
  /\ TakeLock(t, "cs")
       \/ (locked /\ Goto(t, "register") /\ UNCHANGED <<status, locked,
                                                        waiters>>)
  /\ UNCHANGED <<stack, queued, lockHolder, bareVars, cancelled, next, result,
                 canc, swept>>

BareRegister(t) ==
  /\ At(t, "register")
  /\ bareWaiters' = bareWaiters + 1
  /\ Goto(t, "gate")
  /\ UNCHANGED <<fiberVars, locked, lockHolder, queueVars, bareMtx, next>>

\* unique_lock lk(bareMtx), and the re-acquisition when the wait wakes up.
BareGate(t) ==
  /\ At(t, "gate") /\ bareMtx = NoTask
  /\ bareMtx' = t
  /\ Goto(t, "pred")
  /\ UNCHANGED <<fiberVars, locked, lockHolder, queueVars, bareWaiters, next>>

\* The predicate of bareCv.wait: Try_Lock, with bareMtx held.
BarePred(t) ==
  /\ At(t, "pred")
  /\ \/ TakeLock(t, "leave") /\ bareMtx' = NoTask
     \/ /\ locked /\ Goto(t, "sleepy")
        /\ UNCHANGED <<status, locked, waiters, bareMtx>>
  /\ UNCHANGED <<stack, queued, lockHolder, bareWaiters, cancelled, next,
                 result, canc, swept>>

\* bareCv.wait gives up bareMtx and sleeps, in one step.
BareSleep(t) ==
  /\ At(t, "sleepy")
  /\ bareMtx' = NoTask
  /\ Goto(t, "asleep")
  /\ UNCHANGED <<fiberVars, locked, lockHolder, queueVars, bareWaiters, next>>

BareLeave(t) ==
  /\ At(t, "leave")
  /\ bareWaiters' = bareWaiters - 1
  /\ Goto(t, "cs")
  /\ UNCHANGED <<fiberVars, locked, lockHolder, queueVars, bareMtx, next>>

-----------------------------------------------------------------------------
(* Unlock *)

Unlock(c) ==
  /\ At(c, "cs")
  /\ lockHolder' = NoTask
  /\ Goto(c, "release")
  /\ UNCHANGED <<fiberVars, locked, queueVars, bareVars, next>>

\* Faulty variant: frees the lock although it hands it over.
UnlockPopFrees(c) ==
  /\ At(c, "release")
  /\ locked' = FALSE
  /\ \/ /\ waiters # <<>>
        /\ next' = [next EXCEPT ![c] = Head(waiters)]
        /\ waiters' = Tail(waiters)
        /\ Goto(c, "handoff")
     \/ waiters = <<>> /\ Goto(c, "freed") /\ UNCHANGED <<waiters, next>>
  /\ UNCHANGED <<fiberVars, lockHolder, bareVars, cancelled, result, canc,
                 swept>>

\* Under spinLock: pop the next waiter, or free the lock.
UnlockPop(c) ==
  /\ At(c, "release")
  /\ \/ /\ waiters # <<>>
        /\ next' = [next EXCEPT ![c] = Head(waiters)]
        /\ waiters' = Tail(waiters)
        /\ Goto(c, "handoff")
        /\ locked' = locked
     \/ /\ waiters = <<>>
        /\ locked' = FALSE
        /\ Goto(c, "freed")
        /\ UNCHANGED <<waiters, next>>
  /\ UNCHANGED <<fiberVars, lockHolder, bareVars, cancelled, result, canc,
                 swept>>

\* Faulty variant: a skipped waiter is not resumed.
UnlockHandOffForgets(c) ==
  /\ At(c, "handoff")
  /\ LET skip == next[c] \in Cancellable /\ next[c] \in cancelled
     IN /\ IF skip THEN UNCHANGED fiberVars ELSE Resume(next[c])
        /\ Goto(c, IF skip THEN "release" ELSE "body")
  /\ next' = [next EXCEPT ![c] = NoTask]
  /\ UNCHANGED <<locked, lockHolder, queueVars, bareVars>>

\* Outside spinLock: a cancelled waiter is sent away and the loop goes on;
\* any other is resumed with the lock, which stays locked.
UnlockHandOff(c) ==
  /\ At(c, "handoff")
  /\ LET skip == next[c] \in Cancellable /\ next[c] \in cancelled
     IN /\ result' = [result EXCEPT ![next[c]] = IF skip THEN "Cancelled" ELSE "Ok"]
        /\ Resume(next[c])
        /\ Goto(c, IF skip THEN "release" ELSE "body")
  /\ next' = [next EXCEPT ![c] = NoTask]
  /\ UNCHANGED <<locked, lockHolder, waiters, bareVars, cancelled, canc,
                 swept>>

\* Nobody was queued: bareWaiters decides whether to notify.
UnlockBareCheck(c) ==
  /\ At(c, "freed")
  /\ Goto(c, IF bareWaiters = 0 THEN "body" ELSE "notify")
  /\ UNCHANGED <<fiberVars, mutexVars, queueVars>>

\* Pass through bareMtx, then bareCv.notify_one.
UnlockNotify(c) ==
  /\ At(c, "notify") /\ bareMtx = NoTask
  /\ LET sleeping == {t \in Threads : pc[t] = "asleep"} IN
       \/ \E t \in sleeping :
            pc' = [pc EXCEPT ![c] = "body", ![t] = "gate"]
       \/ sleeping = {} /\ Goto(c, "body")
  /\ UNCHANGED <<fiberVars, mutexVars, queueVars>>

-----------------------------------------------------------------------------
(* Cancellation *)

Cancel(S) == CancelScope(S) /\ UNCHANGED mutexVars

CancelWaiters ==
  /\ \/ canc # NoCanc /\ CollectVictims(Cancellable \cap canc.tok, "resume")
     \/ ResumeVictim("resume")
  /\ UNCHANGED mutexVars

-----------------------------------------------------------------------------
Worker(f) == (WorkerStep(f) \/ SwitchAway(f)) /\ UNCHANGED mutexVars

FiberStep(f) ==
  \/ Lock(f) \/ LockCancellable(f) \/ LockCancellableLocked(f)
  \/ Try_Lock(f) \/ LockReturns(f) \/ StoreHolder(f)

ThreadStep(t) ==
  \/ BareLock(t) \/ BareRegister(t) \/ BareGate(t) \/ BarePred(t)
  \/ BareSleep(t) \/ BareLeave(t)

UnlockStep(c) ==
  \/ Unlock(c) \/ UnlockPop(c) \/ UnlockHandOff(c)
  \/ UnlockBareCheck(c) \/ UnlockNotify(c)

Next ==
  \/ \E f \in Fibers : FiberStep(f) \/ Worker(f)
  \/ \E t \in Threads : ThreadStep(t)
  \/ \E c \in Callers : UnlockStep(c)
  \/ \E S \in SUBSET Cancellable \ {{}} : Cancel(S)
  \/ CancelWaiters

Spec == Init /\ [][Next]_vars

\* Workers run what is queued, code that runs goes on, and whoever holds the
\* lock releases it in the end.  Nothing obliges anyone to lock or to cancel.
FiberMust(f) ==
  Worker(f) \/ LockReturns(f) \/ StoreHolder(f) \/ LockCancellableLocked(f)
ThreadMust(t) == BareRegister(t) \/ BareGate(t) \/ BarePred(t) \/ BareSleep(t) \/ BareLeave(t)

Fairness ==
  /\ \A f \in Fibers : WF_vars(FiberMust(f))
  /\ \A t \in Threads : WF_vars(ThreadMust(t))
  /\ \A c \in Callers : WF_vars(UnlockStep(c))
  /\ WF_vars(CancelWaiters)

FairSpec == Spec /\ Fairness

-----------------------------------------------------------------------------
InUnlock(f) == {c \in Callers : next[c] = f}

\* Resumed with the lock and not yet back from the wait.
Granted(f) ==
  /\ pc[f] = "queued" /\ f \notin ToSet(waiters)
  /\ InUnlock(f) = {} /\ ~Ejected(f)
  /\ ~(f \in Cancellable /\ result[f] = "Cancelled")

Owns(c) ==
  \/ pc[c] \in {"acquired", "cs", "release", "handoff", "leave"}
  \/ c \in Fibers /\ Granted(c)

\* Mutual exclusion, hand-off included: `locked` is set exactly while one
\* caller owns the lock, from the moment it is taken or handed over to the
\* moment Unlock frees it or hands it on.
OneOwner ==
  /\ \A c, d \in Callers : Owns(c) /\ Owns(d) => c = d
  /\ locked <=> \E c \in Callers : Owns(c)

\* lockHolder names the fiber in the critical section, and nobody when no
\* fiber is: no late store by a former owner overwrites it.
HolderIsOwner ==
  \A f \in Fibers : lockHolder = f <=> pc[f] = "cs"

\* Who owns the lock and who is said to: `locked` is set exactly while one
\* caller owns it, through every hand-off by Unlock, and lockHolder names the
\* fiber in the critical section.
MutexOwnership == OneOwner /\ HolderIsOwner

\* A waiter is resumed once, by Unlock or by CancelWaiters.
ResumedOnce == OneWakerEach(InUnlock)

\* A bare thread never sleeps through a free lock: while one does, some
\* Unlock is still on its way to notify or another bare waiter is awake and
\* about to try.  (bareWaiters, bareMtx and the predicate re-check together.)
NoStrandedBareWaiter ==
  ~locked /\ (\E t \in Threads : pc[t] = "asleep")
    => \E c \in Callers : pc[c] \in {"freed", "notify", "gate", "pred"}

\* With every owner releasing, a queued fiber that nobody cancels gets the
\* lock: hand-off in queue order leaves no room for barging.
WaiterServed ==
  \A f \in Fibers \ Cancellable : pc[f] = "queued" ~> pc[f] = "cs"
=============================================================================
