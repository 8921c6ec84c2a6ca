----------------------------- MODULE MutexProofs -----------------------------
(***************************************************************************)
(* SchedulerMutex is right for any number of fibers and of bare threads    *)
(* and any buffer of CancelWaiters: the steps of Unlock, of the workers    *)
(* and of CancelWaiters keep the invariant of MutexInvariant, from which   *)
(* follow the ownership of the lock, that every waiter has one waker and   *)
(* that no bare thread sleeps through a free lock.                         *)
(***************************************************************************)
EXTENDS MutexInvariant

-----------------------------------------------------------------------------
(* Unlock *)

\* A caller that has the lock is the only one, and the lock is locked.
LEMMA OwnerIsAlone ==
  ASSUME OwnerFits, NEW c \in Callers, Has(c)
  PROVE  locked /\ \A d \in Callers : Has(d) => d = c
BY DEF OwnerFits

\* Unlock clears lockHolder while it still has the lock.
LEMMA UnlockStartStep ==
  ASSUME TypeOK, WaitersFit, CancellerFits, HandsFit, OwnerFits, HolderIsOwner, BareFits,
         NEW c \in Callers, Unlock(c)
  PROVE  IInv'
<1>2. /\ "release" \in FiberPoints /\ pc[c] = "cs" /\ Goto(c, "release") /\ lockHolder' = NoTask
      /\ result' = result /\ result \in [Fibers -> {"Ok", "Cancelled"}]
      /\ UNCHANGED <<status, stack, queued, waiters, cancelled, canc, swept, next>>
      /\ UNCHANGED <<locked, bareMtx, bareWaiters>>
  BY DEF Unlock, At, FiberPoints, fiberVars, bareVars, queueVars, TypeOK, WaitTypeOK
<1> USE <1>2
<1>3. c \in Fibers => status[c] = "RUNNING"
  BY NotQueuedRuns
<1>4. /\ pc' \in [Callers -> FiberPoints \cup ThreadPoints] /\ pc'[c] = "release"
      /\ \A d \in Callers : d # c => pc'[d] = pc[d]
      /\ WaitTypeOK' /\ WaitersFit' /\ CancellerFits'
  BY <1>3, CallerMoves
<1> USE <1>4
<1>5. TypeOK'
  BY DEF TypeOK
<1>6. Has(c)
  BY DEF Has
<1>7. \A g \in Fibers : g # c => pc[g] # "cs"
  BY <1>6, OwnerIsAlone DEF Has, Callers
<1>8. HandsFit'
  BY DEF HandsFit
<1>9. HolderIsOwner'
  BY <1>7, WaitAssumption DEF HolderIsOwner, Callers
<1>10. ASSUME NEW d \in Callers PROVE Has(d)' <=> Has(d)
  <2>1. CASE d = c
    BY <2>1 DEF Has
  <2>2. CASE d # c
    BY <2>2 DEF Has, HandedOver, Asleep
  <2> QED BY <2>1, <2>2
<1>11. OwnerFits'
  BY <1>10, OwnerKept
<1>12. BareFits'
  BY BareKept DEF Callers
<1> QED BY <1>5, <1>8, <1>9, <1>11, <1>12 DEF IInv

\* The first waiter goes from the queue to the Unlock that popped it.
LEMMA UnlockPops ==
  ASSUME TypeOK, WaitersFit, CancellerFits, HandsFit, OwnerFits, HolderIsOwner, BareFits,
         NEW c \in Callers, UnlockPop(c), waiters # <<>>
  PROVE  IInv'
<1> DEFINE h == Head(waiters)
<1>2. /\ pc \in [Callers -> FiberPoints \cup ThreadPoints] /\ "handoff" \in FiberPoints
      /\ waiters \in Seq(Fibers) /\ next \in [Callers -> Fibers \cup {NoTask}]
  BY DEF TypeOK, WaitTypeOK, FiberPoints
<1>3. /\ pc[c] = "release" /\ pc' = [pc EXCEPT ![c] = "handoff"]
      /\ next' = [next EXCEPT ![c] = h] /\ waiters' = Tail(waiters) /\ locked' = locked
      /\ UNCHANGED <<status, stack, queued, lockHolder, bareMtx, bareWaiters, cancelled,
                     result, canc, swept>>
  BY DEF UnlockPop, At, Goto, fiberVars, bareVars
<1> USE <1>3
<1>4. /\ h \in Fibers /\ h \in ToSet(waiters)
      /\ waiters' \in Seq(Fibers) /\ ToSet(waiters') = ToSet(waiters) \ {h}
      /\ IsInjective(waiters')
  BY <1>2, TailRemoves DEF WaitersFit
<1> USE <1>4
<1> HIDE DEF h
<1>5. /\ pc' \in [Callers -> FiberPoints \cup ThreadPoints] /\ pc'[c] = "handoff"
      /\ \A d \in Callers : d # c => pc'[d] = pc[d]
      /\ next' \in [Callers -> Fibers \cup {NoTask}] /\ next'[c] = h
      /\ \A d \in Callers : d # c => next'[d] = next[d]
  BY <1>2
<1> USE <1>5
<1>6. next[c] = NoTask /\ h # NoTask
  BY WaitAssumption DEF HandsFit
<1>7. TypeOK'
  BY DEF TypeOK, WaitTypeOK, FiberTypeOK
<1>8. WaitersFit'
  <2>1. ASSUME NEW g \in Fibers PROVE FiberFits(g)'
    <3>1. FiberFits(g) /\ pc[g] = "queued" => pc'[g] = "queued"
      BY DEF WaitersFit, Callers
    <3> QED BY <3>1 DEF WaitersFit, FiberFits
  <2>2. ASSUME NEW g \in Fibers PROVE OneWaker(g)'
    <3>1. OneWaker(g) /\ (Asleep(g)' <=> Asleep(g)) /\ (Ejected(g)' <=> Ejected(g))
      BY DEF WaitersFit, Asleep, Ejected
    <3>2. CASE g = h
      <4>1. Popped(g)' /\ g \in ToSet(waiters) /\ g \notin ToSet(waiters')
        BY <3>2 DEF Popped
      <4> QED BY <3>1, <4>1 DEF OneWaker
    <3>3. CASE g # h
      <4>1. Popped(g)' <=> Popped(g)
        BY <1>6, <3>3, WaitAssumption DEF Popped
      <4>2. g \in ToSet(waiters') <=> g \in ToSet(waiters)
        BY <3>3
      <4> QED BY <3>1, <4>1, <4>2 DEF OneWaker
    <3> QED BY <3>2, <3>3
  <2> QED BY <2>1, <2>2 DEF WaitersFit
<1>9. CancellerFits'
  BY DEF CancellerFits
<1>10. HandsFit'
  BY <1>6 DEF HandsFit
<1>11. HolderIsOwner'
  BY DEF HolderIsOwner, Callers
<1>12. ASSUME NEW d \in Callers PROVE Has(d)' <=> Has(d)
  <2>1. CASE d = c
    BY <2>1 DEF Has
  <2>2. CASE d # c
    BY <2>2 DEF Has, HandedOver, Asleep
  <2> QED BY <2>1, <2>2
<1>13. locked
  <2>1. Has(c)
    BY DEF Has
  <2> QED BY <2>1, OwnerIsAlone
<1>14. OwnerFits'
  BY <1>12, <1>13, OwnerKept
<1>15. BareFits'
  BY <1>13, BareKept DEF Callers
<1> QED BY <1>7, <1>8, <1>9, <1>10, <1>11, <1>14, <1>15 DEF IInv

\* Nobody is queued: nobody has the lock any more, and this Unlock is on its
\* way to the bare waiters.
LEMMA UnlockFrees ==
  ASSUME TypeOK, WaitersFit, CancellerFits, HandsFit, OwnerFits, HolderIsOwner, BareFits,
         NEW c \in Callers, UnlockPop(c), waiters = <<>>
  PROVE  IInv'
<1>2. /\ "freed" \in FiberPoints /\ pc[c] = "release" /\ Goto(c, "freed") /\ locked' = FALSE
      /\ result' = result /\ result \in [Fibers -> {"Ok", "Cancelled"}]
      /\ UNCHANGED <<status, stack, queued, waiters, cancelled, canc, swept, next>>
      /\ UNCHANGED <<lockHolder, bareMtx, bareWaiters>>
  BY DEF UnlockPop, At, FiberPoints, fiberVars, bareVars, TypeOK, WaitTypeOK
<1> USE <1>2
<1>3. c \in Fibers => status[c] = "RUNNING"
  BY NotQueuedRuns
<1>4. /\ pc' \in [Callers -> FiberPoints \cup ThreadPoints] /\ pc'[c] = "freed"
      /\ \A d \in Callers : d # c => pc'[d] = pc[d]
      /\ WaitTypeOK' /\ WaitersFit' /\ CancellerFits'
  BY <1>3, CallerMoves
<1> USE <1>4
<1>5. TypeOK'
  BY DEF TypeOK
<1>6. HandsFit' /\ HolderIsOwner'
  BY DEF HandsFit, HolderIsOwner, Callers
<1>7. Has(c)
  BY DEF Has
<1>8. ASSUME NEW d \in Callers PROVE ~Has(d)'
  <2>1. CASE d = c
    BY <2>1 DEF Has, HandedOver
  <2>2. CASE d # c
    <3>1. ~Has(d)
      BY <1>7, <2>2, OwnerIsAlone
    <3> QED BY <2>2, <3>1 DEF Has, HandedOver, Asleep
  <2> QED BY <2>1, <2>2
<1>9. OwnerFits'
  BY <1>8 DEF OwnerFits
<1>10. BareFits'
  <2>1. \A t \in Threads : \/ pc'[t] = pc[t]
                           \/ pc[t] = "release" /\ pc'[t] = "freed"
    BY DEF Callers
  <2>2. Registered' = Registered
    BY <2>1 DEF Registered
  <2>3. bareWaiters' = Cardinality(Registered)'
    BY <2>2 DEF BareFits
  <2>4. \A t \in Threads : bareMtx' = t <=> pc'[t] \in {"pred", "sleepy"}
    BY <2>1 DEF BareFits
  <2> QED BY <2>3, <2>4 DEF BareFits
<1> QED BY <1>5, <1>6, <1>9, <1>10 DEF IInv

\* Resume of a sleeping fiber: it is awake, still in its wait and in at most
\* one run queue; nobody else is touched.
LEMMA ResumeWakes ==
  ASSUME FiberTypeOK, NEW g \in Fibers, Asleep(g), FiberFits(g), Resume(g), pc'[g] = pc[g]
  PROVE  /\ FiberTypeOK' /\ stack' = stack
         /\ \A f \in Fibers : f # g => status'[f] = status[f] /\ queued'[f] = queued[f]
         /\ FiberFits(g)' /\ ~Asleep(g)' /\ status'[g] # "RUNNING"
<1>1. /\ status' = [f \in Fibers |->
                      IF f \in {g} THEN StatusAfterResume(status[f]) ELSE status[f]]
      /\ queued' = [f \in Fibers |->
                      IF f \in {g} /\ ResumeRequeues(status[f])
                      THEN queued[f] + 1 ELSE queued[f]]
      /\ stack' = stack
  BY DEF Resume, ResumeAll
<1> USE <1>1
<1>2. /\ status'[g] = StatusAfterResume(status[g])
      /\ queued'[g] = IF ResumeRequeues(status[g]) THEN queued[g] + 1 ELSE queued[g]
      /\ \A f \in Fibers : f # g => status'[f] = status[f] /\ queued'[f] = queued[f]
  OBVIOUS
<1> USE <1>2
<1>3. /\ StatusAfterResume("WANTS_SUSPEND") = "SUSPEND_SIGNALED"
      /\ StatusAfterResume("SUSPENDED") = "READY"
      /\ ~ResumeRequeues("WANTS_SUSPEND") /\ ResumeRequeues("SUSPENDED")
  BY DEF StatusAfterResume, ResumeRequeues
<1>4. \/ /\ status[g] = "WANTS_SUSPEND" /\ status'[g] = "SUSPEND_SIGNALED"
         /\ queued[g] = 0 /\ queued'[g] = 0
      \/ /\ status[g] = "SUSPENDED" /\ status'[g] = "READY"
         /\ queued[g] = 0 /\ queued'[g] = 1
  BY <1>3 DEF Asleep, FiberFits
<1> USE <1>4
<1>5. FiberTypeOK'
  <2>1. \A f \in Fibers : status'[f] \in FiberStatus
    BY DEF FiberTypeOK, FiberStatus
  <2>2. status' \in [Fibers -> FiberStatus]
    BY <2>1
  <2>3. \A f \in Fibers : queued'[f] \in Nat
    <3>1. queued'[g] \in Nat
      OBVIOUS
    <3>2. \A f \in Fibers : queued[f] \in Nat
      BY DEF FiberTypeOK
    <3> QED BY <3>1, <3>2, Zenon
  <2>4. queued' \in [Fibers -> Nat]
    BY <2>3
  <2> QED BY <2>2, <2>4 DEF FiberTypeOK
<1>6. FiberFits(g)'
  BY DEF FiberFits
<1>7. ~Asleep(g)' /\ status'[g] # "RUNNING"
  BY DEF Asleep
<1> QED BY <1>5, <1>6, <1>7

\* The waiter that Unlock popped is resumed with the lock, or sent away
\* because it is cancelled and the owner goes on releasing.
LEMMA UnlockHandOffStep ==
  ASSUME TypeOK, WaitersFit, CancellerFits, HandsFit, OwnerFits, HolderIsOwner, BareFits,
         NEW c \in Callers, UnlockHandOff(c)
  PROVE  IInv'
<1>0. PICK g \in Fibers : g = next[c] /\ g # NoTask
  BY DEF HandsFit, UnlockHandOff, At, TypeOK
<1> USE <1>0
<1> DEFINE skip == g \in Cancellable /\ g \in cancelled
           q == IF skip THEN "release" ELSE "body"
<1>2. /\ pc \in [Callers -> FiberPoints \cup ThreadPoints] /\ q \in FiberPoints
      /\ next \in [Callers -> Fibers \cup {NoTask}] /\ FiberTypeOK
      /\ result \in [Fibers -> {"Ok", "Cancelled"}]
  BY DEF TypeOK, WaitTypeOK, FiberPoints
<1> USE <1>2
<1>3. /\ pc[c] = "handoff" /\ pc' = [pc EXCEPT ![c] = q]
      /\ next' = [next EXCEPT ![c] = NoTask] /\ Resume(g)
      /\ result' = [result EXCEPT ![g] = IF skip THEN "Cancelled" ELSE "Ok"]
      /\ UNCHANGED <<locked, lockHolder, waiters, bareMtx, bareWaiters, cancelled, canc, swept>>
  BY DEF UnlockHandOff, At, Goto, bareVars
<1> USE <1>3
<1>5. Asleep(g) /\ FiberFits(g) /\ g \notin ToSet(waiters) /\ ~Ejected(g)
  BY DEF WaitersFit, OneWaker, Popped
<1> USE <1>5
<1>6. pc[g] = "queued" /\ g # c /\ g \in Callers
  BY AsleepIsQueued DEF Callers
<1> USE <1>6
<1>7. q \in {"release", "body"} /\ (q = "release" <=> skip)
  OBVIOUS
<1> USE <1>7
<1> HIDE DEF q
<1>8. /\ pc' \in [Callers -> FiberPoints \cup ThreadPoints] /\ pc'[c] = q
      /\ \A d \in Callers : d # c => pc'[d] = pc[d]
      /\ next' \in [Callers -> Fibers \cup {NoTask}] /\ next'[c] = NoTask
      /\ \A d \in Callers : d # c => next'[d] = next[d]
  OBVIOUS
<1> USE <1>8
<1>9. /\ result' \in [Fibers -> {"Ok", "Cancelled"}]
      /\ result'[g] = IF skip THEN "Cancelled" ELSE "Ok"
      /\ \A f \in Fibers : f # g => result'[f] = result[f]
  OBVIOUS
<1> USE <1>9
<1>10. /\ FiberTypeOK' /\ stack' = stack
       /\ \A f \in Fibers : f # g => status'[f] = status[f] /\ queued'[f] = queued[f]
       /\ FiberFits(g)' /\ ~Asleep(g)'
  BY ResumeWakes
<1> USE <1>10
<1>11. TypeOK'
  BY DEF TypeOK, WaitTypeOK
<1>12. Has(c)
  BY DEF Has
<1>13. locked /\ \A d \in Callers : Has(d) => d = c
  BY <1>12, OwnerIsAlone
<1> USE <1>13
<1>14. \A d \in Callers : next[d] # NoTask => d = c
  BY DEF HandsFit, Has
<1>15. WaitersFit'
  <2>1. ASSUME NEW f \in Fibers PROVE FiberFits(f)'
    <3>1. CASE f = g
      BY <3>1
    <3>2. CASE f # g
      <4>1. FiberFits(f) /\ pc[f] = "queued" => pc'[f] = "queued"
        BY DEF WaitersFit, Callers
      <4>2. status'[f] = status[f] /\ queued'[f] = queued[f] /\ stack'[f] = stack[f]
        BY <3>2
      <4> QED BY <4>1, <4>2 DEF WaitersFit, FiberFits
    <3> QED BY <3>1, <3>2
  <2>2. ASSUME NEW f \in Fibers PROVE OneWaker(f)'
    <3>1. OneWaker(f) /\ (Ejected(f)' <=> Ejected(f)) /\ waiters' = waiters
      BY DEF WaitersFit, Ejected
    <3>2. ~Popped(f)'
      BY <1>14, WaitAssumption DEF Popped
    <3>3. CASE f = g
      BY <3>1, <3>2, <3>3 DEF OneWaker
    <3>4. CASE f # g
      <4>1. Asleep(f)' <=> Asleep(f)
        BY <3>4 DEF Asleep
      <4>2. ~Popped(f)
        BY <1>14, <3>4, WaitAssumption DEF Popped
      <4> QED BY <3>1, <3>2, <4>1, <4>2 DEF OneWaker
    <3> QED BY <3>3, <3>4
  <2>3. IsInjective(waiters')
    BY DEF WaitersFit
  <2> QED BY <2>1, <2>2, <2>3 DEF WaitersFit
<1>16. CancellerFits'
  BY DEF CancellerFits
<1>17. HandsFit' /\ HolderIsOwner'
  BY DEF HandsFit, HolderIsOwner, Callers
<1>18. ASSUME NEW d \in Callers, d # c, d # g PROVE ~Has(d)'
  <2>1. ~Has(d)
    BY <1>18
  <2>2. pc'[d] = pc[d]
    BY <1>18
  <2>3. d \in Fibers => status'[d] = status[d] /\ result'[d] = result[d]
    BY <1>18
  <2> QED BY <2>1, <2>2, <2>3 DEF Has, HandedOver, Asleep
<1>19. OwnerFits'
  <2>1. CASE skip
    <3>1. Has(c)' /\ ~Has(g)'
      BY <2>1 DEF Has, HandedOver
    <3>2. \A d \in Callers : Has(d)' <=> d = c
      BY <1>18, <3>1
    <3> QED BY <3>2 DEF OwnerFits
  <2>2. CASE ~skip
    <3>1. Has(g)'
      BY <2>2 DEF Has, HandedOver
    <3>2. ~Has(c)'
      BY <2>2 DEF Has, HandedOver
    <3>3. \A d \in Callers : Has(d)' <=> d = g
      BY <1>18, <3>1, <3>2
    <3> QED BY <3>3 DEF OwnerFits
  <2> QED BY <2>1, <2>2
<1>20. BareFits'
  <2>1. \A t \in Threads : pc'[t] = pc[t] \/ (pc[t] = "handoff" /\ pc'[t] \in {"release", "body"})
    BY DEF Callers
  <2>2. locked'
    OBVIOUS
  <2> QED BY <2>1, <2>2, BareKept
<1> QED BY <1>11, <1>15, <1>16, <1>17, <1>19, <1>20 DEF IInv

\* The lock is free, so any registered thread keeps this Unlock going.
LEMMA UnlockBareCheckStep ==
  ASSUME TypeOK, WaitersFit, CancellerFits, HandsFit, OwnerFits, HolderIsOwner, BareFits,
         NEW c \in Callers, UnlockBareCheck(c)
  PROVE  IInv'
<1> DEFINE q == IF bareWaiters = 0 THEN "body" ELSE "notify"
<1>2. /\ q \in FiberPoints /\ pc[c] = "freed" /\ Goto(c, q)
      /\ result' = result /\ result \in [Fibers -> {"Ok", "Cancelled"}]
      /\ UNCHANGED <<status, stack, queued, waiters, cancelled, canc, swept, next>>
      /\ UNCHANGED <<locked, lockHolder, bareMtx, bareWaiters>>
  BY DEF UnlockBareCheck, At, FiberPoints, fiberVars, mutexVars, queueVars, TypeOK, WaitTypeOK
<1> USE <1>2
<1>3. q \in {"body", "notify"} /\ (q = "body" <=> bareWaiters = 0)
  OBVIOUS
<1> USE <1>3
<1> HIDE DEF q
<1>4. c \in Fibers => status[c] = "RUNNING"
  BY NotQueuedRuns
<1>5. /\ pc' \in [Callers -> FiberPoints \cup ThreadPoints] /\ pc'[c] = q
      /\ \A d \in Callers : d # c => pc'[d] = pc[d]
      /\ WaitTypeOK' /\ WaitersFit' /\ CancellerFits'
  BY <1>4, CallerMoves
<1> USE <1>5
<1>6. TypeOK'
  BY DEF TypeOK
<1>7. HandsFit' /\ HolderIsOwner'
  BY DEF HandsFit, HolderIsOwner, Callers
<1>8. ASSUME NEW d \in Callers PROVE Has(d)' <=> Has(d)
  <2>1. CASE d = c
    BY <2>1 DEF Has, HandedOver
  <2>2. CASE d # c
    BY <2>2 DEF Has, HandedOver, Asleep
  <2> QED BY <2>1, <2>2
<1>9. OwnerFits'
  BY <1>8, OwnerKept
<1>10. BareFits'
  <2>1. \A t \in Threads : pc'[t] = pc[t] \/ (pc[t] = "freed" /\ pc'[t] \in {"body", "notify"})
    BY DEF Callers
  <2>2. Registered' = Registered
    BY <2>1 DEF Registered
  <2>3. bareWaiters' = Cardinality(Registered)'
    BY <2>2 DEF BareFits
  <2>4. \A t \in Threads : bareMtx' = t <=> pc'[t] \in {"pred", "sleepy"}
    BY <2>1 DEF BareFits
  <2>5. ASSUME NEW t \in Threads, pc'[t] \in {"sleepy", "asleep"} PROVE pc'[c] = "notify"
    <3>1. t \in Registered
      BY <2>1, <2>5 DEF Registered
    <3>2. bareWaiters # 0
      BY <3>1, RegisteredCounts DEF BareFits
    <3> QED BY <3>2
  <2> QED BY <2>3, <2>4, <2>5 DEF BareFits
<1> QED BY <1>6, <1>7, <1>9, <1>10 DEF IInv

\* One sleeping thread is woken, if there is one.
LEMMA UnlockNotifyStep ==
  ASSUME TypeOK, WaitersFit, CancellerFits, HandsFit, OwnerFits, HolderIsOwner, BareFits,
         NEW c \in Callers, UnlockNotify(c)
  PROVE  IInv'
<1>2. /\ pc \in [Callers -> FiberPoints \cup ThreadPoints] /\ pc[c] = "notify"
      /\ "body" \in FiberPoints /\ "gate" \in ThreadPoints /\ bareMtx = NoTask
      /\ UNCHANGED <<status, stack, queued, waiters, result, cancelled, canc, swept, next>>
      /\ UNCHANGED <<locked, lockHolder, bareMtx, bareWaiters>>
  BY DEF UnlockNotify, At, FiberPoints, ThreadPoints, fiberVars, mutexVars, queueVars, TypeOK
<1> USE <1>2
<1>3. /\ pc' \in [Callers -> FiberPoints \cup ThreadPoints] /\ pc'[c] = "body"
      /\ \A d \in Callers : \/ pc'[d] = pc[d] \/ d = c
                            \/ d \in Threads /\ pc[d] = "asleep" /\ pc'[d] = "gate"
      /\ \/ \E t \in Threads : pc'[t] = "gate"
         \/ \A t \in Threads : pc[t] # "asleep"
  <2>1. CASE \E t \in {u \in Threads : pc[u] = "asleep"} :
               pc' = [pc EXCEPT ![c] = "body", ![t] = "gate"]
    <3>1. PICK t \in Threads : pc[t] = "asleep" /\ pc' = [pc EXCEPT ![c] = "body", ![t] = "gate"]
      BY <2>1
    <3>2. t # c /\ t \in Callers
      BY <3>1 DEF Callers
    <3>3. pc'[c] = "body" /\ pc'[t] = "gate" /\ \A d \in Callers : d # c /\ d # t => pc'[d] = pc[d]
      BY <3>1, <3>2
    <3>4. pc' \in [Callers -> FiberPoints \cup ThreadPoints]
      BY <3>1
    <3> QED BY <3>1, <3>3, <3>4
  <2>2. CASE {u \in Threads : pc[u] = "asleep"} = {} /\ Goto(c, "body")
    <3>1. pc' = [pc EXCEPT ![c] = "body"] /\ \A t \in Threads : pc[t] # "asleep"
      BY <2>2 DEF Goto
    <3> QED BY <3>1
  <2> QED BY <2>1, <2>2 DEF UnlockNotify
<1> USE <1>3
<1>4. TypeOK'
  BY DEF TypeOK, WaitTypeOK, FiberTypeOK
<1>5. \A f \in Fibers : pc'[f] = pc[f] \/ f = c
  BY WaitAssumption DEF Callers
<1>6. WaitersFit'
  <2>1. c \in Fibers => status[c] = "RUNNING"
    BY NotQueuedRuns
  <2> QED BY <1>5, <2>1, WaitersKept
<1>7. CancellerFits'
  BY DEF CancellerFits
<1>8. HandsFit' /\ HolderIsOwner'
  BY <1>5 DEF HandsFit, HolderIsOwner
<1>9. ASSUME NEW d \in Callers PROVE Has(d)' <=> Has(d)
  <2>1. CASE d = c
    BY <2>1 DEF Has, HandedOver
  <2>2. CASE d # c /\ pc'[d] = pc[d]
    BY <2>2 DEF Has, HandedOver, Asleep
  <2>3. CASE pc[d] = "asleep" /\ pc'[d] = "gate"
    BY <2>3 DEF Has, HandedOver
  <2> QED BY <2>1, <2>2, <2>3
<1>10. OwnerFits'
  BY <1>9, OwnerKept
<1>11. BareFits'
  <2>1. \A t \in Threads : \/ pc'[t] = pc[t]
                           \/ pc[t] = "notify" /\ pc'[t] = "body"
                           \/ pc[t] = "asleep" /\ pc'[t] = "gate"
    BY DEF Callers
  <2>2. Registered' = Registered
    BY <2>1 DEF Registered
  <2>3. bareWaiters' = Cardinality(Registered)'
    BY <2>2 DEF BareFits
  <2>4. \A t \in Threads : bareMtx' = t <=> pc'[t] \in {"pred", "sleepy"}
    BY <2>1 DEF BareFits
  <2>5. \A t \in Threads : pc[t] # "sleepy"
    BY WaitAssumption DEF BareFits
  <2>6. ASSUME NEW t \in Threads, pc'[t] \in {"sleepy", "asleep"}
        PROVE  \E d \in Callers : pc'[d] \in {"freed", "notify", "gate", "pred"}
    BY <2>1, <2>5, <2>6 DEF Callers
  <2> QED BY <2>3, <2>4, <2>6 DEF BareFits
<1> QED BY <1>4, <1>6, <1>7, <1>8, <1>10, <1>11 DEF IInv

-----------------------------------------------------------------------------
(* The workers *)

\* A worker that dispatches, parks or switches out a fiber moves it within
\* what its status, its stack and the run queues allow.
LEMMA WorkerRuns ==
  ASSUME TypeOK, WaitersFit, CancellerFits, HandsFit, OwnerFits, HolderIsOwner, BareFits,
         NEW f \in Fibers, Worker(f)
  PROVE  IInv'
<1>2. UNCHANGED <<waiters, result, cancelled, canc, swept, pc, next>>
      /\ UNCHANGED <<locked, lockHolder, bareMtx, bareWaiters>>
  BY DEF Worker, WorkerStep, SwitchAway, mutexVars
<1> USE <1>2
<1>3. /\ status \in [Fibers -> FiberStatus] /\ stack \in [Fibers -> StackStates]
      /\ queued \in [Fibers -> Nat] /\ FiberFits(f)
  BY DEF TypeOK, WaitTypeOK, FiberTypeOK, WaitersFit
<1> USE <1>3
<1>4. /\ FiberTypeOK' /\ FiberFits(f)'
      /\ Asleep(f)' <=> Asleep(f)
      /\ \A g \in Fibers : g # f => /\ status'[g] = status[g]
                                    /\ stack'[g] = stack[g] /\ queued'[g] = queued[g]
  <2>1. CASE Dispatch(f)
    <3>1. /\ queued' = [queued EXCEPT ![f] = @ - 1] /\ queued[f] > 0
          /\ status' = [status EXCEPT ![f] = "RUNNING"] /\ "RUNNING" \in FiberStatus
          /\ stack' = [stack EXCEPT ![f] = "on"] /\ "on" \in StackStates
      BY <2>1 DEF Dispatch, FiberStatus, StackStates
    <3>2. status[f] = "READY" /\ queued[f] = 1
      BY <3>1 DEF FiberFits
    <3>3. status'[f] = "RUNNING" /\ stack'[f] = "on" /\ queued'[f] = 0
      BY <3>1, <3>2
    <3>4. FiberTypeOK'
      BY <3>1, <3>2 DEF FiberTypeOK
    <3>5. FiberFits(f)' /\ (Asleep(f)' <=> Asleep(f))
      BY <3>2, <3>3 DEF FiberFits, Asleep
    <3> QED BY <3>1, <3>4, <3>5
  <2>2. CASE WorkerReturn(f)
    <3>1. /\ stack[f] = "saved" /\ stack' = [stack EXCEPT ![f] = "off"] /\ "off" \in StackStates
          /\ status' = [status EXCEPT ![f] = StatusAfterSwitch(status[f])]
          /\ queued' = [queued EXCEPT ![f] =
                          IF SwitchRequeues(status[f]) THEN queued[f] + 1 ELSE queued[f]]
      BY <2>2 DEF WorkerReturn, StackStates
    <3>2. /\ status[f] \in {"WANTS_SUSPEND", "SUSPEND_SIGNALED"} /\ queued[f] = 0
          /\ pc[f] = "queued"
      BY <3>1 DEF FiberFits
    <3>3. /\ StatusAfterSwitch("WANTS_SUSPEND") = "SUSPENDED" /\ ~SwitchRequeues("WANTS_SUSPEND")
          /\ StatusAfterSwitch("SUSPEND_SIGNALED") = "READY" /\ SwitchRequeues("SUSPEND_SIGNALED")
      BY DEF StatusAfterSwitch, SwitchRequeues
    <3>4. /\ status'[f] = StatusAfterSwitch(status[f]) /\ stack'[f] = "off"
          /\ queued'[f] = IF SwitchRequeues(status[f]) THEN queued[f] + 1 ELSE queued[f]
          /\ \A g \in Fibers : g # f => /\ status'[g] = status[g]
                                        /\ stack'[g] = stack[g] /\ queued'[g] = queued[g]
      BY <3>1
    <3>5. \/ status[f] = "WANTS_SUSPEND" /\ status'[f] = "SUSPENDED" /\ queued'[f] = 0
          \/ status[f] = "SUSPEND_SIGNALED" /\ status'[f] = "READY" /\ queued'[f] = 1
      BY <3>2, <3>3, <3>4
    <3>6. FiberTypeOK'
      <4>1. StatusAfterSwitch(status[f]) \in FiberStatus
        BY <3>4, <3>5 DEF FiberStatus
      <4>2. status' \in [Fibers -> FiberStatus] /\ stack' \in [Fibers -> StackStates]
        BY <3>1, <4>1
      <4>3. queued' \in [Fibers -> Nat]
        BY <3>1
      <4> QED BY <4>2, <4>3 DEF FiberTypeOK
    <3>7. FiberFits(f)' /\ (Asleep(f)' <=> Asleep(f))
      BY <3>2, <3>4, <3>5 DEF FiberFits, Asleep
    <3> QED BY <3>4, <3>6, <3>7
  <2>3. CASE SwitchAway(f)
    <3>1. /\ pc[f] = "queued" /\ stack[f] = "on" /\ status[f] # "RUNNING"
          /\ stack' = [stack EXCEPT ![f] = "saved"] /\ "saved" \in StackStates
          /\ UNCHANGED <<status, queued>>
      BY <2>3 DEF SwitchAway, Resumed, At, OnCpu, SwitchOut, StackStates
    <3>2. status[f] \in {"WANTS_SUSPEND", "SUSPEND_SIGNALED"} /\ queued[f] = 0
      BY <3>1 DEF FiberFits
    <3>3. stack'[f] = "saved" /\ \A g \in Fibers : g # f => stack'[g] = stack[g]
      BY <3>1
    <3>4. FiberTypeOK'
      BY <3>1 DEF FiberTypeOK
    <3>5. FiberFits(f)' /\ (Asleep(f)' <=> Asleep(f))
      BY <3>1, <3>2, <3>3 DEF FiberFits, Asleep
    <3> QED BY <3>1, <3>3, <3>4, <3>5
  <2> QED BY <2>1, <2>2, <2>3 DEF Worker, WorkerStep
<1> USE <1>4
<1>5. TypeOK'
  BY DEF TypeOK, WaitTypeOK
<1>6. ASSUME NEW g \in Fibers PROVE (Asleep(g)' <=> Asleep(g)) /\ FiberFits(g)'
  <2>1. CASE g = f
    BY <2>1
  <2>2. CASE g # f
    BY <2>2 DEF Asleep, FiberFits, WaitersFit
  <2> QED BY <2>1, <2>2
<1>7. ASSUME NEW g \in Fibers PROVE OneWaker(g)'
  <2>1. (Popped(g)' <=> Popped(g)) /\ (Ejected(g)' <=> Ejected(g)) /\ OneWaker(g)
    BY DEF Popped, Ejected, WaitersFit
  <2> QED BY <1>6, <2>1 DEF OneWaker
<1>8. WaitersFit'
  BY <1>6, <1>7 DEF WaitersFit
<1>9. CancellerFits' /\ HandsFit' /\ HolderIsOwner'
  BY DEF CancellerFits, HandsFit, HolderIsOwner
<1>10. ASSUME NEW c \in Callers PROVE Has(c)' <=> Has(c)
  BY <1>6 DEF Has, HandedOver
<1>11. OwnerFits'
  BY <1>10, OwnerKept
<1>12. BareFits'
  BY BareKept
<1> QED BY <1>5, <1>8, <1>9, <1>11, <1>12 DEF IInv

-----------------------------------------------------------------------------
(* Cancellation *)

\* Cancelling a scope only sets the canceller going.
LEMMA CancelStep ==
  ASSUME TypeOK, WaitersFit, CancellerFits, HandsFit, OwnerFits, HolderIsOwner, BareFits,
         NEW S \in SUBSET Cancellable, Cancel(S)
  PROVE  IInv'
<1>2. /\ UNCHANGED <<status, stack, queued, waiters, result, swept, pc, next>>
      /\ UNCHANGED <<locked, lockHolder, bareMtx, bareWaiters>>
      /\ canc = NoCanc /\ canc' = [step |-> "collect", tok |-> S]
      /\ cancelled' = cancelled \cup S
  BY DEF Cancel, CancelScope, fiberVars, mutexVars
<1> USE <1>2
<1>3. canc.step = "none" /\ canc'.step = "collect"
  BY DEF NoCanc
<1>4. S \in SUBSET Fibers
  BY WaitAssumption
<1>5. WaitTypeOK'
  BY <1>4 DEF TypeOK, WaitTypeOK, FiberTypeOK
<1>6. TypeOK'
  BY <1>5 DEF TypeOK
<1>7. ASSUME NEW f \in Fibers PROVE FiberFits(f)' /\ OneWaker(f)'
  <2>1. ~Ejected(f) /\ ~Ejected(f)'
    BY <1>3 DEF Ejected
  <2>2. (Asleep(f)' <=> Asleep(f)) /\ (Popped(f)' <=> Popped(f)) /\ OneWaker(f) /\ FiberFits(f)
    BY DEF Asleep, Popped, WaitersFit
  <2>3. OneWaker(f)'
    BY <2>1, <2>2 DEF OneWaker
  <2>4. FiberFits(f)'
    BY <2>2 DEF FiberFits
  <2> QED BY <2>3, <2>4
<1>8. WaitersFit'
  BY <1>7 DEF WaitersFit
<1>9. CancellerFits' /\ HandsFit' /\ HolderIsOwner'
  BY <1>3 DEF CancellerFits, HandsFit, HolderIsOwner
<1>10. ASSUME NEW c \in Callers PROVE Has(c)' <=> Has(c)
  BY DEF Has, HandedOver, Asleep
<1>11. OwnerFits'
  BY <1>10, OwnerKept
<1>12. BareFits'
  BY BareKept
<1> QED BY <1>6, <1>8, <1>9, <1>11, <1>12 DEF IInv

\* A pass of CancelWaiters moves its victims, and nobody else, from the queue
\* into the canceller's hands.
LEMMA CollectTakes ==
  ASSUME waiters \in Seq(Fibers), IsInjective(waiters), NEW M,
         canc.tok \in SUBSET Fibers, CollectVictims(M, "resume")
  PROVE  \E V \in SUBSET (ToSet(waiters) \cap M) :
           /\ waiters' \in Seq(Fibers) /\ IsInjective(waiters')
           /\ ToSet(waiters') = ToSet(waiters) \ V
           /\ \/ /\ V = {} /\ ToSet(waiters) \cap M = {}
                 /\ canc' = NoCanc /\ swept' = swept \cup canc.tok
              \/ \E v \in Seq(Fibers) :
                   /\ v # <<>> /\ IsInjective(v) /\ ToSet(v) = V
                   /\ canc' = [step |-> "resume", tok |-> canc.tok, victims |-> v,
                               full |-> Len(v) = Buf]
                   /\ swept' = swept
<1> DEFINE m == Only(waiters, M)
           n == IF Len(m) < Buf THEN Len(m) ELSE Buf
           v == SubSeq(m, 1, n)
<1>1. m \in Seq(Fibers) /\ ToSet(m) = ToSet(waiters) \cap M /\ IsInjective(m)
  BY OnlyKeeps
<1>2. /\ waiters' = Only(waiters, Fibers \ ToSet(v))
      /\ \/ n = 0 /\ canc' = NoCanc /\ swept' = swept \cup canc.tok
         \/ /\ n > 0 /\ swept' = swept
            /\ canc' = [step |-> "resume", tok |-> canc.tok, victims |-> v, full |-> n = Buf]
  BY DEF CollectVictims
<1>3. n \in 0..Len(m) /\ (n = 0 => Len(m) = 0)
  <2> HIDE DEF m
  <2> QED BY <1>1, WaitAssumption
<1>4. /\ v \in Seq(Fibers) /\ ToSet(v) \subseteq ToSet(m) /\ IsInjective(v)
      /\ n > 0 => v # <<>>
      /\ n = 0 => ToSet(v) = {}
  <2> HIDE DEF m, n
  <2> QED BY <1>1, <1>3, PrefixKeeps
<1>5. Len(v) = n
  <2> HIDE DEF m, n
  <2> QED BY <1>1, <1>3
<1>6. n = 0 => ToSet(m) = {}
  <2> HIDE DEF m, n
  <2> QED BY <1>1, <1>3 DEF ToSet
<1> HIDE DEF m, n, v
<1>7. /\ waiters' \in Seq(Fibers) /\ IsInjective(waiters')
      /\ ToSet(waiters') = ToSet(waiters) \cap (Fibers \ ToSet(v))
  BY <1>2, OnlyKeeps
<1>8. ToSet(waiters) \subseteq Fibers
  BY ElementsOf
<1>9. ToSet(waiters') = ToSet(waiters) \ ToSet(v)
  BY <1>7, <1>8
<1>10. ToSet(v) \in SUBSET (ToSet(waiters) \cap M)
  BY <1>1, <1>4
<1>11. CASE n = 0
  <2>1. ToSet(v) = {} /\ ToSet(waiters) \cap M = {}
    BY <1>1, <1>4, <1>6, <1>11
  <2>2. canc' = NoCanc /\ swept' = swept \cup canc.tok
    <3>1. ~(n > 0)
      BY <1>3, <1>11
    <3> QED BY <1>2, <3>1, Zenon
  <2> QED BY <1>7, <1>9, <1>10, <2>1, <2>2
<1>12. CASE n # 0
  <2>1. n > 0 /\ canc' = [step |-> "resume", tok |-> canc.tok, victims |-> v, full |-> Len(v) = Buf]
        /\ swept' = swept
    BY <1>2, <1>3, <1>5, <1>12
  <2> QED BY <1>4, <1>7, <1>9, <1>10, <2>1
<1> QED BY <1>11, <1>12

\* What the canceller's record holds while it collects and while it resumes.
LEMMA CancellerTyped ==
  ASSUME WaitTypeOK
  PROVE  /\ canc.step = "collect" => canc.tok \in SUBSET Fibers
         /\ canc.step = "resume" =>
              /\ canc.tok \in SUBSET Fibers
              /\ canc.victims \in Seq(Fibers) /\ canc.full \in BOOLEAN
              /\ canc \in [step : {"eject", "resume"}, tok : SUBSET Fibers,
                           victims : Seq(Fibers), full : BOOLEAN]
<1>1. CASE canc = NoCanc
  BY <1>1 DEF NoCanc
<1>2. CASE canc \in [step : {"collect"}, tok : SUBSET Fibers]
  BY <1>2
<1>3. CASE canc \in [step : {"eject", "resume"}, tok : SUBSET Fibers,
                     victims : Seq(Fibers), full : BOOLEAN]
  BY <1>3
<1> QED BY <1>1, <1>2, <1>3 DEF WaitTypeOK

\* The empty queue is the one without elements.
LEMMA EmptyQueue ==
  ASSUME NEW S, NEW s \in Seq(S)
  PROVE  s = <<>> <=> ToSet(s) = {}
BY DEF ToSet

\* A pass of CancelWaiters moves waiters from the queue to its victims.
LEMMA CollectStep ==
  ASSUME TypeOK, WaitersFit, CancellerFits, HandsFit, OwnerFits, HolderIsOwner, BareFits,
         CollectVictims(Cancellable \cap canc.tok, "resume"), UNCHANGED mutexVars
  PROVE  IInv'
<1>2. /\ UNCHANGED <<status, stack, queued, result, cancelled, pc, next>>
      /\ UNCHANGED <<locked, lockHolder, bareMtx, bareWaiters>>
      /\ canc.step = "collect"
  BY DEF CollectVictims, fiberVars, mutexVars
<1> USE <1>2
<1>3. /\ waiters \in Seq(Fibers) /\ IsInjective(waiters) /\ canc.tok \in SUBSET Fibers
      /\ swept \in SUBSET Fibers
  BY CancellerTyped DEF TypeOK, WaitTypeOK, WaitersFit
<1> USE <1>3
<1>4. PICK V \in SUBSET (ToSet(waiters) \cap (Cancellable \cap canc.tok)) :
        /\ waiters' \in Seq(Fibers) /\ IsInjective(waiters')
        /\ ToSet(waiters') = ToSet(waiters) \ V
        /\ \/ V = {} /\ canc' = NoCanc /\ swept' = swept \cup canc.tok
           \/ \E v \in Seq(Fibers) :
                /\ v # <<>> /\ IsInjective(v) /\ ToSet(v) = V
                /\ canc' = [step |-> "resume", tok |-> canc.tok, victims |-> v,
                            full |-> Len(v) = Buf]
                /\ swept' = swept
  BY CollectTakes
<1> USE <1>4
<1>5. /\ WaitTypeOK' /\ CancellerFits'
      /\ \A f \in Fibers : Ejected(f)' <=> f \in V
  <2>1. CASE V = {} /\ canc' = NoCanc /\ swept' = swept \cup canc.tok
    <3>1. canc'.step = "none"
      BY <2>1 DEF NoCanc
    <3>2. WaitTypeOK'
      BY <2>1 DEF TypeOK, WaitTypeOK, FiberTypeOK
    <3> QED BY <2>1, <3>1, <3>2 DEF CancellerFits, Ejected
  <2>2. ASSUME NEW v \in Seq(Fibers), v # <<>>, IsInjective(v), ToSet(v) = V,
               canc' = [step |-> "resume", tok |-> canc.tok, victims |-> v,
                        full |-> Len(v) = Buf],
               swept' = swept
        PROVE  /\ WaitTypeOK' /\ CancellerFits'
               /\ \A f \in Fibers : Ejected(f)' <=> f \in V
    <3>1. canc'.step = "resume" /\ canc'.victims = v
      BY <2>2
    <3>2. canc' \in [step : {"eject", "resume"}, tok : SUBSET Fibers,
                     victims : Seq(Fibers), full : BOOLEAN]
      BY <2>2
    <3>3. WaitTypeOK'
      BY <2>2, <3>2 DEF TypeOK, WaitTypeOK, FiberTypeOK
    <3>4. CancellerFits'
      BY <2>2, <3>1 DEF CancellerFits
    <3> QED BY <2>2, <3>1, <3>3, <3>4 DEF Ejected
  <2> QED BY <2>1, <2>2
<1> USE <1>5
<1>6. TypeOK'
  BY DEF TypeOK
<1>7. ASSUME NEW f \in Fibers PROVE FiberFits(f)' /\ OneWaker(f)'
  <2>1. (Asleep(f)' <=> Asleep(f)) /\ (Popped(f)' <=> Popped(f)) /\ OneWaker(f) /\ FiberFits(f)
    BY DEF Asleep, Popped, WaitersFit
  <2>2. ~Ejected(f) /\ (Ejected(f)' <=> f \in V)
    BY DEF Ejected
  <2>3. (f \in ToSet(waiters') <=> f \in ToSet(waiters) /\ f \notin V)
        /\ (f \in V => f \in ToSet(waiters))
    OBVIOUS
  <2>4. OneWaker(f)'
    BY <2>1, <2>2, <2>3 DEF OneWaker
  <2>5. FiberFits(f)'
    BY <2>1 DEF FiberFits
  <2> QED BY <2>4, <2>5
<1>8. WaitersFit'
  BY <1>7 DEF WaitersFit
<1>9. HandsFit' /\ HolderIsOwner'
  BY DEF HandsFit, HolderIsOwner
<1>10. ASSUME NEW c \in Callers PROVE Has(c)' <=> Has(c)
  BY DEF Has, HandedOver, Asleep
<1>11. waiters = <<>> => waiters' = <<>>
  BY EmptyQueue
<1>12. OwnerFits'
  BY <1>10, <1>11, OwnerKept
<1>13. BareFits'
  BY BareKept
<1> QED BY <1>6, <1>8, <1>9, <1>12, <1>13 DEF IInv

\* The first victim is resumed as cancelled, and leaves the canceller's hands.
LEMMA ResumeVictimStep ==
  ASSUME TypeOK, WaitersFit, CancellerFits, HandsFit, OwnerFits, HolderIsOwner, BareFits,
         ResumeVictim("resume"), UNCHANGED mutexVars
  PROVE  IInv'
<1>2. /\ UNCHANGED <<waiters, cancelled, pc, next>>
      /\ UNCHANGED <<locked, lockHolder, bareMtx, bareWaiters>>
      /\ canc.step = "resume" /\ NextVictim("resume")
  BY DEF ResumeVictim, mutexVars
<1>3. /\ canc.victims \in Seq(Fibers) /\ canc.victims # <<>> /\ IsInjective(canc.victims)
      /\ canc.tok \in SUBSET Fibers /\ canc.full \in BOOLEAN /\ swept \in SUBSET Fibers
      /\ ToSet(canc.victims) \subseteq Cancellable
      /\ FiberTypeOK /\ result \in [Fibers -> {"Ok", "Cancelled"}]
  BY <1>2, CancellerTyped DEF TypeOK, WaitTypeOK, CancellerFits
<1>4. PICK v \in Seq(Fibers) : v = canc.victims
  BY <1>3
<1>5. PICK g \in Fibers : g = Head(canc.victims)
  BY <1>3, TailRemoves
<1>6. /\ g \in ToSet(v) /\ Tail(v) \in Seq(Fibers) /\ ToSet(Tail(v)) = ToSet(v) \ {g}
      /\ IsInjective(Tail(v)) /\ Len(v) \in Nat \ {0}
      /\ Len(v) = 1 => ToSet(v) = {g}
      /\ Len(v) > 1 => Tail(v) # <<>>
  BY <1>3, <1>4, <1>5, TailRemoves
<1>7. g \in Cancellable
  BY <1>3, <1>4, <1>6
<1>8. result' = [result EXCEPT ![g] = "Cancelled"] /\ Resume(g)
  BY <1>5 DEF ResumeVictim
<1>9. /\ result' \in [Fibers -> {"Ok", "Cancelled"}] /\ result'[g] = "Cancelled"
      /\ \A f \in Fibers : f # g => result'[f] = result[f]
  BY <1>3, <1>8
<1>10. \A f \in Fibers : Ejected(f) <=> f \in ToSet(v)
  BY <1>2, <1>4 DEF Ejected
<1>11. Asleep(g) /\ FiberFits(g) /\ g \notin ToSet(waiters) /\ ~Popped(g)
  BY <1>6, <1>10 DEF WaitersFit, OneWaker
<1>12. /\ FiberTypeOK' /\ stack' = stack
       /\ \A f \in Fibers : f # g => status'[f] = status[f] /\ queued'[f] = queued[f]
       /\ FiberFits(g)' /\ ~Asleep(g)'
  BY <1>2, <1>3, <1>8, <1>11, ResumeWakes
<1>13. /\ CancellerFits'
       /\ canc' \in {NoCanc} \cup [step : {"collect"}, tok : SUBSET Fibers]
            \cup [step : {"eject", "resume"}, tok : SUBSET Fibers,
                  victims : Seq(Fibers), full : BOOLEAN]
       /\ swept' \in SUBSET Fibers
       /\ \A f \in Fibers : Ejected(f)' <=> f \in ToSet(v) /\ f # g
  <2>1. CASE Len(v) > 1
    <3>1. Len(canc.victims) # 1
      <4>1. \A n \in Nat : n > 1 => n # 1
        OBVIOUS
      <4>2. Len(v) \in Nat
        BY <1>6
      <4> QED BY <1>4, <2>1, <4>1, <4>2, Zenon
    <3>2. canc' = [canc EXCEPT !.step = "resume", !.victims = Tail(@)] /\ swept' = swept
      BY <1>2, <3>1, Zenon DEF NextVictim
    <3>3. canc \in [step : {"eject", "resume"}, tok : SUBSET Fibers,
                    victims : Seq(Fibers), full : BOOLEAN]
      BY <1>2, CancellerTyped DEF TypeOK
    <3>4. /\ canc' \in [step : {"eject", "resume"}, tok : SUBSET Fibers,
                        victims : Seq(Fibers), full : BOOLEAN]
          /\ canc'.step = "resume" /\ canc'.victims = Tail(v)
      BY <1>4, <1>6, <3>2, <3>3
    <3>5. CancellerFits'
      BY <1>3, <1>4, <1>6, <2>1, <3>4 DEF CancellerFits
    <3>6. \A f \in Fibers : Ejected(f)' <=> f \in ToSet(v) /\ f # g
      BY <1>6, <3>4 DEF Ejected
    <3> QED BY <1>3, <3>2, <3>4, <3>5, <3>6
  <2>2. CASE Len(v) = 1
    <3>1. /\ canc' \in {NoCanc, [step |-> "collect", tok |-> canc.tok]}
          /\ swept' \in {swept, swept \cup canc.tok}
      BY <1>2, <1>4, <2>2 DEF NextVictim
    <3>2. canc'.step \in {"none", "collect"}
      BY <3>1 DEF NoCanc
    <3>3. canc' \in {NoCanc} \cup [step : {"collect"}, tok : SUBSET Fibers]
      BY <1>3, <3>1
    <3>4. CancellerFits' /\ \A f \in Fibers : ~Ejected(f)'
      BY <3>2 DEF CancellerFits, Ejected
    <3> QED BY <1>3, <1>6, <2>2, <3>1, <3>3, <3>4
  <2>3. Len(v) > 1 \/ Len(v) = 1
    <3>1. \A n \in Nat \ {0} : n > 1 \/ n = 1
      OBVIOUS
    <3> QED BY <1>6, <3>1, Zenon
  <2> QED BY <2>1, <2>2, <2>3
<1>14. TypeOK'
  <2>1. WaitTypeOK'
    BY <1>2, <1>9, <1>12, <1>13 DEF TypeOK, WaitTypeOK
  <2> QED BY <1>2, <2>1 DEF TypeOK
<1>15. ASSUME NEW f \in Fibers PROVE FiberFits(f)' /\ OneWaker(f)'
  <2>1. (Popped(f)' <=> Popped(f)) /\ OneWaker(f) /\ FiberFits(f) /\ waiters' = waiters
    BY <1>2 DEF Popped, WaitersFit
  <2>2. CASE f = g
    <3>1. ~Ejected(f)'
      BY <1>13, <2>2
    <3> QED BY <1>11, <1>12, <2>1, <2>2, <3>1 DEF OneWaker
  <2>3. CASE f # g
    <3>1. (Ejected(f)' <=> Ejected(f)) /\ (Asleep(f)' <=> Asleep(f))
      BY <1>10, <1>12, <1>13, <2>3 DEF Asleep
    <3>2. OneWaker(f)'
      BY <2>1, <3>1 DEF OneWaker
    <3>3. FiberFits(f)'
      BY <1>2, <1>12, <2>1, <2>3 DEF FiberFits
    <3> QED BY <3>2, <3>3
  <2> QED BY <2>2, <2>3
<1>16. WaitersFit'
  BY <1>2, <1>15 DEF WaitersFit
<1>17. HandsFit' /\ HolderIsOwner'
  BY <1>2 DEF HandsFit, HolderIsOwner
<1>18. ASSUME NEW c \in Callers PROVE Has(c)' <=> Has(c)
  <2>1. CASE c = g
    <3>1. pc[c] = "queued"
      BY <1>11, <2>1, AsleepIsQueued
    <3> QED BY <1>2, <1>7, <1>9, <1>11, <2>1, <3>1 DEF Has, HandedOver
  <2>2. CASE c # g
    BY <1>2, <1>9, <1>12, <2>2 DEF Has, HandedOver, Asleep
  <2> QED BY <2>1, <2>2
<1>19. OwnerFits'
  BY <1>2, <1>18, OwnerKept
<1>20. BareFits'
  BY <1>2, BareKept
<1> QED BY <1>13, <1>14, <1>16, <1>17, <1>19, <1>20 DEF IInv

-----------------------------------------------------------------------------
(* Every step *)

\* Every step keeps the invariant.
LEMMA NextInv ==
  IInv /\ [Next]_vars => IInv'
<1> SUFFICES ASSUME IInv, [Next]_vars PROVE IInv'
  OBVIOUS
<1>0. TypeOK /\ WaitersFit /\ CancellerFits /\ HandsFit
      /\ OwnerFits /\ HolderIsOwner /\ BareFits
  BY DEF IInv
<1> USE <1>0
<1>1. ASSUME NEW f \in Fibers, FiberStep(f) PROVE IInv'
  <2>1. CASE Lock(f)
    BY <2>1, FiberTakes, FiberParks DEF Lock, At
  <2>2. CASE LockCancellable(f)
    BY <2>2, LockCancellableStep
  <2>3. CASE LockCancellableLocked(f)
    BY <2>3, FiberTakes, FiberParks DEF LockCancellableLocked, At
  <2>4. CASE Try_Lock(f)
    BY <2>4, FiberTakes DEF Try_Lock, At
  <2>5. CASE LockReturns(f)
    BY <2>5, LockReturnsStep
  <2>6. CASE StoreHolder(f)
    BY <2>6, StoreHolderStep
  <2> QED BY <1>1, <2>1, <2>2, <2>3, <2>4, <2>5, <2>6 DEF FiberStep
<1>2. ASSUME NEW t \in Threads, ThreadStep(t) PROVE IInv'
  BY <1>2, BareLockStep, BareRegisterStep, BareGateStep, BarePredStep, BareSleepStep,
     BareLeaveStep DEF ThreadStep
<1>3. ASSUME NEW c \in Callers, UnlockStep(c) PROVE IInv'
  <2>1. CASE UnlockPop(c)
    BY <2>1, UnlockPops, UnlockFrees
  <2> QED BY <1>3, <2>1, UnlockStartStep, UnlockHandOffStep, UnlockBareCheckStep,
             UnlockNotifyStep DEF UnlockStep
<1>4. CASE CancelWaiters
  BY <1>4, CollectStep, ResumeVictimStep DEF CancelWaiters
<1>5. ASSUME NEW S \in SUBSET Cancellable \ {{}}, Cancel(S) PROVE IInv'
  BY <1>5, CancelStep
<1>6. CASE UNCHANGED vars
  <2>1. /\ UNCHANGED <<status, stack, queued, waiters, result, cancelled, canc, swept, pc, next>>
        /\ UNCHANGED <<locked, lockHolder, bareMtx, bareWaiters>>
    BY <1>6 DEF vars, fiberVars, queueVars, mutexVars
  <2>2. TypeOK' /\ CancellerFits' /\ HandsFit' /\ HolderIsOwner'
    BY <2>1 DEF IInv, TypeOK, WaitTypeOK, FiberTypeOK, CancellerFits, HandsFit, HolderIsOwner
  <2>3. WaitersFit'
    BY <2>1, WaitersKept DEF IInv
  <2>4. \A c \in Callers : Has(c)' <=> Has(c)
    BY <2>1 DEF Has, HandedOver, Asleep
  <2>5. OwnerFits' /\ BareFits'
    BY <2>1, <2>4, OwnerKept, BareKept DEF IInv
  <2> QED BY <2>2, <2>3, <2>5 DEF IInv
<1> QED BY <1>1, <1>2, <1>3, <1>4, <1>5, <1>6, WorkerRuns DEF Next

\* The invariant is one of every behaviour of SchedulerMutex.
THEOREM MutexIsInvariant ==
  Spec => []IInv
BY InitInv, NextInv, PTL DEF Spec

-----------------------------------------------------------------------------
(* What follows from it *)

\* What Owns says, in the words of the invariant.
LEMMA OwnsIsHas ==
  ASSUME IInv, NEW c \in Callers
  PROVE  Owns(c) <=> Has(c)
<1>1. ASSUME c \in Fibers PROVE Granted(c) <=> HandedOver(c)
  <2>1. OneWaker(c)
    BY <1>1 DEF IInv, WaitersFit
  <2>2. InUnlock(c) = {} <=> ~Popped(c)
    BY DEF InUnlock, Popped
  <2> QED BY <2>1, <2>2 DEF Granted, HandedOver, OneWaker
<1> QED BY <1>1 DEF Owns, Has

\* What the invariant says of Has, said of Owns.
LEMMA OwnedByOne ==
  IInv => OneOwner
<1> SUFFICES ASSUME IInv PROVE OneOwner
  OBVIOUS
<1>1. \A c \in Callers : Owns(c) <=> Has(c)
  BY OwnsIsHas
<1>2. OwnerFits
  BY DEF IInv
<1>3. \A c, d \in Callers : Has(c) /\ Has(d) => c = d
  BY <1>2 DEF OwnerFits
<1>4. locked <=> \E c \in Callers : Has(c)
  BY <1>2 DEF OwnerFits
<1> QED BY <1>1, <1>3, <1>4 DEF OneOwner

\* Every fiber is in as many wakers' hands as the invariant says.
LEMMA WokenByOne ==
  IInv => ResumedOnce
<1> SUFFICES ASSUME IInv PROVE ResumedOnce
  OBVIOUS
<1>1. WaitersFit /\ HandsFit /\ OwnerFits /\ CancellerFits
  BY DEF IInv
<1>2. RunsInOnePlace
  <2>1. ASSUME NEW f \in Fibers PROVE queued[f] = 0 \/ (queued[f] = 1 /\ stack[f] = "off")
    BY <1>1 DEF WaitersFit, FiberFits
  <2>2. ASSUME NEW f \in Fibers
        PROVE  queued[f] <= 1 /\ (queued[f] = 1 => stack[f] = "off")
    <3>1. CASE queued[f] = 0
      BY <3>1
    <3>2. CASE queued[f] = 1 /\ stack[f] = "off"
      BY <3>2
    <3> QED BY <2>1, <3>1, <3>2
  <2> QED BY <2>2, Zenon DEF RunsInOnePlace
<1>3. ASSUME NEW f \in Fibers
      PROVE  LET inQueue == {i \in DOMAIN waiters : waiters[i] = f}
                 ejected == IF Ejected(f)
                            THEN {i \in DOMAIN canc.victims : canc.victims[i] = f} ELSE {}
             IN Cardinality(inQueue) + Cardinality(InUnlock(f)) + Cardinality(ejected)
                  = IF Asleep(f) THEN 1 ELSE 0
  <2> DEFINE inQueue == {i \in DOMAIN waiters : waiters[i] = f}
             ejected == IF Ejected(f)
                        THEN {i \in DOMAIN canc.victims : canc.victims[i] = f} ELSE {}
  <2>1. IF f \in ToSet(waiters) THEN \E i : inQueue = {i} ELSE inQueue = {}
    BY <1>1 DEF WaitersFit, ToSet, IsInjective
  <2>2. IF Popped(f) THEN \E c : InUnlock(f) = {c} ELSE InUnlock(f) = {}
    <3>1. \A c, d \in Callers : next[c] = f /\ next[d] = f => c = d
      BY <1>1, WaitAssumption DEF HandsFit, OwnerFits, Has
    <3> QED BY <3>1 DEF Popped, InUnlock
  <2>3. IF Ejected(f) THEN \E i : ejected = {i} ELSE ejected = {}
    BY <1>1 DEF CancellerFits, Ejected, ToSet, IsInjective
  <2>4. Cardinality(inQueue) = IF f \in ToSet(waiters) THEN 1 ELSE 0
    BY <2>1, FS_Singleton, FS_EmptySet
  <2>5. Cardinality(InUnlock(f)) = IF Popped(f) THEN 1 ELSE 0
    BY <2>2, FS_Singleton, FS_EmptySet
  <2>6. Cardinality(ejected) = IF Ejected(f) THEN 1 ELSE 0
    BY <2>3, FS_Singleton, FS_EmptySet
  <2>7. OneWaker(f)
    BY <1>1 DEF WaitersFit
  <2> HIDE DEF inQueue, ejected
  <2>8. Cardinality(inQueue) + Cardinality(InUnlock(f)) + Cardinality(ejected)
          = IF Asleep(f) THEN 1 ELSE 0
    BY <2>4, <2>5, <2>6, <2>7 DEF OneWaker
  <2> QED BY <2>8 DEF inQueue, ejected
<1> QED BY <1>2, <1>3 DEF ResumedOnce, OneWakerEach, Asleep

\* SchedulerMutex: `locked` is set exactly while one caller owns the lock,
\* through every hand-off by Unlock, and lockHolder names the fiber in the
\* critical section.
THEOREM MutexIsOwned ==
  Spec => []MutexOwnership
<1>1. IInv => MutexOwnership
  BY OwnedByOne DEF IInv, MutexOwnership
<1> QED BY <1>1, MutexIsInvariant, PTL

\* A waiter is resumed once: a fiber that is asleep or about to sleep is in one
\* slot of the queue, in the hands of one Unlock or among the victims of
\* CancelWaiters, and no fiber that was resumed still is.
THEOREM WaitersAreResumedOnce ==
  Spec => []ResumedOnce
BY WokenByOne, MutexIsInvariant, PTL

\* A bare thread never sleeps through a free lock.
THEOREM BareWaitersAreNotified ==
  Spec => []NoStrandedBareWaiter
<1>1. IInv => NoStrandedBareWaiter
  BY DEF IInv, BareFits, NoStrandedBareWaiter
<1> QED BY <1>1, MutexIsInvariant, PTL

=============================================================================
