---------------------------- MODULE FiberRegistry ----------------------------
(***************************************************************************)
(* What happens to a fiber between its death and its next life: the caches *)
(* of the workers and the pool behind them, the chain that takes a dead    *)
(* fiber to every holder it owes a release, and the stack of pending debts *)
(* with the one reclaim task that sweeps it.                               *)
(*                                                                         *)
(* Holders below NumWorkers + 1 are workers and the others external        *)
(* threads, which drain their chain when they pump the main queue.  A debt *)
(* to AnyHolder is released by whoever runs the reclaim task.              *)
(***************************************************************************)
EXTENDS Integers, FiniteSets, FiniteSetsExt, Sequences, SequencesExt

CONSTANTS
  Fibers, NumWorkers, NumExternals,
  activeCapacity,   \* of a worker's cache
  AnyHolder,        \* FiberDebt::kAnyHolder
  MaxDebts,         \* bound on the debts registered
  MaxMoves          \* bound on resumes on another worker

VARIABLES
  available,    \* GlobalFiberPool::availableFibers
  cache,        \* a worker's ThreadLocalCache, last in first out
  status,       \* of a fiber: "READY", "RUNNING", "DEAD"
  on,           \* the worker a running fiber is on
  creditors, owed, debts, \* of a fiber; a debt is a number, due to holderOf
  holderOf,     \* of a debt
  inbound,      \* the chain of a holder
  jobs,         \* what a holder still has to do
  pending,      \* g_pendingDebts
  reclaimQueued,
  task,         \* the reclaim task: "none", "queued", or its step
  runner,       \* who runs it
  released,     \* of a debt: the holders that have released it
  moves

poolVars == <<available, cache>>
registryVars == <<poolVars, status, on, creditors, owed, debts, holderOf,
                  inbound, jobs, pending, reclaimQueued, task, runner, released, moves>>

Workers == 1..NumWorkers
Holders == 1..(NumWorkers + NumExternals)
Debts == 1..MaxDebts
Nobody == 0

Init ==
  /\ available = SetToSeq(Fibers)
  /\ cache = [w \in Workers |-> << >>]
  /\ status = [f \in Fibers |-> "READY"]
  /\ on = [f \in Fibers |-> Nobody]
  /\ creditors = [f \in Fibers |-> {}]
  /\ owed = [f \in Fibers |-> FALSE]
  /\ debts = [f \in Fibers |-> {}]
  /\ holderOf = [d \in Debts |-> Nobody]
  /\ inbound = [h \in Holders |-> << >>]
  /\ jobs = [h \in Holders |-> << >>]
  /\ pending = {}
  /\ reclaimQueued = FALSE
  /\ task = "none"
  /\ runner = Nobody
  /\ released = [d \in Debts |-> << >>]
  /\ moves = 0

Free(h) == jobs[h] = << >> /\ ~\E f \in Fibers : on[f] = h
Doing(h, kind) == jobs[h] # << >> /\ Head(jobs[h]).do = kind
Job(kind, f) == [do |-> kind, fiber |-> f]

\* ThreadLocalCache::Pop refills an empty cache from the pool (StealInto) and
\* takes the last.
Refill(w) ==
  IF cache[w] = << >> THEN SubSeq(available, 1, Min({activeCapacity, Len(available)}))
  ELSE << >>

Pop(w, f) ==
  LET have == cache[w] \o Refill(w)
  IN /\ have # << >> /\ f = Last(have)
     /\ cache' = [cache EXCEPT ![w] = Front(have)]
     /\ available' = SubSeq(available, Len(Refill(w)) + 1, Len(available))

\* ThreadLocalCache::Push spills the top half of a full cache first.
Spill(w) ==
  IF Len(cache[w]) >= activeCapacity
  THEN SubSeq(cache[w], Len(cache[w]) - (activeCapacity \div 2) + 1, Len(cache[w]))
  ELSE << >>

Push(w, f) ==
  /\ cache' = [cache EXCEPT ![w] = Append(SubSeq(@, 1, Len(@) - Len(Spill(w))), f)]
  /\ available' = available \o Spill(w)

\* AcquireFiber resets what it pops, and the worker that runs it becomes its
\* creditor.
AcquireFiber(w) ==
  \E f \in Fibers :
     /\ Free(w) /\ Pop(w, f)
     /\ status' = [status EXCEPT ![f] = "RUNNING"]
     /\ on' = [on EXCEPT ![f] = w]
     /\ creditors' = [creditors EXCEPT ![f] = {w}]
     /\ owed' = [owed EXCEPT ![f] = FALSE]
     /\ UNCHANGED <<debts, holderOf, inbound, jobs, pending, reclaimQueued, task, runner,
                    released, moves>>

\* A fiber that was suspended is resumed on another worker.
ResumeOn(f, w) ==
  /\ on[f] \in Workers \ {w} /\ Free(w) /\ moves < MaxMoves
  /\ on' = [on EXCEPT ![f] = w]
  /\ creditors' = [creditors EXCEPT ![f] = @ \cup {w}]
  /\ moves' = moves + 1
  /\ UNCHANGED <<available, cache, status, owed, debts, holderOf, inbound, jobs, pending,
                 reclaimQueued, task, runner, released>>

\* ReleaseOnWorker, called in the fiber.
ReleaseOnWorker(f, d, h) ==
  /\ on[f] # Nobody /\ holderOf[d] = Nobody
  /\ \A e \in Debts : e < d => holderOf[e] # Nobody
  /\ holderOf' = [holderOf EXCEPT ![d] = h]
  /\ debts' = [debts EXCEPT ![f] = @ \cup {d}]
  /\ owed' = [owed EXCEPT ![f] = TRUE]
  /\ creditors' = [creditors EXCEPT ![f] = IF h = AnyHolder THEN @ ELSE @ \cup {h}]
  /\ UNCHANGED <<available, cache, status, on, inbound, jobs, pending, reclaimQueued,
                 task, runner, released, moves>>

\* The worker finds its fiber DEAD.  One that owes nothing goes to the cache;
\* what the cache spills is reset by ReturnBatch.
DiesClean(f) ==
  LET w == on[f]
      back == Spill(w)
  IN /\ w # Nobody /\ ~owed[f]
     /\ status' = [g \in Fibers |-> IF g = f THEN "DEAD"
                                    ELSE IF Contains(back, g) THEN "READY" ELSE status[g]]
     /\ on' = [on EXCEPT ![f] = Nobody]
     /\ Push(w, f)
     /\ creditors' = [g \in Fibers |-> IF Contains(back, g) THEN {} ELSE creditors[g]]
     /\ UNCHANGED <<owed, debts, holderOf, inbound, jobs, pending, reclaimQueued, task,
                    runner, released, moves>>

DiesOwing(f) ==
  /\ on[f] # Nobody /\ owed[f]
  /\ status' = [status EXCEPT ![f] = "DEAD"]
  /\ on' = [on EXCEPT ![f] = Nobody]
  /\ jobs' = [jobs EXCEPT ![on[f]] = <<Job("advance", f)>>]
  /\ UNCHANGED <<available, cache, creditors, owed, debts, holderOf, inbound, pending,
                 reclaimQueued, task, runner, released, moves>>

\* DrainHolder: TakeAll takes the whole chain; each fiber of it is discharged
\* of what it owes here and sent on.
DrainHolder(h) ==
  /\ Free(h) /\ inbound[h] # << >>
  /\ jobs' = [jobs EXCEPT ![h] =
       FlattenSeq([i \in 1..Len(inbound[h]) |->
         <<Job("discharge", inbound[h][i]), Job("advance", inbound[h][i])>>])]
  /\ inbound' = [inbound EXCEPT ![h] = << >>]
  /\ UNCHANGED <<available, cache, status, on, creditors, owed, debts, holderOf, pending,
                 reclaimQueued, task, runner, released, moves>>

\* DischargeFiberDebts: what the fiber owes this holder.
DischargeFiberDebts(h) ==
  LET f == Head(jobs[h]).fiber
      mine == {d \in debts[f] : holderOf[d] = h}
  IN /\ Doing(h, "discharge")
     /\ debts' = [debts EXCEPT ![f] = @ \ mine]
     /\ released' = [d \in Debts |-> IF d \in mine THEN Append(released[d], h) ELSE released[d]]
     /\ jobs' = [jobs EXCEPT ![h] = Tail(@)]
     /\ UNCHANGED <<available, cache, status, on, creditors, owed, holderOf, inbound,
                    pending, reclaimQueued, task, runner, moves>>

\* The push onto a holder's chain.
Deliver(c, f) == inbound' = [inbound EXCEPT ![c] = <<f>> \o @]

\* Whoever claims the fiber out of DEAD asks for a sweep and returns it.
ReturnToPool(h, f) ==
  LET claimed == status[f] = "DEAD" IN
  /\ status' = [status EXCEPT ![f] = IF claimed THEN "READY" ELSE @]
  /\ jobs' = [jobs EXCEPT ![h] =
       (IF claimed THEN <<Job("queue", f), Job("reset", f)>> ELSE << >>) \o Tail(@)]

\* AdvanceCleanup: to the lowest creditor's chain (TakeCreditor, Deliver), or,
\* when none is left, back to the pool.
AdvanceCleanup(h) ==
  LET f == Head(jobs[h]).fiber
      c == Min(creditors[f])
  IN /\ Doing(h, "advance")
     /\ \/ /\ creditors[f] # {}
           /\ creditors' = [creditors EXCEPT ![f] = @ \ {c}]
           /\ Deliver(c, f)
           /\ jobs' = [jobs EXCEPT ![h] = Tail(@)]
           /\ UNCHANGED status
        \/ /\ creditors[f] = {}
           /\ ReturnToPool(h, f)
           /\ UNCHANGED <<creditors, inbound>>
     /\ UNCHANGED <<available, cache, on, owed, debts, holderOf, pending, reclaimQueued,
                    task, runner, released, moves>>

\* QueueReclaim: whoever sets the flag queues the one reclaim task.
QueueReclaim(h) ==
  /\ Doing(h, "queue")
  /\ IF reclaimQueued THEN UNCHANGED <<reclaimQueued, task>>
     ELSE reclaimQueued' = TRUE /\ task' = "queued"
  /\ jobs' = [jobs EXCEPT ![h] = Tail(@)]
  /\ UNCHANGED <<available, cache, status, on, creditors, owed, debts, holderOf, inbound,
                 pending, runner, released, moves>>

\* ReturnBatch of the one fiber: ResetForReuse, whose HandOffFiberDebts pushes
\* what nobody claimed and then asks for a sweep.
ResetForReuse(h) ==
  LET f == Head(jobs[h]).fiber IN
  /\ Doing(h, "reset")
  /\ creditors' = [creditors EXCEPT ![f] = {}]
  /\ owed' = [owed EXCEPT ![f] = FALSE]
  /\ pending' = pending \cup debts[f]
  /\ debts' = [debts EXCEPT ![f] = {}]
  /\ jobs' = [jobs EXCEPT ![h] =
       (IF debts[f] = {} THEN << >> ELSE <<Job("queue", f)>>)
         \o <<Job("return", f)>> \o Tail(@)]
  /\ UNCHANGED <<available, cache, status, on, holderOf, inbound, reclaimQueued, task,
                 runner, released, moves>>

\* The same where the push, a release operation, becomes visible only after
\* the flag was found set.
ResetForReuseLate(h) ==
  LET f == Head(jobs[h]).fiber IN
  /\ Doing(h, "reset") /\ debts[f] # {} /\ reclaimQueued
  /\ creditors' = [creditors EXCEPT ![f] = {}]
  /\ owed' = [owed EXCEPT ![f] = FALSE]
  /\ jobs' = [jobs EXCEPT ![h] = <<Job("push", f), Job("return", f)>> \o Tail(@)]
  /\ UNCHANGED <<available, cache, status, on, debts, holderOf, inbound, pending,
                 reclaimQueued, task, runner, released, moves>>

PushLate(h) ==
  LET f == Head(jobs[h]).fiber IN
  /\ Doing(h, "push")
  /\ pending' = pending \cup debts[f]
  /\ debts' = [debts EXCEPT ![f] = {}]
  /\ jobs' = [jobs EXCEPT ![h] = Tail(@)]
  /\ UNCHANGED <<available, cache, status, on, creditors, owed, holderOf, inbound,
                 reclaimQueued, task, runner, released, moves>>

ReturnBatch(h) ==
  LET f == Head(jobs[h]).fiber IN
  /\ Doing(h, "return")
  /\ available' = Append(available, f)
  /\ jobs' = [jobs EXCEPT ![h] = Tail(@)]
  /\ UNCHANGED <<cache, status, on, creditors, owed, debts, holderOf, inbound, pending,
                 reclaimQueued, task, runner, released, moves>>

\* The reclaim task, on some worker: ReleasePendingDebts takes the stack in one
\* exchange and releases it, ...
ReleasePendingDebts(w) ==
  /\ task = "queued" /\ Free(w)
  /\ pending' = {}
  /\ released' = [d \in Debts |-> IF d \in pending THEN Append(released[d], w)
                                  ELSE released[d]]
  /\ task' = "swept" /\ runner' = w
  /\ jobs' = [jobs EXCEPT ![w] = <<Job("reclaim", Nobody)>>]
  /\ UNCHANGED <<available, cache, status, on, creditors, owed, debts, holderOf, inbound,
                 reclaimQueued, moves>>

\* ... then clears the flag ...
ClearFlag(w) ==
  /\ runner = w /\ task = "swept"
  /\ reclaimQueued' = FALSE
  /\ task' = "none"
  /\ jobs' = [jobs EXCEPT ![w] = <<Job("recheck", Nobody)>>]
  /\ runner' = Nobody
  /\ UNCHANGED <<available, cache, status, on, creditors, owed, debts, holderOf, inbound,
                 pending, released, moves>>

\* A faulty build without the look back.
RecheckNothing(w) ==
  /\ Doing(w, "recheck")
  /\ jobs' = [jobs EXCEPT ![w] = << >>]
  /\ UNCHANGED <<available, cache, status, on, creditors, owed, debts, holderOf, inbound,
                 pending, reclaimQueued, task, runner, released, moves>>

\* ... and looks at the stack again.
Recheck(w) ==
  /\ Doing(w, "recheck")
  /\ jobs' = [jobs EXCEPT ![w] = IF pending = {} THEN << >> ELSE <<Job("queue", Nobody)>>]
  /\ UNCHANGED <<available, cache, status, on, creditors, owed, debts, holderOf, inbound,
                 pending, reclaimQueued, task, runner, released, moves>>

HolderNext(h) ==
  \/ DrainHolder(h) \/ DischargeFiberDebts(h) \/ AdvanceCleanup(h)
  \/ QueueReclaim(h) \/ ResetForReuse(h) \/ ReturnBatch(h)

WorkerNext(w) ==
  \/ AcquireFiber(w)
  \/ ReleasePendingDebts(w) \/ ClearFlag(w) \/ Recheck(w)
  \/ \E f \in Fibers : ResumeOn(f, w)

FiberNext(f) ==
  \/ DiesClean(f) \/ DiesOwing(f)
  \/ \E d \in Debts, h \in Holders \cup {AnyHolder} : ReleaseOnWorker(f, d, h)

Next ==
  \/ \E h \in Holders : HolderNext(h)
  \/ \E w \in Workers : WorkerNext(w)
  \/ \E f \in Fibers : FiberNext(f)

Spec == Init /\ [][Next]_registryVars

SpecLate ==
  Init /\ [][Next \/ \E h \in Holders : ResetForReuseLate(h) \/ PushLate(h)]_registryVars

-----------------------------------------------------------------------------
\* The state is of its type.
TypeOK ==
  /\ Range(available) \subseteq Fibers
  /\ \A w \in Workers : Range(cache[w]) \subseteq Fibers /\ Len(cache[w]) <= activeCapacity
  /\ status \in [Fibers -> {"READY", "RUNNING", "DEAD"}]
  /\ on \in [Fibers -> Workers \cup {Nobody}]
  /\ creditors \in [Fibers -> SUBSET Holders]
  /\ owed \in [Fibers -> BOOLEAN] /\ debts \in [Fibers -> SUBSET Debts]
  /\ holderOf \in [Debts -> Holders \cup {Nobody, AnyHolder}]
  /\ pending \subseteq Debts /\ reclaimQueued \in BOOLEAN
  /\ task \in {"none", "queued", "swept"} /\ runner \in Workers \cup {Nobody}

Count(s, f) == Cardinality({i \in DOMAIN s : s[i] = f})

\* The holders with f in their hands.
Carries(h, f) == \E i \in DOMAIN jobs[h] : jobs[h][i].fiber = f

\* A fiber is in the pool, in one cache, running, on one chain or in the hands
\* of one holder: it is never on two chains at once, nor recycled while a
\* holder it owes is still to see it.
FiberInOnePlace ==
  \A f \in Fibers :
    1 = Count(available, f) + (IF on[f] = Nobody THEN 0 ELSE 1)
          + FoldSet(LAMBDA w, n : Count(cache[w], f) + n, 0, Workers)
          + FoldSet(LAMBDA h, n : Count(inbound[h], f) + n, 0, Holders)
          + Cardinality({h \in Holders : Carries(h, f)})

\* A debt is released once, and by the holder it names if it names one.
DebtsReleasedByHolder ==
  \A d \in Debts :
    /\ Len(released[d]) <= 1
    /\ released[d] # << >> => holderOf[d] \in {released[d][1], AnyHolder}

\* A debt on the stack has a sweep coming: the last fiber to die pushes its
\* debts while the reclaim task clears its flag, and nobody dies after it.
PendingIsSwept ==
  pending # {} =>
    \/ reclaimQueued
    \/ \E h \in Holders : Doing(h, "queue") \/ Doing(h, "recheck")
=============================================================================
