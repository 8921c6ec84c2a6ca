----------------------------- MODULE FiberSched -----------------------------
(***************************************************************************)
(* The worker's side of the fiber status protocol: picking a fiber up,     *)
(* switching back from it, and what the worker does with the status it     *)
(* finds after the switch (src/Thread.cpp, run phase of Thread::Worker).    *)
(*                                                                         *)
(* This module only declares the state and the steps; the modules that     *)
(* extend it (Fiber, SchedulerMutex, SchedulerSemaphore, ...) supply the   *)
(* wakers and the next-state relation.  Workers are not named: a fiber     *)
(* that is in a run queue may be picked up at any time, which is what a    *)
(* pool with work stealing and enough workers allows.                      *)
(***************************************************************************)
EXTENDS Naturals

CONSTANT Fibers

VARIABLES
  status,   \* Fiber::status
  stack,    \* whose CPU the fiber's stack is on, see StackStates
  queued    \* how many run queues hold the fiber's task

fiberVars == <<status, stack, queued>>

FiberStatus == {"READY", "RUNNING", "WANTS_YIELD", "WANTS_SUSPEND",
                "SUSPEND_SIGNALED", "SUSPENDED", "DEAD"}

\* "on": a worker executes on the fiber's stack; "saved": ContextSwitch has
\* returned to the worker, which has not looked at the status yet; "off":
\* no worker has the fiber in its hands.
StackStates == {"on", "saved", "off"}

FiberTypeOK ==
  /\ status \in [Fibers -> FiberStatus]
  /\ stack \in [Fibers -> StackStates]
  /\ queued \in [Fibers -> Nat]

\* Every fiber starts in the body of its task.
FiberInit ==
  /\ status = [f \in Fibers |-> "RUNNING"]
  /\ stack = [f \in Fibers |-> "on"]
  /\ queued = [f \in Fibers |-> 0]

OnCpu(f) == stack[f] = "on"

-----------------------------------------------------------------------------
(* Fiber::ResumeQueueless as a function of the status it finds.  The load   *)
(* and the compare-exchange are one step here; Fiber.tla has them apart.    *)
StatusAfterResume(s) ==
  CASE s = "SUSPENDED"     -> "READY"
    [] s = "WANTS_SUSPEND" -> "SUSPEND_SIGNALED"
    [] OTHER               -> s

\* Faulty variant: requeues a fiber that is still on its worker.
ResumeRequeuesEarly(s) == s \in {"SUSPENDED", "WANTS_SUSPEND"}

\* ResumeQueueless returns true: the caller must requeue the task.
ResumeRequeues(s) == s = "SUSPENDED"

\* Fiber::Resume for every fiber of a set: ResumeQueueless, then Requeue.
ResumeAll(S) ==
  /\ status' = [f \in Fibers |->
                  IF f \in S THEN StatusAfterResume(status[f]) ELSE status[f]]
  /\ queued' = [f \in Fibers |->
                  IF f \in S /\ ResumeRequeues(status[f])
                  THEN queued[f] + 1 ELSE queued[f]]
  /\ stack' = stack

Resume(f) == ResumeAll({f})

-----------------------------------------------------------------------------
\* Faulty variant: runs a task that is in no queue.
DispatchUnqueued(f) ==
  /\ stack[f] = "off"
  /\ queued' = [queued EXCEPT ![f] = @ - 1]
  /\ status' = [status EXCEPT ![f] = "RUNNING"]
  /\ stack' = [stack EXCEPT ![f] = "on"]

\* A worker takes the task out of a run queue and switches to its fiber.
Dispatch(f) ==
  /\ queued[f] > 0
  /\ queued' = [queued EXCEPT ![f] = @ - 1]
  /\ status' = [status EXCEPT ![f] = "RUNNING"]
  /\ stack' = [stack EXCEPT ![f] = "on"]

\* ContextSwitch(&fiber->ctx, homeCtx): the context is saved, the worker is
\* back on its own stack.
SwitchOut(f) ==
  /\ OnCpu(f)
  /\ stack' = [stack EXCEPT ![f] = "saved"]

\* What the worker makes of the status it reads after the switch: the CAS
\* WANTS_SUSPEND -> SUSPENDED, or its failure because a waker has already
\* signalled; a status neither CAS nor branch names is left as it is.
StatusAfterSwitch(s) ==
  CASE s = "WANTS_SUSPEND"                       -> "SUSPENDED"
    [] s \in {"SUSPEND_SIGNALED", "WANTS_YIELD"} -> "READY"
    [] OTHER                                     -> s

SwitchRequeues(s) == s \in {"SUSPEND_SIGNALED", "WANTS_YIELD"}

\* The worker after the switch, for a fiber that has not finished.
WorkerReturn(f) ==
  /\ stack[f] = "saved"
  /\ status[f] # "DEAD"
  /\ stack' = [stack EXCEPT ![f] = "off"]
  /\ status' = [status EXCEPT ![f] = StatusAfterSwitch(@)]
  /\ queued' = [queued EXCEPT ![f] =
                  IF SwitchRequeues(status[f]) THEN @ + 1 ELSE @]

\* No fiber is in two places at once: in two run queues, or in a run queue
\* while a worker still stands on its stack.
RunsInOnePlace ==
  \A f \in Fibers : queued[f] <= 1 /\ (queued[f] = 1 => stack[f] = "off")
=============================================================================
