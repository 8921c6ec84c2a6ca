------------------------------- MODULE Fiber --------------------------------
(***************************************************************************)
(* The park / wake protocol of a fiber, waker and worker interleaved at    *)
(* every atomic access.  A fiber that waits becomes parkable, publishes    *)
(* itself where a waker can find it, and switches away; a waker takes it   *)
(* off the list, loads the status, compare-exchanges it, and requeues the  *)
(* task if the fiber was already asleep.                                   *)
(*                                                                         *)
(* The wait list stands for any of the library's lists (mutex, semaphore,  *)
(* event table, wait group stack): each removes a waiter before resuming   *)
(* it, so a waiter has at most one waker.                                  *)
(***************************************************************************)
EXTENDS FiberSched, FiniteSets

CONSTANT Wakers

VARIABLES
  at,      \* where the fiber is in its own code
  listed,  \* the fibers a waker can find
  hand     \* what each waker has in its hands, see Hands

vars == <<status, stack, queued, at, listed, hand>>

Points == {"pool", "body", "parkable", "published"}

\* A waker holds nothing, or a fiber and the point it has reached: about to
\* load the status, about to compare-exchange from the value it loaded, or
\* about to requeue.
Hands == [step : {"none"}]
           \cup [step : {"load", "requeue"}, fiber : Fibers]
           \cup [step : {"cas"}, fiber : Fibers,
                 seen : {"SUSPENDED", "WANTS_SUSPEND"}]

Nothing == [step |-> "none"]
Holds(w, f) == hand[w].step # "none" /\ hand[w].fiber = f

TypeOK ==
  /\ FiberTypeOK
  /\ at \in [Fibers -> Points]
  /\ listed \in SUBSET Fibers
  /\ hand \in [Wakers -> Hands]

Init ==
  /\ status = [f \in Fibers |-> "READY"]
  /\ stack = [f \in Fibers |-> "off"]
  /\ queued = [f \in Fibers |-> 0]
  /\ at = [f \in Fibers |-> "pool"]
  /\ listed = {}
  /\ hand = [w \in Wakers |-> Nothing]

-----------------------------------------------------------------------------
(* The fiber *)

\* A worker takes a fiber from the pool for a new task and switches to it.
AcquireFiber(f) ==
  /\ at[f] = "pool"
  /\ at' = [at EXCEPT ![f] = "body"]
  /\ status' = [status EXCEPT ![f] = "RUNNING"]
  /\ stack' = [stack EXCEPT ![f] = "on"]
  /\ UNCHANGED <<queued, listed, hand>>

\* status.store(WANTS_SUSPEND): from here on a Resume is not dropped.
BecomeParkable(f) ==
  /\ OnCpu(f) /\ at[f] = "body"
  /\ status' = [status EXCEPT ![f] = "WANTS_SUSPEND"]
  /\ at' = [at EXCEPT ![f] = "parkable"]
  /\ UNCHANGED <<stack, queued, listed, hand>>

\* The fiber puts itself on the wait list, then the wakers see it.
Publish(f) ==
  /\ OnCpu(f) /\ at[f] = "parkable"
  /\ listed' = listed \cup {f}
  /\ at' = [at EXCEPT ![f] = "published"]
  /\ UNCHANGED <<status, stack, queued, hand>>

\* Faulty variant: leaves its entry on the list.
RetractKeepsEntry(f) ==
  /\ OnCpu(f) /\ at[f] = "published" /\ f \in listed
  /\ status' = [status EXCEPT ![f] = "RUNNING"]
  /\ at' = [at EXCEPT ![f] = "body"]
  /\ UNCHANGED <<stack, queued, listed, hand>>

\* WaitOnEvent finds its task cancelled after publishing, wins its own
\* entry back (Event::SelfRemove) and carries on without suspending.
Retract(f) ==
  /\ OnCpu(f) /\ at[f] = "published" /\ f \in listed
  /\ listed' = listed \ {f}
  /\ status' = [status EXCEPT ![f] = "RUNNING"]
  /\ at' = [at EXCEPT ![f] = "body"]
  /\ UNCHANGED <<stack, queued, hand>>

\* ContextSwitch of a published fiber.
Suspend(f) ==
  /\ at[f] = "published"
  /\ SwitchOut(f)
  /\ UNCHANGED <<status, queued, at, listed, hand>>

\* Fiber::CoYield.
CoYield(f) ==
  /\ at[f] = "body"
  /\ SwitchOut(f)
  /\ status' = [status EXCEPT ![f] = "WANTS_YIELD"]
  /\ UNCHANGED <<queued, at, listed, hand>>

\* The task's body returns: FiberEntryWrapper stores DEAD and switches away.
Finish(f) ==
  /\ at[f] = "body"
  /\ SwitchOut(f)
  /\ status' = [status EXCEPT ![f] = "DEAD"]
  /\ UNCHANGED <<queued, at, listed, hand>>

-----------------------------------------------------------------------------
(* The worker *)

\* A worker takes the task from a queue; a fiber that was suspended returns
\* from its ContextSwitch into the body.
Run(f) ==
  /\ Dispatch(f)
  /\ at' = [at EXCEPT ![f] = "body"]
  /\ UNCHANGED <<listed, hand>>

\* The status handling after the switch, for a fiber that is not DEAD.
AfterSwitch(f) ==
  /\ WorkerReturn(f)
  /\ UNCHANGED <<at, listed, hand>>

\* The DEAD branch: the fiber goes back to the pool, its status READY.
ReleaseFiber(f) ==
  /\ stack[f] = "saved" /\ status[f] = "DEAD"
  /\ stack' = [stack EXCEPT ![f] = "off"]
  /\ status' = [status EXCEPT ![f] = "READY"]
  /\ at' = [at EXCEPT ![f] = "pool"]
  /\ UNCHANGED <<queued, listed, hand>>

-----------------------------------------------------------------------------
(* The waker *)

\* Takes one waiter off the list.
Claim(w) ==
  /\ hand[w].step = "none"
  /\ \E f \in listed :
       /\ listed' = listed \ {f}
       /\ hand' = [hand EXCEPT ![w] = [step |-> "load", fiber |-> f]]
  /\ UNCHANGED <<status, stack, queued, at>>

\* Faulty variant: only a fiber that is fully asleep is resumed.
LoadStatusSleepersOnly(w) ==
  /\ hand[w].step = "load"
  /\ LET f == hand[w].fiber IN
       hand' = [hand EXCEPT ![w] =
                  IF status[f] = "SUSPENDED"
                  THEN [step |-> "cas", fiber |-> f, seen |-> status[f]]
                  ELSE Nothing]
  /\ UNCHANGED <<status, stack, queued, at, listed>>

\* ResumeQueueless loads the status and gives up on one it cannot resume.
LoadStatus(w) ==
  /\ hand[w].step = "load"
  /\ LET f == hand[w].fiber IN
       hand' = [hand EXCEPT ![w] =
                  IF status[f] \in {"SUSPENDED", "WANTS_SUSPEND"}
                  THEN [step |-> "cas", fiber |-> f, seen |-> status[f]]
                  ELSE Nothing]
  /\ UNCHANGED <<status, stack, queued, at, listed>>

\* Faulty variant: gives up where the loop must go round again.
CasStatusNoRetry(w) ==
  /\ hand[w].step = "cas"
  /\ LET f == hand[w].fiber
         won == status[f] = hand[w].seen
     IN /\ status' = IF won THEN [status EXCEPT ![f] = StatusAfterResume(@)] ELSE status
        /\ hand' = [hand EXCEPT ![w] =
                      IF won /\ ResumeRequeues(status[f])
                      THEN [step |-> "requeue", fiber |-> f] ELSE Nothing]
  /\ UNCHANGED <<stack, queued, at, listed>>

\* The compare-exchange.  From SUSPENDED its result is the return value;
\* from WANTS_SUSPEND a failure loops back to the load.
CasStatus(w) ==
  /\ hand[w].step = "cas"
  /\ LET f == hand[w].fiber IN
     \/ /\ status[f] = hand[w].seen
        /\ status' = [status EXCEPT ![f] = StatusAfterResume(@)]
        /\ hand' = [hand EXCEPT ![w] =
                      IF ResumeRequeues(status[f])
                      THEN [step |-> "requeue", fiber |-> f] ELSE Nothing]
     \/ /\ status[f] # hand[w].seen
        /\ hand' = [hand EXCEPT ![w] =
                      IF hand[w].seen = "WANTS_SUSPEND"
                      THEN [step |-> "load", fiber |-> f] ELSE Nothing]
        /\ status' = status
  /\ UNCHANGED <<stack, queued, at, listed>>

\* Fiber::Resume: Requeue(owningTask) after a ResumeQueueless that said so.
Requeue(w) ==
  /\ hand[w].step = "requeue"
  /\ queued' = [queued EXCEPT ![hand[w].fiber] = @ + 1]
  /\ hand' = [hand EXCEPT ![w] = Nothing]
  /\ UNCHANGED <<status, stack, at, listed>>

-----------------------------------------------------------------------------
FiberStep(f) ==
  \/ BecomeParkable(f) \/ Publish(f) \/ Retract(f) \/ Suspend(f)
  \/ CoYield(f) \/ Finish(f)

WorkerStep(f) == AcquireFiber(f) \/ Run(f) \/ AfterSwitch(f) \/ ReleaseFiber(f)

WakerStep(w) == Claim(w) \/ LoadStatus(w) \/ CasStatus(w) \/ Requeue(w)

Next ==
  \/ \E f \in Fibers : FiberStep(f) \/ WorkerStep(f)
  \/ \E w \in Wakers : WakerStep(w)

Spec == Init /\ [][Next]_vars

\* Workers keep looking for work, a fiber that has published itself goes on
\* to its ContextSwitch, and a waker that has taken a waiter finishes the
\* Resume call.  Nothing makes a waker look for a waiter.
Fairness ==
  /\ \A f \in Fibers :
       /\ WF_vars(Publish(f))
       /\ WF_vars(Suspend(f))
       /\ WF_vars(Run(f))
       /\ WF_vars(AfterSwitch(f))
       /\ WF_vars(ReleaseFiber(f))
  /\ \A w \in Wakers :
       WF_vars(LoadStatus(w) \/ CasStatus(w) \/ Requeue(w))

FairSpec == Spec /\ Fairness

-----------------------------------------------------------------------------
\* A parked fiber can still be found: it is on a wait list or in the hands of
\* a waker that has not resumed it yet.  (What the order "become parkable,
\* publish, switch" in the waits is for.)
NoStrandedFiber ==
  \A f \in Fibers :
    status[f] = "SUSPENDED" => f \in listed \/ \E w \in Wakers : Holds(w, f)

\* A runnable fiber is in exactly one place: its stack on a worker, a run
\* queue, or a waker about to queue it.  No two workers ever run one stack.
OnePlace ==
  \A f \in Fibers :
    /\ queued[f] <= 1
    /\ queued[f] = 1 => stack[f] = "off"
    /\ \A w \in Wakers :
         Holds(w, f) /\ hand[w].step = "requeue"
           => /\ queued[f] = 0
              /\ stack[f] = "off"
              /\ \A v \in Wakers \ {w} : ~Holds(v, f)

\* A fiber goes back to the pool with no waker left that could resume the
\* task that gets it next.
PooledIsUnknown ==
  \A f \in Fibers :
    at[f] = "pool" => f \notin listed /\ \A w \in Wakers : ~Holds(w, f)

-----------------------------------------------------------------------------
(* What a wait promises, without statuses, lists or queues. *)
phaseBar ==
  [f \in Fibers |->
     IF at[f] = "pool" \/ status[f] = "DEAD" THEN "idle"
     ELSE IF f \in listed THEN "waiting"
     ELSE IF OnCpu(f) /\ at[f] # "published" THEN "running"
     ELSE "ready"]

Abstract == INSTANCE ParkWake WITH phase <- phaseBar

\* The status protocol implements the abstract wait: a fiber runs again only
\* after its one wake, and does run again after it.
ImplementsParkWake == Abstract!FairSpec
=============================================================================
