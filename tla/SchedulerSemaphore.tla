------------------------- MODULE SchedulerSemaphore -------------------------
(***************************************************************************)
(* SchedulerSemaphore: fibers that take a permit with Wait or              *)
(* WaitCancellable and give it back with Signal, bare threads that poll    *)
(* Try_Wait and post with Signal, and a canceller that cancels a scope and *)
(* then ejects its waiters (CancelWaiters).                                *)
(*                                                                         *)
(* One step is one critical section of spinLock or the code between two    *)
(* of them.                                                                *)
(***************************************************************************)
EXTENDS WaitPrimitive

CONSTANTS
  InitPermits,
  MaxPermits,
  MaxPosts       \* bound: Signals by bare threads that hold no permit

VARIABLES
  permits,
  sig,        \* Signal's locals: the waiter popped and `empty`
  posts,      \* Signals by bare threads that held no permit, so far
  dropped     \* Signals that found permits at maxPermits

semVars == <<permits, sig, posts, dropped>>
vars == <<fiberVars, waiters, cancelled, result, canc, swept, pc, semVars>>

NoSig == [step |-> "none"]

TypeOK ==
  /\ WaitTypeOK
  /\ permits \in 0..MaxPermits
  /\ pc \in [Callers -> {"body", "checked", "queued", "holding"}]
  /\ sig \in [Callers -> {NoSig}
                \cup [step : {"resume", "relock"}, waiter : Fibers,
                      empty : BOOLEAN]]
  /\ posts \in 0..MaxPosts
  /\ dropped \in Nat

Init ==
  /\ WaitInit
  /\ permits = InitPermits
  /\ sig = [c \in Callers |-> NoSig]
  /\ posts = 0
  /\ dropped = 0

-----------------------------------------------------------------------------
(* Wait, WaitCancellable, Try_Wait *)

TakePermit(c) ==
  /\ permits > 0
  /\ permits' = permits - 1
  /\ Goto(c, "holding")
  /\ UNCHANGED <<status, waiters, result>>

Park(f) ==
  /\ permits = 0
  /\ Enqueue(f)
  /\ UNCHANGED <<permits, result>>

Wait(f) ==
  /\ f \notin Cancellable /\ At(f, "body") /\ sig[f] = NoSig
  /\ TakePermit(f) \/ Park(f)
  /\ UNCHANGED <<stack, queued, cancelled, canc, swept, sig, posts, dropped>>

\* WaitCancellable's first look at the task, before spinLock.
WaitCancellable(f) ==
  /\ f \in Cancellable /\ At(f, "body") /\ sig[f] = NoSig
  /\ f \notin cancelled
  /\ Goto(f, "checked")
  /\ result' = [result EXCEPT ![f] = "Ok"]
  /\ UNCHANGED <<fiberVars, waiters, cancelled, canc, swept, semVars>>

\* Faulty variant: no second look at the task.
WaitCancellableOneLook(f) ==
  /\ At(f, "checked")
  /\ TakePermit(f) \/ Park(f)
  /\ UNCHANGED <<stack, queued, cancelled, canc, swept, sig, posts, dropped>>

\* Under spinLock: a permit, or the second look at the task, or the queue.
WaitCancellableLocked(f) ==
  /\ At(f, "checked")
  /\ \/ TakePermit(f)
     \/ /\ permits = 0 /\ f \in cancelled
        /\ result' = [result EXCEPT ![f] = "Cancelled"]
        /\ Goto(f, "body")
        /\ UNCHANGED <<status, permits, waiters>>
     \/ f \notin cancelled /\ Park(f)
  /\ UNCHANGED <<stack, queued, cancelled, canc, swept, sig, posts, dropped>>

\* Back from ContextSwitch: a plain Wait has its permit, a cancellable one
\* what its result slot says.
WaitReturns(f) ==
  /\ Resumed(f)
  /\ Goto(f, IF f \in Cancellable /\ result[f] = "Cancelled"
             THEN "body" ELSE "holding")
  /\ UNCHANGED <<fiberVars, waiters, cancelled, result, canc, swept, semVars>>

\* A bare thread's Wait: SpinThenHelp polls Try_Wait until it succeeds.
Try_Wait(t) ==
  /\ At(t, "body") /\ sig[t] = NoSig
  /\ TakePermit(t)
  /\ UNCHANGED <<stack, queued, cancelled, canc, swept, sig, posts, dropped>>

-----------------------------------------------------------------------------
(* Signal *)

\* The first waiter leaves the queue; spinLock is released with `empty` as
\* it was at that moment.
PopWaiter(c) ==
  /\ waiters # <<>>
  /\ sig' = [sig EXCEPT ![c] = [step |-> "resume", waiter |-> Head(waiters),
                                empty |-> Tail(waiters) = <<>>]]
  /\ waiters' = Tail(waiters)
  /\ UNCHANGED <<permits, dropped>>

\* if (permits < maxPermits) ++permits.
StorePermit(c) ==
  /\ \/ permits < MaxPermits /\ permits' = permits + 1 /\ dropped' = dropped
     \/ permits = MaxPermits /\ permits' = permits /\ dropped' = dropped + 1
  /\ sig' = [sig EXCEPT ![c] = NoSig]
  /\ waiters' = waiters

\* A caller that holds a permit gives it back; a bare thread may also post
\* one it never took.
Signal(c) ==
  /\ sig[c] = NoSig
  /\ \/ At(c, "holding") /\ posts' = posts
     \/ c \in Threads /\ At(c, "body") /\ posts < MaxPosts /\ posts' = posts + 1
  /\ Goto(c, "body")
  /\ PopWaiter(c) \/ (waiters = <<>> /\ StorePermit(c))
  /\ UNCHANGED <<fiberVars, cancelled, result, canc, swept>>

\* Outside spinLock: skip a cancelled waiter or hand it the permit; either
\* way it is resumed.
SignalResume(c) ==
  /\ At(c, "body") /\ sig[c].step = "resume"
  /\ LET next == sig[c].waiter
         skip == next \in Cancellable /\ next \in cancelled
     IN /\ Resume(next)
        /\ result' = [result EXCEPT ![next] = IF skip THEN "Cancelled" ELSE "Ok"]
        /\ sig' = [sig EXCEPT ![c] =
                     IF skip THEN [@ EXCEPT !.step = "relock"] ELSE NoSig]
  /\ UNCHANGED <<waiters, cancelled, canc, swept, pc, permits, posts, dropped>>

\* Faulty variant: the permit of a skipped waiter is lost.
SignalRelockDrops(c) ==
  /\ At(c, "body") /\ sig[c].step = "relock"
  /\ sig' = [sig EXCEPT ![c] = NoSig]
  /\ UNCHANGED <<fiberVars, waiters, cancelled, result, canc, swept, pc,
                 permits, posts, dropped>>

\* spinLock again after a skipped waiter.
SignalRelock(c) ==
  /\ At(c, "body") /\ sig[c].step = "relock"
  /\ \/ (sig[c].empty \/ waiters = <<>>) /\ StorePermit(c)
     \/ ~sig[c].empty /\ PopWaiter(c)
  /\ UNCHANGED <<fiberVars, cancelled, result, canc, swept, pc, posts>>

-----------------------------------------------------------------------------
(* CancelWaiters *)

Cancel(S) == CancelScope(S) /\ UNCHANGED semVars

CancelWaiters ==
  /\ \/ canc # NoCanc /\ CollectVictims(Cancellable \cap canc.tok, "resume")
     \/ ResumeVictim("resume")
  /\ UNCHANGED semVars

-----------------------------------------------------------------------------
Worker(f) == (WorkerStep(f) \/ SwitchAway(f)) /\ UNCHANGED semVars

FiberStep(f) ==
  \/ Wait(f) \/ WaitCancellable(f) \/ WaitCancellableLocked(f) \/ WaitReturns(f)

Next ==
  \/ \E f \in Fibers : FiberStep(f) \/ Worker(f)
  \/ \E t \in Threads : Try_Wait(t)
  \/ \E c \in Callers : Signal(c) \/ SignalResume(c) \/ SignalRelock(c)
  \/ \E S \in SUBSET Cancellable \ {{}} : Cancel(S)
  \/ CancelWaiters

Spec == Init /\ [][Next]_vars

\* Workers run what is queued, code that runs goes on, and whoever holds a
\* permit gives it back in the end.  Nothing obliges anyone to wait, to post
\* or to cancel.
FiberMust(f) == Worker(f) \/ WaitReturns(f) \/ WaitCancellableLocked(f)
SignalMust(c) == (At(c, "holding") /\ Signal(c)) \/ SignalResume(c) \/ SignalRelock(c)

Fairness ==
  /\ \A f \in Fibers : WF_vars(FiberMust(f))
  /\ \A c \in Callers : WF_vars(SignalMust(c))
  /\ WF_vars(CancelWaiters)

FairSpec == Spec /\ Fairness

-----------------------------------------------------------------------------
InSignal(f) ==
  {c \in Callers : sig[c] # NoSig /\ sig[c].step = "resume" /\ sig[c].waiter = f}

\* Resumed with a permit and not back from the wait yet.
Granted(f) ==
  /\ pc[f] = "queued" /\ f \notin ToSet(waiters)
  /\ InSignal(f) = {} /\ ~Ejected(f)
  /\ ~(f \in Cancellable /\ result[f] = "Cancelled")

\* Every permit is in one place: in the counter, with a caller, on its way to
\* a waiter that was granted it, in the hands of a Signal in progress, or
\* dropped by a Signal that found the counter full.  Skipping and ejecting
\* cancelled waiters neither makes nor loses one.
PermitsConserved ==
  permits + dropped
    + Cardinality({c \in Callers : pc[c] = "holding"})
    + Cardinality({f \in Fibers : Granted(f)})
    + Cardinality({c \in Callers : sig[c] # NoSig})
  = InitPermits + posts

\* A waiter is resumed once, by Signal or by CancelWaiters.
ResumedOnce == OneWakerEach(InSignal)

\* "The permit is never parked in `permits` while a real waiter exists": a
\* waiter that is not cancelled is never in the queue with a permit free.
NoPermitParkedPastAWaiter ==
  permits > 0 => \A i \in DOMAIN waiters :
                   waiters[i] \in Cancellable /\ waiters[i] \in cancelled

\* Without cancellation that is so, and stays so.
NoPermitParkedIfUncancelled == cancelled = {} => NoPermitParkedPastAWaiter

\* With every holder releasing, a waiter gets its permit, as long as nobody
\* is cancelled.
WaiterServed ==
  \A f \in Fibers :
    pc[f] = "queued" ~> (pc[f] = "holding" \/ cancelled # {})
=============================================================================
