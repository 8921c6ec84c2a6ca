------------------------------ MODULE WaitGroup -----------------------------
(***************************************************************************)
(* WaitGroup: counted tasks that finish, fibers that wait on the group's   *)
(* lock-free stack of direct waiters, and bare threads that poll the       *)
(* count.  The count and WAITER_BIT are one atomic word, the stack is a    *)
(* head pointer and the links in the fibers, and every access to either is *)
(* a step of its own.                                                      *)
(*                                                                         *)
(* The set of DirectEvent waiters is always empty: WaitFor's branch that   *)
(* would insert one comes after a branch with the same condition that      *)
(* returns.                                                                *)
(***************************************************************************)
EXTENDS FiberSched, FiniteSets

CONSTANTS
  Tasks,       \* tasks counted by the group
  Threads,     \* bare threads
  MaxSpawns,   \* bound: RunCounted calls of one fiber after the first round
  MaxWaits,    \* bound: WaitFor calls of one fiber
  Null

VARIABLES
  n,              \* the word: count and WAITER_BIT
  directWaiters,  \* head of the stack
  nextWaiter,     \* Fiber::nextWaiter
  mtx,            \* who holds WaitGroup::mtx
  pc,
  expect,         \* the head WaitFor's push loaded
  walk,           \* the first waiter a waker has still to resume
  spawns,
  waits

bounds == <<spawns, waits>>
wgVars == <<n, directWaiters, nextWaiter, mtx, pc, expect, walk, bounds>>
vars == <<fiberVars, wgVars>>

Wakers == Fibers \cup Tasks
Actors == Wakers \cup Threads

Points == {"body", "push", "arm", "drain", "clear", "walk", "switch",
           "running", "finished", "lock", "take", "unlock", "poll"}

TypeOK ==
  /\ FiberTypeOK
  /\ n \in [count : 0..Cardinality(Tasks), bit : BOOLEAN]
  /\ directWaiters \in Fibers \cup {Null}
  /\ nextWaiter \in [Fibers -> Fibers \cup {Null}]
  /\ mtx \in Tasks \cup {Null}
  /\ pc \in [Actors -> Points]
  /\ expect \in [Fibers -> Fibers \cup {Null}]
  /\ walk \in [Wakers -> Fibers \cup {Null}]
  /\ spawns \in [Fibers -> 0..MaxSpawns]
  /\ waits \in [Fibers -> 0..MaxWaits]

\* The first round has been pushed: every task is counted and may run.
Init ==
  /\ FiberInit
  /\ n = [count |-> Cardinality(Tasks), bit |-> FALSE]
  /\ directWaiters = Null
  /\ nextWaiter = [f \in Fibers |-> Null]
  /\ mtx = Null
  /\ pc = [a \in Actors |-> IF a \in Tasks THEN "running" ELSE "body"]
  /\ expect = [f \in Fibers |-> Null]
  /\ walk = [w \in Wakers |-> Null]
  /\ spawns = [f \in Fibers |-> 0]
  /\ waits = [f \in Fibers |-> 0]

Goto(a, p) == pc' = [pc EXCEPT ![a] = p]
At(a, p) == pc[a] = p /\ (a \in Fibers => OnCpu(a))

-----------------------------------------------------------------------------
(* RunCounted and the completion of a counted task *)

\* A fiber starts another task in the group.
RunCounted(f, t) ==
  /\ At(f, "body") /\ pc[t] = "finished" /\ spawns[f] < MaxSpawns
  /\ n' = [n EXCEPT !.count = @ + 1]
  /\ Goto(t, "running")
  /\ spawns' = [spawns EXCEPT ![f] = @ + 1]
  /\ UNCHANGED <<fiberVars, directWaiters, nextWaiter, mtx, expect, walk, waits>>

\* Faulty variant: everyone who sees WAITER_BIT wakes, not the last one out.
TaskDoneAnyoneWakes(t) ==
  /\ At(t, "running")
  /\ n' = [n EXCEPT !.count = @ - 1]
  /\ Goto(t, IF n.bit THEN "lock" ELSE "finished")
  /\ UNCHANGED <<fiberVars, directWaiters, nextWaiter, mtx, expect, walk, bounds>>

\* fetch_sub by the worker that ran the task: the last one out with
\* WAITER_BIT set calls WakeAll.
TaskDone(t) ==
  /\ At(t, "running")
  /\ n' = [n EXCEPT !.count = @ - 1]
  /\ Goto(t, IF n.count = 1 /\ n.bit THEN "lock" ELSE "finished")
  /\ UNCHANGED <<fiberVars, directWaiters, nextWaiter, mtx, expect, walk, bounds>>

-----------------------------------------------------------------------------
(* WaitFor on a fiber *)

\* Become parkable, and read the head for the push.
WaitFor(f) ==
  /\ At(f, "body") /\ waits[f] < MaxWaits
  /\ waits' = [waits EXCEPT ![f] = @ + 1]
  /\ status' = [status EXCEPT ![f] = "WANTS_SUSPEND"]
  /\ expect' = [expect EXCEPT ![f] = directWaiters]
  /\ nextWaiter' = [nextWaiter EXCEPT ![f] = directWaiters]
  /\ Goto(f, "push")
  /\ UNCHANGED <<stack, queued, n, directWaiters, mtx, walk, spawns>>

\* The compare-exchange of the push; a failure reloads the head.
PushDirectWaiter(f) ==
  /\ At(f, "push")
  /\ \/ /\ directWaiters = expect[f]
        /\ directWaiters' = f
        /\ Goto(f, "arm")
        /\ UNCHANGED <<expect, nextWaiter>>
     \/ /\ directWaiters # expect[f]
        /\ expect' = [expect EXCEPT ![f] = directWaiters]
        /\ nextWaiter' = [nextWaiter EXCEPT ![f] = directWaiters]
        /\ UNCHANGED <<directWaiters, pc>>
  /\ UNCHANGED <<fiberVars, n, mtx, walk, bounds>>

\* Faulty variant: the count is not looked at again.
ArmBlindly(f) ==
  /\ At(f, "arm")
  /\ n' = [n EXCEPT !.bit = TRUE]
  /\ Goto(f, "switch")
  /\ UNCHANGED <<fiberVars, directWaiters, nextWaiter, mtx, expect, walk, bounds>>

\* n.fetch_or(WAITER_BIT), and what it says of the count.
Arm(f) ==
  /\ At(f, "arm")
  /\ n' = [n EXCEPT !.bit = TRUE]
  /\ Goto(f, IF n.count = 0 THEN "drain" ELSE "switch")
  /\ UNCHANGED <<fiberVars, directWaiters, nextWaiter, mtx, expect, walk, bounds>>

\* ContextSwitch.
SwitchAway(f) ==
  /\ At(f, "switch") /\ status[f] # "RUNNING"
  /\ SwitchOut(f)
  /\ UNCHANGED <<status, queued, wgVars>>

WaitReturns(f) ==
  /\ At(f, "switch") /\ status[f] = "RUNNING"
  /\ Goto(f, "body")
  /\ UNCHANGED <<fiberVars, n, directWaiters, nextWaiter, mtx, expect, walk, bounds>>

-----------------------------------------------------------------------------
(* WakeAllDirect, called by a fiber that found the group finished *)

\* One exchange takes the stack; with nothing on it, nothing else happens.
DrainTake(f) ==
  /\ At(f, "drain")
  /\ walk' = [walk EXCEPT ![f] = directWaiters]
  /\ directWaiters' = Null
  /\ Goto(f, IF directWaiters = Null THEN "switch" ELSE "clear")
  /\ UNCHANGED <<fiberVars, n, nextWaiter, mtx, expect, bounds>>

DrainClear(f) ==
  /\ At(f, "clear")
  /\ n' = [n EXCEPT !.bit = FALSE]
  /\ Goto(f, "walk")
  /\ UNCHANGED <<fiberVars, directWaiters, nextWaiter, mtx, expect, walk, bounds>>

(* WakeAll, called by the last task out *)

WakeLock(t) ==
  /\ At(t, "lock") /\ mtx = Null
  /\ mtx' = t
  /\ Goto(t, "take")
  /\ UNCHANGED <<fiberVars, n, directWaiters, nextWaiter, expect, walk, bounds>>

\* Faulty variant: reads the head and leaves it.
WakeTakeCopies(t) ==
  /\ At(t, "take")
  /\ walk' = [walk EXCEPT ![t] = directWaiters]
  /\ Goto(t, "clear")
  /\ UNCHANGED <<fiberVars, n, directWaiters, nextWaiter, mtx, expect, bounds>>

WakeTake(t) ==
  /\ At(t, "take")
  /\ walk' = [walk EXCEPT ![t] = directWaiters]
  /\ directWaiters' = Null
  /\ Goto(t, "clear")
  /\ UNCHANGED <<fiberVars, n, nextWaiter, mtx, expect, bounds>>

WakeClear(t) ==
  /\ At(t, "clear") /\ t \in Tasks
  /\ n' = [n EXCEPT !.bit = FALSE]
  /\ Goto(t, "unlock")
  /\ UNCHANGED <<fiberVars, directWaiters, nextWaiter, mtx, expect, walk, bounds>>

WakeUnlock(t) ==
  /\ At(t, "unlock")
  /\ mtx' = Null
  /\ Goto(t, "walk")
  /\ UNCHANGED <<fiberVars, n, directWaiters, nextWaiter, expect, walk, bounds>>

\* Both walk the list they took: read the link, clear it, resume.
WakeWalk(w) ==
  /\ At(w, "walk")
  /\ \/ /\ walk[w] # Null
        /\ Resume(walk[w])
        /\ walk' = [walk EXCEPT ![w] = nextWaiter[walk[w]]]
        /\ nextWaiter' = [nextWaiter EXCEPT ![walk[w]] = Null]
        /\ pc' = pc
     \/ /\ walk[w] = Null
        /\ Goto(w, IF w \in Fibers THEN "switch" ELSE "finished")
        /\ UNCHANGED <<fiberVars, walk, nextWaiter>>
  /\ UNCHANGED <<n, directWaiters, mtx, expect, bounds>>

-----------------------------------------------------------------------------
(* WaitFor on a bare thread: while (n.load() > 0), the raw word *)

BareWaitFor(t) ==
  /\ At(t, "body")
  /\ Goto(t, "poll")
  /\ UNCHANGED <<fiberVars, n, directWaiters, nextWaiter, mtx, expect, walk, bounds>>

BareWaitReturns(t) ==
  /\ At(t, "poll") /\ n.count = 0 /\ ~n.bit
  /\ Goto(t, "body")
  /\ UNCHANGED <<fiberVars, n, directWaiters, nextWaiter, mtx, expect, walk, bounds>>

-----------------------------------------------------------------------------
Worker(f) == (Dispatch(f) \/ WorkerReturn(f)) /\ UNCHANGED wgVars

WaitStep(f) ==
  \/ PushDirectWaiter(f) \/ Arm(f) \/ SwitchAway(f) \/ WaitReturns(f)
  \/ DrainTake(f) \/ DrainClear(f) \/ WakeWalk(f)

TaskStep(t) ==
  \/ TaskDone(t) \/ WakeLock(t) \/ WakeTake(t) \/ WakeClear(t)
  \/ WakeUnlock(t) \/ WakeWalk(t)

Next ==
  \/ \E f \in Fibers : WaitFor(f) \/ WaitStep(f) \/ Worker(f)
  \/ \E f \in Fibers, t \in Tasks : RunCounted(f, t)
  \/ \E t \in Tasks : TaskStep(t)
  \/ \E t \in Threads : BareWaitFor(t) \/ BareWaitReturns(t)

Spec == Init /\ [][Next]_vars

\* Counted tasks finish, workers run what is queued, and a wait in progress
\* goes on.
FiberMust(f) == WaitStep(f) \/ Worker(f)

Fairness ==
  /\ \A f \in Fibers : WF_vars(FiberMust(f))
  /\ \A t \in Tasks : WF_vars(TaskStep(t))
  /\ \A t \in Threads : WF_vars(BareWaitReturns(t))

FairSpec == Spec /\ Fairness

-----------------------------------------------------------------------------
\* Everyone a list that starts at h reaches.
Reach(h) ==
  LET nth[i \in 0..Cardinality(Fibers)] ==
        IF i = 0 THEN h
        ELSE LET p == nth[i - 1] IN IF p = Null THEN Null ELSE nextWaiter[p]
  IN {nth[i] : i \in 0..Cardinality(Fibers)} \ {Null}

InWait(f) == status[f] \in {"WANTS_SUSPEND", "SUSPENDED"}

\* The links a waker follows are its own: every waiter that is published and
\* not resumed is on exactly one list, the group's stack or one waker's, and
\* a list holds nobody else.  (The link must be read before the Resume.)
ListsPartitionWaiters ==
  LET heads == {<<"stack", directWaiters>>}
                 \cup {<<w, walk[w]>> : w \in Wakers}
  IN \A f \in Fibers :
       Cardinality({h \in heads : f \in Reach(h[2])})
         = IF InWait(f) /\ pc[f] # "push" THEN 1 ELSE 0

\* "the top bit records that at least one waiter has parked, so a completing
\* task knows whether anyone needs waking": while tasks are outstanding, a
\* fiber that has armed and is still on the stack is announced by the bit.
ArmedIsAnnounced ==
  \A f \in Fibers :
    (n.count > 0 /\ f \in Reach(directWaiters) /\ pc[f] = "switch") => n.bit

FirstRound == \A f \in Fibers : spawns[f] = 0

\* As long as the group is not used for a second round, that is so.
AnnouncedInFirstRound == FirstRound => ArmedIsAnnounced

OneWaiter == \A f, g \in Fibers : waits[f] > 0 /\ waits[g] > 0 => f = g
OneUser ==
  \A f, g \in Fibers : waits[f] + spawns[f] > 0 /\ waits[g] + spawns[g] > 0 => f = g

\* A joined group is left alone: once the one fiber that uses it is back
\* from WaitFor, no task is still inside the group, so the frame that holds
\* it may go.  ("NOTHING BELOW MAY TOUCH `this`".)
GroupQuietAfterJoin ==
  (OneUser /\ n.count = 0 /\ \A f \in Fibers : pc[f] = "body" /\ OnCpu(f))
    => \A t \in Tasks : pc[t] \notin {"lock", "take", "clear", "unlock"}

\* A fiber that waits for the first round of the group returns from WaitFor.
FiberWaitEnds ==
  \A f \in Fibers : pc[f] = "push" ~> (pc[f] = "body" \/ ~FirstRound)

\* A bare thread that waits for a group that has finished for good returns:
\* "reading n raw and testing against 0 sees the bit and concludes work is
\* outstanding when none is".
BareWaitEnds ==
  \A t \in Threads : pc[t] = "poll" ~> pc[t] = "body"

\* With at most one fiber waiting on the group it does.
BareWaitEndsWithOneWaiter ==
  \A t \in Threads : pc[t] = "poll" ~> (pc[t] = "body" \/ ~OneWaiter)
=============================================================================
