--------------------------- MODULE WaitPrimitive ----------------------------
(***************************************************************************)
(* What SchedulerMutex, SchedulerSemaphore and SchedulerConditionVariable  *)
(* share: a queue of waiters under a spin lock, a result slot per waiter,  *)
(* and CancelWaiters, which takes the waiters of a cancelled scope out of  *)
(* the queue in passes of at most Buf and resumes them outside the lock.   *)
(*                                                                         *)
(* A waiter's entry is its fiber.  The result slot is null exactly for the *)
(* fibers that are not in Cancellable; a token is the set of fibers within *)
(* its scope.  Coroutine waiters are left out: they are resumed by a Push  *)
(* and have no status word.                                                *)
(***************************************************************************)
EXTENDS FiberSched, Sequences, FiniteSets, SequencesExt

CONSTANTS
  Cancellable,   \* the fibers that use the cancellable form of the wait
  Threads,       \* threads that are not workers
  Buf,           \* kBuf, the victims one CancelWaiters pass collects
  NoTask         \* a null task pointer

ASSUME WaitAssumption ==
  /\ Cancellable \subseteq Fibers
  /\ Fibers \cap Threads = {}
  /\ NoTask \notin Fibers \cup Threads
  /\ Buf \in Nat \ {0}

VARIABLES
  waiters,    \* the queue
  cancelled,  \* fibers whose task is cancelled
  result,     \* the WaitResult of each fiber's wait
  canc,       \* the canceller: its token, its pass and its victims
  swept,      \* fibers whose scope was cancelled and then ejected
  pc          \* where each caller is

Callers == Fibers \cup Threads
NoCanc == [step |-> "none"]

WaitTypeOK ==
  /\ FiberTypeOK
  /\ waiters \in Seq(Fibers)
  /\ cancelled \subseteq Fibers
  /\ result \in [Fibers -> {"Ok", "Cancelled"}]
  /\ canc \in {NoCanc}
        \cup [step : {"collect"}, tok : SUBSET Fibers]
        \cup [step : {"eject", "resume"}, tok : SUBSET Fibers,
              victims : Seq(Fibers), full : BOOLEAN]
  /\ swept \subseteq Fibers

WaitInit ==
  /\ FiberInit
  /\ waiters = <<>>
  /\ cancelled = {}
  /\ result = [f \in Fibers |-> "Ok"]
  /\ canc = NoCanc
  /\ swept = {}
  /\ pc = [c \in Callers |-> "body"]

Goto(c, p) == pc' = [pc EXCEPT ![c] = p]

\* The caller is at p and executes: a fiber's code runs only while a worker
\* is on its stack, a thread's always.
At(c, p) == pc[c] = p /\ (c \in Fibers => OnCpu(c))

\* A fiber that has queued itself and been resumed: Dispatch stored RUNNING.
Resumed(f) == At(f, "queued") /\ status[f] = "RUNNING"

\* status = WANTS_SUSPEND and the push, both under spinLock.
Enqueue(f) ==
  /\ status' = [status EXCEPT ![f] = "WANTS_SUSPEND"]
  /\ waiters' = Append(waiters, f)
  /\ Goto(f, "queued")

\* ContextSwitch of a queued fiber that nobody has run since it queued.
SwitchAway(f) ==
  /\ At(f, "queued") /\ ~Resumed(f)
  /\ SwitchOut(f)
  /\ UNCHANGED <<status, queued, waiters, cancelled, result, canc, swept, pc>>

WorkerStep(f) ==
  /\ Dispatch(f) \/ WorkerReturn(f)
  /\ UNCHANGED <<waiters, cancelled, result, canc, swept, pc>>

-----------------------------------------------------------------------------
(* CancelWaiters *)

\* scope.Cancel(), then CancelWaiters(tok) on this primitive.
CancelScope(S) ==
  /\ canc = NoCanc
  /\ cancelled' = cancelled \cup S
  /\ canc' = [step |-> "collect", tok |-> S]
  /\ UNCHANGED <<fiberVars, waiters, result, swept, pc>>

\* The elements of s that are in M, in their order.
Only(s, M) ==
  LET at == {i \in DOMAIN s : s[i] \in M}
      Rank(i) == Cardinality({j \in at : j <= i})
  IN [k \in 1..Cardinality(at) |-> s[CHOOSE i \in at : Rank(i) = k]]

\* Faulty variant: the victims stay in the queue.
CollectVictimsCopies(M, then) ==
  /\ canc.step = "collect"
  /\ LET victims == Only(waiters, M)
     IN canc' = IF victims = <<>> THEN NoCanc
                ELSE [step |-> then, tok |-> canc.tok,
                      victims |-> <<Head(victims)>>, full |-> FALSE]
  /\ UNCHANGED <<fiberVars, waiters, swept, cancelled, result, pc>>

\* One pass under spinLock: the first Buf waiters that match (are in
\* M) leave the queue.
CollectVictims(M, then) ==
  /\ canc.step = "collect"
  /\ LET matching == Only(waiters, M)
         n == IF Len(matching) < Buf THEN Len(matching) ELSE Buf
         victims == SubSeq(matching, 1, n)
     IN /\ waiters' = Only(waiters, Fibers \ ToSet(victims))
        /\ \/ /\ n = 0
              /\ canc' = NoCanc
              /\ swept' = swept \cup canc.tok
           \/ /\ n > 0
              /\ canc' = [step |-> then, tok |-> canc.tok,
                          victims |-> victims, full |-> n = Buf]
              /\ swept' = swept
  /\ UNCHANGED <<fiberVars, cancelled, result, pc>>

\* Done with the first victim: the next one, another pass after the last one
\* of a full buffer, or the end.
NextVictim(step) ==
  \/ /\ Len(canc.victims) > 1
     /\ canc' = [canc EXCEPT !.step = step, !.victims = Tail(@)]
     /\ swept' = swept
  \/ /\ Len(canc.victims) = 1 /\ canc.full
     /\ canc' = [step |-> "collect", tok |-> canc.tok]
     /\ swept' = swept
  \/ /\ Len(canc.victims) = 1 /\ ~canc.full
     /\ canc' = NoCanc
     /\ swept' = swept \cup canc.tok

\* Outside spinLock, one victim: report Cancelled, resume.
ResumeVictim(step) ==
  /\ canc.step = "resume"
  /\ LET f == Head(canc.victims) IN
       /\ result' = [result EXCEPT ![f] = "Cancelled"]
       /\ Resume(f)
  /\ NextVictim(step)
  /\ UNCHANGED <<waiters, cancelled, pc>>

\* CancelWaiters has f in its victims and has not resumed it.
Ejected(f) == canc.step = "resume" /\ f \in ToSet(canc.victims)

-----------------------------------------------------------------------------
\* A waiter is resumed once: it is in one queue slot or in one waker's hands
\* (inHand of them, or CancelWaiters) exactly while it is parked or about to
\* park, whatever releases and ejections race.
OneWakerEach(InHand(_)) ==
  /\ RunsInOnePlace
  /\ \A f \in Fibers :
       LET inQueue == {i \in DOMAIN waiters : waiters[i] = f}
           ejected == IF Ejected(f)
                      THEN {i \in DOMAIN canc.victims : canc.victims[i] = f} ELSE {}
       IN Cardinality(inQueue) + Cardinality(InHand(f)) + Cardinality(ejected)
            = IF status[f] \in {"WANTS_SUSPEND", "SUSPENDED"} THEN 1 ELSE 0

\* Cancelling a scope and then ejecting its waiters misses nobody: a fiber
\* that looked at its task before the cancellation and queued after the
\* ejection pass would be stranded; a second look under the lock stops it.
SweptNeverQueued ==
  \A f \in swept \cap Cancellable : f \notin ToSet(waiters)
=============================================================================
