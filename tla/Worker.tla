------------------------------- MODULE Worker -------------------------------
(***************************************************************************)
(* The worker pool: Thread::Worker's acquire, run and park phases, the     *)
(* permit Wake() leaves in workerState, and everything that puts work into *)
(* a worker's queues or moves the bands under it (src/Thread.cpp,          *)
(* src/TaskScheduler.cpp).                                                 *)
(*                                                                         *)
(* A worker moves through the labels below, one shared access per step.    *)
(* Whoever submits work or moves the bands has a script: the accesses it   *)
(* still has to make, in order.  A worker that requeues a task has one     *)
(* too and does not go on until it is through.                             *)
(*                                                                         *)
(* Queues are sets: their order is not what is at stake here, and the      *)
(* queues' own algorithms are modelled apart.  The awake map that steers   *)
(* PickNextWorker, inboxDepth and the clocks are heuristics: what they     *)
(* decide is a choice here.                                                *)
(***************************************************************************)
EXTENDS BandsWord, Sequences, FiniteSets

CONSTANTS
  Tasks,
  LaneTasks,     \* the tasks with Lane::LowLatency
  Callers,       \* threads outside the pool
  NoTask,
  Setups,        \* how the pool stands when the model begins, see Init
  Migrate,       \* TaskScheduler::FibersMigrate()
  NeverParks,    \* TaskScheduler::ReservedNeverParks()
  Intake,        \* TaskScheduler::LaneIntakeEnabled()
  StealDepth,    \* kStealHintDepth
  Picks,         \* bound: the workers PickNextWorker chooses from
  Affinities,    \* the workers callers name in Push(affinity, task)
  Ks,            \* what callers pass to SetHotWorkers
  Fs,            \* what callers pass to SetAwakeFloor
  Waves,         \* wave sizes that NoteFloorCrowding is called with
  Recruits,      \* how many wakes a body pays for while a range is live
  MayPause,      \* whether a caller may pause the pool
  MayStop,       \* whether a caller may join the pool
  MaxMoves,      \* bound: calls that move the bands, pause or join
  MaxSwitches    \* bound: suspensions and yields of one task

Workers == 0..(N - 1)
Actors == Workers \cup Callers

ASSUME WorkerAssumption ==
  /\ LaneTasks \subseteq Tasks
  /\ NoTask \notin Tasks
  /\ Callers \cap Workers = {}
  /\ Setups \subseteq [word : Words, parked : SUBSET Workers,
                      backlog : SUBSET Tasks, fresh : SUBSET Tasks]
  /\ \A s \in Setups : s.backlog \cap s.fresh = {}
  /\ StealDepth \in Nat \ {0}
  /\ Affinities \subseteq Workers
  /\ {Ks, Fs, Waves, Recruits} \subseteq SUBSET Nat
  /\ \A S \in SUBSET Tasks : Cardinality(S) \in Nat    \* a deque can be counted

VARIABLES
  word,            \* g_bands
  workerState,
  hasQueuedWork,   \* set of the workers whose flag is up, as the next two
  laneWake,
  backlog,         \* stealHintBacklog
  inbox,           \* normalInboxes
  lane,            \* laneInboxes
  resumed,         \* resumedInboxes
  deque,
  intake,          \* laneIntake, shared by the reserved workers
  pc,
  reserved,        \* isReservedWorker, read at the top of the pass
  advertised,      \* advertisedCount # 0, as of the steal scan
  yielded,         \* yieldedLastPass
  task,            \* task_to_run
  snap,            \* CollapseAwakeFloorToBase's `cur` and `base`
  running,
  paused,
  script,          \* per actor: the accesses it still has to make
  fresh,           \* tasks no one has pushed yet
  suspended,       \* tasks whose fiber is suspended
  home,            \* Fiber::homeWorker
  switches,        \* suspensions and yields so far
  done,
  moves

flags == <<workerState, hasQueuedWork, laneWake, backlog>>
queues == <<inbox, lane, resumed, deque, intake>>
locals == <<reserved, advertised, yielded, snap>>
tasks == <<fresh, suspended, home, switches, done>>
vars == <<word, flags, queues, pc, locals, task, running, paused, script, tasks,
          moves>>

WorkerStates == {"WS_EMPTY", "WS_NOTIFIED", "WS_PARKED", "WS_YIELD"}

Labels == {"top", "clear", "body", "look", "gate", "collapse", "yield",
           "park", "parked", "wait", "sleep", "asleep", "woken", "exited"}

TypeOK ==
  /\ word \in Words
  /\ workerState \in [Workers -> WorkerStates]
  /\ {hasQueuedWork, laneWake, backlog, reserved, advertised, yielded, running}
       \subseteq SUBSET Workers
  /\ \A Q \in {inbox, lane, resumed, deque} : Q \in [Workers -> SUBSET Tasks]
  /\ {intake, fresh, suspended, done} \subseteq SUBSET Tasks
  /\ pc \in [Workers -> Labels]
  /\ task \in [Workers -> Tasks \cup {NoTask}]
  /\ \A w \in Workers : snap[w] \in [f : 0..255, fb : 0..255]
  /\ paused \in BOOLEAN
  /\ DOMAIN script = Actors
  /\ home \in [Tasks -> Workers]
  /\ switches \in [Tasks -> 0..MaxSwitches]
  /\ moves \in 0..MaxMoves

\* A pool that StartPool has built: idle, or with tasks that wait on worker
\* 0's deque; some of its workers may have parked.  Tasks that are in no
\* queue and not to be pushed have run before.
Init ==
  \E s \in Setups :
    /\ word = s.word
    /\ workerState = [w \in Workers |->
                        IF w \in s.parked THEN "WS_PARKED" ELSE "WS_EMPTY"]
    /\ pc = [w \in Workers |-> IF w \in s.parked THEN "asleep" ELSE "top"]
    /\ reserved = {w \in s.parked : w < word.k}
    /\ hasQueuedWork = {} /\ laneWake = {} /\ backlog = {}
    /\ inbox = [w \in Workers |-> {}]
    /\ lane = inbox /\ resumed = inbox /\ intake = {}
    /\ deque = [inbox EXCEPT ![0] = s.backlog]
    /\ advertised = {} /\ yielded = {}
    /\ task = [w \in Workers |-> NoTask]
    /\ snap = [w \in Workers |-> [f |-> 0, fb |-> 0]]
    /\ running = Workers /\ paused = FALSE
    /\ script = [a \in Actors |-> <<>>]
    /\ fresh = s.fresh /\ suspended = {}
    /\ done = Tasks \ (s.fresh \cup s.backlog)
    /\ home = [t \in Tasks |-> 0]
    /\ switches = [t \in Tasks |-> 0]
    /\ moves = 0

-----------------------------------------------------------------------------
(* Scripts *)

Doing(a, op) == script[a] # <<>> /\ Head(script[a]).op = op
Op(a) == Head(script[a])

\* The first access is made; `more` comes before the rest.
Proceed(a, more) == script' = [script EXCEPT ![a] = more \o Tail(@)]

Begin(a, ops) == script[a] = <<>> /\ script' = [script EXCEPT ![a] = ops]

\* Faulty variant: the worker is not notified.
RouseSilently(w) == <<[op |-> "mark", w |-> w]>>

\* MarkQueuedWork and NotifyWorker, what every queueing ends with.
Rouse(w) == <<[op |-> "mark", w |-> w], [op |-> "notify", w |-> w]>>

Deliver(kind, w, t) == <<[op |-> kind, w |-> w, t |-> t]>> \o Rouse(w)

Width(lo, hi) == IF hi <= lo THEN 0 ELSE IF hi > N THEN N - lo ELSE hi - lo

\* Faulty variant: the first worker of the range is left out.
NotifyRangeOffByOne(lo, hi) ==
  [i \in 1..Width(lo, hi) |-> [op |-> "notify", w |-> lo + i]]

NotifyRange(lo, hi) ==
  [i \in 1..Width(lo, hi) |-> [op |-> "notify", w |-> lo + i - 1]]

\* MarkLaneWake and NotifyWorker for each worker of a range.
LaneWakeRange(lo, hi) ==
  [i \in 1..(2 * Width(lo, hi)) |->
     [op |-> IF i % 2 = 1 THEN "lanewake" ELSE "notify",
      w |-> lo + (i - 1) \div 2]]

DoMark(a) ==
  /\ Doing(a, "mark")
  /\ hasQueuedWork' = hasQueuedWork \cup {Op(a).w}
  /\ Proceed(a, <<>>)
  /\ UNCHANGED <<word, workerState, laneWake, backlog, queues, pc, locals, task,
                 running, paused, tasks, moves>>

DoMarkLaneWake(a) ==
  /\ Doing(a, "lanewake")
  /\ laneWake' = laneWake \cup {Op(a).w}
  /\ Proceed(a, <<>>)
  /\ UNCHANGED <<word, workerState, hasQueuedWork, backlog, queues, pc, locals,
                 task, running, paused, tasks, moves>>

\* Wake: the exchange leaves a permit whatever the worker is doing; only a
\* parked worker needs the system call.
Wake(a) ==
  /\ Doing(a, "notify")
  /\ LET w == Op(a).w
     IN /\ workerState' = [workerState EXCEPT ![w] = "WS_NOTIFIED"]
        /\ Proceed(a, IF workerState[w] = "WS_PARKED"
                      THEN <<[op |-> "futex", w |-> w]>> ELSE <<>>)
  /\ UNCHANGED <<word, hasQueuedWork, laneWake, backlog, queues, pc, locals,
                 task, running, paused, tasks, moves>>

\* FutexWakeOne(&workerState).
FutexWake(a) ==
  /\ Doing(a, "futex")
  /\ pc' = [pc EXCEPT ![Op(a).w] = IF @ = "asleep" THEN "wait" ELSE @]
  /\ Proceed(a, <<>>)
  /\ UNCHANGED <<word, flags, queues, locals, task, running, paused, tasks, moves>>

\* The push itself, on one of the three inboxes.
DoPush(a) ==
  /\ \E kind \in {"inbox", "lane", "resumed"} :
       /\ Doing(a, kind)
       /\ LET into(Q, k) == IF k = kind THEN [Q EXCEPT ![Op(a).w] = @ \cup {Op(a).t}]
                            ELSE Q
          IN /\ inbox' = into(inbox, "inbox")
             /\ lane' = into(lane, "lane")
             /\ resumed' = into(resumed, "resumed")
  /\ Proceed(a, <<>>)
  /\ UNCHANGED <<word, flags, deque, intake, pc, locals, task, running, paused,
                 tasks, moves>>

-----------------------------------------------------------------------------
(* Placement: PushTarget, Requeue, PushLaneIntake *)

\* PickNextWorker for ordinary work: some worker outside the reserved band.
\* Round-robin, the awake map and the spill only choose among these.
Compute(w) ==
  word.k <= w /\ (w \in Picks \/ (w = word.k /\ \A v \in Picks : v < word.k))

\* HiPriLaneActive(), without a lane on the floor.
LaneActive == word.k > 0

\* Where PushTarget takes a task that names no worker.
Placements(t) ==
  CASE t \in LaneTasks /\ LaneActive /\ Intake -> {<<[op |-> "intake", t |-> t]>>}
    [] t \in LaneTasks /\ LaneActive /\ ~Intake ->
         {Deliver("lane", w, t) : w \in {v \in Workers : v < word.k}}
    [] OTHER -> {Deliver("inbox", w, t) : w \in {v \in Workers : Compute(v)}}

PushTarget(c, t) ==
  /\ t \in fresh
  /\ \E ops \in Placements(t) : Begin(c, ops)
  /\ fresh' = fresh \ {t}
  /\ UNCHANGED <<word, flags, queues, pc, locals, task, running, paused,
                 suspended, home, switches, done, moves>>

\* An explicit affinity is taken as it is.
PushAffine(c, t) ==
  /\ t \in fresh
  /\ \E w \in Affinities :
       Begin(c, Deliver(IF t \in LaneTasks /\ LaneActive THEN "lane" ELSE "inbox",
                        w, t))
  /\ fresh' = fresh \ {t}
  /\ UNCHANGED <<word, flags, queues, pc, locals, task, running, paused,
                 suspended, home, switches, done, moves>>

\* PushLaneIntake: nothing if the band has gone meanwhile, and the task is
\* placed as PushTarget goes on to do; else enqueue, and rouse.
DoIntake(a) ==
  /\ Doing(a, "intake")
  /\ \/ /\ LaneActive
        /\ intake' = intake \cup {Op(a).t}
        /\ Proceed(a, <<[op |-> "rouselane"]>>)
     \/ /\ ~LaneActive
        /\ \E w \in Workers : Proceed(a, Deliver("lane", w, Op(a).t))
        /\ intake' = intake
  /\ UNCHANGED <<word, flags, inbox, lane, resumed, deque, pc, locals, task,
                 running, paused, tasks, moves>>

\* The wake of PushLaneIntake: one reserved worker that is not busy, or the
\* first one when all are.
DoRouseLane(a) ==
  /\ Doing(a, "rouselane")
  /\ LET band == {w \in Workers : w < word.k}
         idle == {w \in band : pc[w] # "body"}
     IN \/ band = {} /\ Proceed(a, <<>>)
        \/ \E w \in idle : (\A v \in idle : w <= v) /\ Proceed(a, Rouse(w))
        \/ band # {} /\ idle = {} /\ Proceed(a, Rouse(0))
  /\ UNCHANGED <<word, flags, queues, pc, locals, task, running, paused, tasks,
                 moves>>

\* Requeue: a pinned fiber goes back to its home worker, a migrating one is
\* placed like a new task.
Requeue(c, t) ==
  /\ t \in suspended
  /\ IF Migrate THEN \E ops \in Placements(t) : Begin(c, ops)
     ELSE Begin(c, Deliver("resumed", home[t], t))
  /\ suspended' = suspended \ {t}
  /\ UNCHANGED <<word, flags, queues, pc, locals, task, running, paused,
                 fresh, home, switches, done, moves>>

-----------------------------------------------------------------------------
(* Moving the bands *)

Move == moves < MaxMoves /\ moves' = moves + 1

\* What a call that moves the bands, pauses or stops leaves alone at first.
CallUnchanged ==
  UNCHANGED <<word, flags, queues, pc, locals, task, running, paused, tasks>>

\* Both bounds first, then the band itself.
SetHotWorkers(c, k) ==
  /\ Move
  /\ Begin(c, <<[op |-> "kmax", k |-> k], [op |-> "kmin", k |-> k],
                [op |-> "setK", k |-> k]>>)
  /\ CallUnchanged

SetAwakeFloor(c, f) ==
  /\ Move
  /\ Begin(c, <<[op |-> "setFb", f |-> f], [op |-> "setF", f |-> f, n |-> 0]>>)
  /\ CallUnchanged

\* The floor wanted is computed from one load of the word.
NoteFloorCrowding(c, n) ==
  /\ Move
  /\ FloorMayGrow(word, n, 0)
  /\ Begin(c, <<[op |-> "setF", f |-> FloorWanted(word, n, 0), n |-> 0]>>)
  /\ CallUnchanged

DoBound(a) ==
  /\ \/ Doing(a, "kmax") /\ word' = BandsSetKmax(word, Op(a).k)
     \/ Doing(a, "kmin") /\ word' = BandsSetKmin(word, Op(a).k)
     \/ Doing(a, "setFb") /\ word' = BandsSetFb(word, Op(a).f)
  /\ Proceed(a, <<>>)
  /\ UNCHANGED <<flags, queues, pc, locals, task, running, paused, tasks, moves>>

\* Whoever raises F wakes the workers that came onto the floor; K is loaded
\* again for that.  A worker that grew the floor then spreads n tasks.
DoSetF(a) ==
  /\ Doing(a, "setF")
  /\ word' = BandsSetF(word, Op(a).f)
  /\ Proceed(a, IF Op(a).f > word.f
                THEN <<[op |-> "wakefloor", lo |-> word.f, hi |-> Op(a).f]>>
                     \o (IF Op(a).n > 0 THEN <<[op |-> "spread", n |-> Op(a).n]>>
                         ELSE <<>>)
                ELSE <<>>)
  /\ UNCHANGED <<flags, queues, pc, locals, task, running, paused, tasks, moves>>

DoWakeFloor(a) ==
  /\ Doing(a, "wakefloor")
  /\ Proceed(a, NotifyRange(word.k + Op(a).lo, word.k + Op(a).hi))
  /\ UNCHANGED <<word, flags, queues, pc, locals, task, running, paused, tasks,
                 moves>>

\* SetHotWorkersEffective: K moves; a band that grows first sheds what the
\* new members' inboxes hold, then every worker that changed sides is
\* roused, then the workers the floor slid onto.
DoSetK(a) ==
  /\ Doing(a, "setK")
  /\ LET want == IF Op(a).k >= N THEN N - 1 ELSE Op(a).k
         prev == word.k
     IN /\ word' = BandsSetK(word, IF want > 2 THEN 2 ELSE want)
        /\ LET eff == word'.k
           IN Proceed(a,
                (IF prev < eff /\ eff < N
                 THEN <<[op |-> "shed", lo |-> prev, hi |-> eff,
                         moved |-> FALSE]>> ELSE <<>>)
                \o (IF prev < eff THEN LaneWakeRange(prev, eff)
                    ELSE LaneWakeRange(eff, prev))
                \o (IF prev < eff
                    THEN <<[op |-> "slide", lo |-> prev, hi |-> eff]>> ELSE <<>>))
  /\ UNCHANGED <<flags, queues, pc, locals, task, running, paused, tasks, moves>>

\* One task of a new member's inbox is moved to the first compute worker,
\* until the inboxes of the range are empty; that worker is roused at the
\* end.  The task is off every queue between pop and push.
DoShed(a) ==
  /\ Doing(a, "shed")
  /\ LET range == Op(a).lo..(Op(a).hi - 1)
         loaded == {w \in range : inbox[w] # {}}
     IN \/ \E v \in loaded : \E t \in inbox[v] :
             /\ \A w \in loaded : v <= w
             /\ inbox' = [inbox EXCEPT ![v] = @ \ {t}]
             /\ Proceed(a, <<[op |-> "inbox", w |-> Op(a).hi, t |-> t],
                             [Op(a) EXCEPT !.moved = TRUE]>>)
        \/ /\ loaded = {}
           /\ inbox' = inbox
           /\ Proceed(a, IF Op(a).moved THEN Rouse(Op(a).hi) ELSE <<>>)
  /\ UNCHANGED <<word, flags, lane, resumed, deque, intake, pc, locals, task,
                 running, paused, tasks, moves>>

DoSlide(a) ==
  /\ Doing(a, "slide")
  /\ Proceed(a, NotifyRange(Op(a).lo + word.f, Op(a).hi + word.f))
  /\ UNCHANGED <<word, flags, queues, pc, locals, task, running, paused, tasks,
                 moves>>

\* Pause; Resume lowers the flag and notifies every worker.
Pause(c) ==
  /\ MayPause /\ Move /\ ~paused /\ paused' = TRUE
  /\ UNCHANGED <<word, flags, queues, pc, locals, task, running, script, tasks>>

ResumePool(c) ==
  /\ paused /\ paused' = FALSE
  /\ Begin(c, NotifyRange(0, N))
  /\ UNCHANGED <<word, flags, queues, pc, locals, task, running, tasks, moves>>

\* Faulty variant: the workers are not woken.
JoinSilently(c) ==
  /\ MayStop /\ Move
  /\ Begin(c, [i \in 1..N |-> [op |-> "stop", w |-> i - 1]])
  /\ CallUnchanged

\* The end of Join: RequestStop for each worker (running, then Wake), then
\* the wait for the threads.
Join(c) ==
  /\ MayStop /\ Move
  /\ Begin(c, [i \in 1..(2 * N) |->
                 [op |-> IF i % 2 = 1 THEN "stop" ELSE "notify",
                  w |-> (i - 1) \div 2]])
  /\ CallUnchanged

DoStop(a) ==
  /\ Doing(a, "stop")
  /\ running' = running \ {Op(a).w}
  /\ Proceed(a, <<>>)
  /\ UNCHANGED <<word, flags, queues, pc, locals, task, paused, tasks, moves>>

-----------------------------------------------------------------------------
(* Thread::Worker: the top of the pass and the run phase *)

\* A worker's own step: it is at the label and has no script to finish.
AtLabel(w, l) == pc[w] = l /\ script[w] = <<>>
GoTo(w, l) == pc' = [pc EXCEPT ![w] = l]

WithBit(S, w, on) == IF on THEN S \cup {w} ELSE S \ {w}

\* The loop condition, isReservedWorker, and the backlog bit of an idle
\* worker.
Top(w) ==
  /\ AtLabel(w, "top")
  /\ IF w \notin running
     THEN GoTo(w, "exited") /\ UNCHANGED <<reserved, backlog>>
     ELSE /\ GoTo(w, "clear")
          /\ reserved' = WithBit(reserved, w, w < word.k)
          /\ backlog' = IF task[w] = NoTask
                        THEN WithBit(backlog, w, Cardinality(deque[w]) >= StealDepth)
                        ELSE backlog
  /\ UNCHANGED <<word, workerState, hasQueuedWork, laneWake, queues, advertised,
                 yielded, snap, task, running, paused, script, tasks, moves>>

\* Both flags are lowered before any queue is looked at.
ClearFlags(w) ==
  /\ AtLabel(w, "clear") /\ task[w] = NoTask
  /\ hasQueuedWork' = hasQueuedWork \ {w}
  /\ laneWake' = laneWake \ {w}
  /\ GoTo(w, "look")
  /\ UNCHANGED <<word, workerState, backlog, queues, locals, task, running,
                 paused, script, tasks, moves>>

\* The same with a task in hand; before the body, a deep inbox may be
\* published to the deque for thieves.
Start(w) ==
  /\ AtLabel(w, "clear") /\ task[w] # NoTask
  /\ hasQueuedWork' = hasQueuedWork \ {w}
  /\ laneWake' = laneWake \ {w}
  /\ \/ UNCHANGED <<inbox, deque, backlog>>
     \/ /\ w \notin reserved /\ inbox[w] # {}
        /\ deque' = [deque EXCEPT ![w] = @ \cup inbox[w]]
        /\ inbox' = [inbox EXCEPT ![w] = {}]
        /\ backlog' = WithBit(backlog, w, Cardinality(deque'[w]) >= StealDepth)
  /\ GoTo(w, "body")
  /\ UNCHANGED <<word, workerState, lane, resumed, intake, locals, task, running,
                 paused, script, tasks, moves>>

DropTask(w) == task' = [task EXCEPT ![w] = NoTask]

\* A body that was long, on the base of the floor: the floor is grown for
\* what waits in the deque, and all but one of that is spread over the
\* growth.
GrowFloorIfLongBody(w) ==
  LET n == Cardinality(deque[w])
  IN IF n > 0 /\ word.k <= w /\ w - word.k < word.fb /\ FloorMayGrow(word, n, 0)
     THEN {<<[op |-> "setF", f |-> FloorWanted(word, n, 0), n |-> n - 1]>>}
     ELSE {}

\* A body that paid for n wakes while a range is live: n sleepers are woken,
\* and the floor is grown to keep them.
RecruitForLiveRange ==
  {<<[op |-> "recruit", n |-> n], [op |-> "crowd", n |-> n]>> : n \in Recruits}

\* What a worker has to do when a body is over, on the fiberless path.  The
\* clock decides.
AfterBody(w) ==
  {<<>>} \cup IF moves = MaxMoves THEN {}
             ELSE {g \o r : g \in {<<>>} \cup GrowFloorIfLongBody(w),
                           r \in {<<>>} \cup RecruitForLiveRange}

\* The second copy of that code, for a fiber that has switched back, whether
\* it ended or not.
AfterSwitch(w) == AfterBody(w)

\* Such a script counts as a move of the bands.
Afterwards(w, before, ops) ==
  /\ Begin(w, before \o ops)
  /\ moves' = IF ops = <<>> THEN moves ELSE moves + 1

\* The body returns: fiberless, or its fiber is DEAD.
Finish(w) ==
  /\ AtLabel(w, "body")
  /\ done' = done \cup {task[w]}
  /\ \E ops \in AfterBody(w) : Afterwards(w, <<>>, ops)
  /\ DropTask(w) /\ GoTo(w, "top")
  /\ UNCHANGED <<word, flags, queues, locals, running, paused, fresh, suspended,
                 home, switches>>

\* The first worker to run a task's fiber is its home.
Switch(w) ==
  /\ AtLabel(w, "body")
  /\ switches[task[w]] < MaxSwitches
  /\ switches' = [switches EXCEPT ![task[w]] = @ + 1]
  /\ home' = IF switches[task[w]] = 0 THEN [home EXCEPT ![task[w]] = w] ELSE home
  /\ DropTask(w) /\ GoTo(w, "top")

SuspendFiber(w) ==
  /\ Switch(w)
  /\ suspended' = suspended \cup {task[w]}
  /\ \E ops \in AfterSwitch(w) : Afterwards(w, <<>>, ops)
  /\ UNCHANGED <<word, flags, queues, locals, running, paused, fresh, done>>

\* WANTS_YIELD, and SUSPEND_SIGNALED but for the flags: back to the own
\* resumed inbox, or to some compute worker's inbox.
YieldFiber(w) ==
  /\ Switch(w)
  /\ \E ops \in AfterSwitch(w) :
       IF Migrate
       THEN /\ \E v \in {u \in Workers : Compute(u)} :
                 Afterwards(w, Deliver("inbox", v, task[w]) \o <<[op |-> "mark", w |-> w]>>,
                            ops)
            /\ UNCHANGED <<resumed, hasQueuedWork>>
       ELSE /\ resumed' = [resumed EXCEPT ![w] = @ \cup {task[w]}]
            /\ hasQueuedWork' = hasQueuedWork \cup {w}
            /\ Afterwards(w, <<>>, ops)
  /\ yielded' = yielded \cup {w}
  /\ UNCHANGED <<word, workerState, laneWake, backlog, inbox, lane, deque, intake,
                 reserved, advertised, snap, running, paused, fresh, suspended, done>>

\* AcquireFiber found no fiber: the task goes to some compute worker.
NoFiber(w) ==
  /\ AtLabel(w, "body")
  /\ switches[task[w]] = 0 /\ MaxSwitches > 0
  /\ switches' = [switches EXCEPT ![task[w]] = MaxSwitches]
  /\ \E v \in {u \in Workers : Compute(u)} : Begin(w, Deliver("inbox", v, task[w]))
  /\ DropTask(w) /\ GoTo(w, "top")
  /\ UNCHANGED <<word, flags, queues, locals, running, paused, fresh, suspended,
                 home, done, moves>>

\* The wakes of a recruiting worker go to the first n sleepers from wherever
\* the round robin stands; their states are read in one step here, as a wake
\* that turns out not to be needed does no harm.
DoRecruit(a) ==
  /\ Doing(a, "recruit")
  /\ LET asleep == {w \in Workers : workerState[w] = "WS_PARKED"}
     IN \E n \in 0..Op(a).n : \E seq \in [1..n -> asleep] :
          /\ \A i, j \in 1..n : seq[i] = seq[j] => i = j
          /\ n = Op(a).n \/ asleep = {seq[i] : i \in 1..n}
          /\ Proceed(a, [i \in 1..n |-> [op |-> "notify", w |-> seq[i]]])
  /\ UNCHANGED <<word, flags, queues, pc, locals, task, running, paused, tasks,
                 moves>>

\* NoteFloorCrowding as the recruiting worker does it.
DoCrowd(a) ==
  /\ Doing(a, "crowd")
  /\ Proceed(a, IF FloorMayGrow(word, Op(a).n, 0)
                THEN <<[op |-> "setF", f |-> FloorWanted(word, Op(a).n, 0), n |-> 0]>>
                ELSE <<>>)
  /\ UNCHANGED <<word, flags, queues, pc, locals, task, running, paused, tasks,
                 moves>>

\* RedistributeToOverflow: the tasks go round the workers the floor grew by,
\* as three loads of the word, for K, Fbase and F, tell them.
DoSpread(a) ==
  /\ \/ /\ Doing(a, "spread")
        /\ Proceed(a, <<[op |-> "spreadFb", n |-> Op(a).n, k |-> word.k]>>)
     \/ /\ Doing(a, "spreadFb")
        /\ Proceed(a, <<[op |-> "spreadF", n |-> Op(a).n, k |-> Op(a).k,
                         fb |-> word.fb]>>)
     \/ /\ Doing(a, "spreadF")
        /\ LET o == Op(a)
               n == IF word.f > o.fb THEN o.n ELSE 0
           IN Proceed(a, [i \in 1..n |->
                            [op |-> "hand",
                             to |-> o.k + o.fb + ((i - 1) % (word.f - o.fb))]])
  /\ UNCHANGED <<word, flags, queues, pc, locals, task, running, paused, tasks,
                 moves>>

\* One task off the own deque; a target outside the pool is replaced by some
\* compute worker.
DoHand(w) ==
  /\ Doing(w, "hand")
  /\ \/ \E t \in deque[w], v \in Workers :
          /\ IF Op(w).to < N THEN v = Op(w).to ELSE Compute(v)
          /\ deque' = [deque EXCEPT ![w] = @ \ {t}]
          /\ Proceed(w, Deliver("inbox", v, t))
     \/ deque[w] = {} /\ deque' = deque /\ Proceed(w, <<>>)
  /\ UNCHANGED <<word, flags, inbox, lane, resumed, intake, pc, locals, task,
                 running, paused, tasks, moves>>

-----------------------------------------------------------------------------
(* The acquire phase, in the order Worker looks *)

Take(w, t) == task' = [task EXCEPT ![w] = t] /\ GoTo(w, "top")

\* What the worker finds when it looks at its own queues, in order of
\* preference: the shared intake if it is reserved, its lane; after a yield
\* its inbox and its deque; its pinned fibers; its deque.
Sources(w) ==
  LET if(cond, S) == IF cond THEN S ELSE {}
      ordinary == w \notin reserved
      after == w \in yielded
  IN << [from |-> "intake",  tasks |-> if(~ordinary, intake)],
        [from |-> "lane",    tasks |-> lane[w]],
        [from |-> "inbox",   tasks |-> if(after /\ ordinary, inbox[w])],
        [from |-> "deque",   tasks |-> if(after, deque[w])],
        [from |-> "resumed", tasks |-> if(~Migrate, resumed[w])],
        [from |-> "deque",   tasks |-> if(ordinary, deque[w])] >>

Without(Q, w, t, here) == IF here THEN [Q EXCEPT ![w] = @ \ {t}] ELSE Q

\* One task from the first source that has any.
TakeOwn(w) ==
  \E i \in DOMAIN Sources(w) :
    LET src == Sources(w)[i]
    IN /\ \A j \in 1..(i - 1) : Sources(w)[j].tasks = {}
       /\ \E t \in src.tasks :
            /\ Take(w, t)
            /\ intake' = IF src.from = "intake" THEN intake \ {t} ELSE intake
            /\ lane' = Without(lane, w, t, src.from = "lane")
            /\ inbox' = Without(inbox, w, t, src.from = "inbox")
            /\ deque' = Without(deque, w, t, src.from = "deque")
            /\ resumed' = Without(resumed, w, t, src.from = "resumed")

\* The inbox is emptied: one task to run, the others onto the deque.  A
\* reserved worker does not look.
DrainInbox(w) ==
  /\ w \notin reserved
  /\ \E t \in inbox[w] :
       /\ Take(w, t)
       /\ deque' = [deque EXCEPT ![w] = @ \cup (inbox[w] \ {t})]
  /\ inbox' = [inbox EXCEPT ![w] = {}]
  /\ UNCHANGED <<lane, resumed, intake>>

\* Faulty variant: the task stays on the victim's deque.
StealWithoutTaking(w) ==
  /\ \E v \in backlog \ {w} : \E t \in deque[v] : Take(w, t)
  /\ UNCHANGED queues

\* An advertised deque is robbed.
Steal(w) ==
  /\ \E v \in backlog \ {w} : \E t \in deque[v] :
       Take(w, t) /\ deque' = [deque EXCEPT ![v] = @ \ {t}]
  /\ UNCHANGED <<inbox, lane, resumed, intake>>

\* The own queues, the inbox, the other workers' deques, the inbox again: no
\* other step can tell the looks apart that find nothing, so they are one.
\* (A thief gives up when its own work comes and after many misses, a
\* reserved one while the I/O lane is not quiet.)
Acquire(w) ==
  /\ AtLabel(w, "look")
  /\ LET barren == \A i \in DOMAIN Sources(w) : Sources(w)[i].tasks = {}
         dry == w \in reserved \/ inbox[w] = {}
     IN \/ TakeOwn(w) /\ UNCHANGED advertised
        \/ barren /\ DrainInbox(w) /\ UNCHANGED advertised
        \/ barren /\ dry /\ Steal(w) /\ UNCHANGED advertised
        \/ /\ barren /\ dry
           /\ advertised' = WithBit(advertised, w, backlog # {})
           /\ GoTo(w, "gate")
           /\ UNCHANGED <<task, queues>>
  /\ yielded' = yielded \ {w}
  /\ UNCHANGED <<word, flags, reserved, snap, running, paused, script, tasks,
                 moves>>

-----------------------------------------------------------------------------
(* The park phase *)

\* What the park gate and the wait loop look at besides workerState.
OwnWork(w) ==
  \/ w \in hasQueuedWork \/ w \in laneWake
  \/ lane[w] # {} \/ resumed[w] # {}
  \/ w \notin reserved /\ inbox[w] # {}

WorkPending(w) == OwnWork(w) \/ (w \in reserved /\ intake # {})

\* A step that moves the worker and changes nothing else.
Advance(w, l) ==
  /\ GoTo(w, l)
  /\ UNCHANGED <<word, flags, queues, locals, task, running, paused, script,
                 tasks, moves>>

NeverPark(w) ==
  IF w < word.k THEN NeverParks \/ word.kmax > word.kmin
  ELSE OnFloor(word, w)

\* Moves the worker and its permit, nothing else.
Permit(w, state, l) ==
  /\ workerState' = [workerState EXCEPT ![w] = state]
  /\ GoTo(w, l)
  /\ UNCHANGED <<word, hasQueuedWork, laneWake, backlog, queues, locals, task,
                 running, paused, script, tasks, moves>>

\* The park gate: work that came in the meantime sends the worker round.
GateOpen(w) == w \in running /\ (paused \/ ~WorkPending(w))

ParkGate(w) ==
  /\ AtLabel(w, "gate")
  /\ \/ w \notin running /\ Advance(w, "exited")
     \/ w \in running /\ ~GateOpen(w) /\ Advance(w, "top")
     \/ GateOpen(w) /\ w \notin advertised /\ ~NeverPark(w) /\ Advance(w, "park")

\* Who may not park spins, and now and then yields its core under WS_YIELD;
\* a permit found on the way is consumed.
Spin(w) ==
  /\ AtLabel(w, "gate") /\ GateOpen(w)
  /\ w \in advertised \/ NeverPark(w)
  /\ \/ Advance(w, "top")
     \/ workerState[w] = "WS_EMPTY" /\ Permit(w, "WS_YIELD", "yield")
     \/ workerState[w] = "WS_NOTIFIED" /\ Permit(w, "WS_EMPTY", "top")

BackFromYield(w) ==
  /\ AtLabel(w, "yield")
  /\ Permit(w, "WS_EMPTY", "top")

\* A floor worker that saw no work advertised finds the floor's hold expired:
\* it remembers F and Fbase, and later tries to put F back.
CollapseBegins(w) ==
  /\ AtLabel(w, "gate") /\ GateOpen(w)
  /\ w \notin advertised /\ OnFloor(word, w) /\ word.f # word.fb
  /\ snap' = [snap EXCEPT ![w] = [f |-> word.f, fb |-> word.fb]]
  /\ GoTo(w, "collapse")
  /\ UNCHANGED <<word, flags, queues, reserved, advertised, yielded, task,
                 running, paused, script, tasks, moves>>

CollapseAwakeFloorToBase(w) ==
  /\ AtLabel(w, "collapse")
  /\ word' = BandsCasF(word, snap[w].f, snap[w].fb)
  /\ GoTo(w, "top")
  /\ UNCHANGED <<flags, queues, locals, task, running, paused, script, tasks,
                 moves>>

\* The bands once more, then the intent to park is published.  A permit is
\* consumed instead; a worker that left the wait loop without one still
\* reads WS_PARKED here and goes round.
PublishPark(w) ==
  /\ AtLabel(w, "park")
  /\ CASE OnFloor(GetBands(word), w)     -> Advance(w, "top")
       [] ~OnFloor(GetBands(word), w) /\ workerState[w] = "WS_EMPTY" ->
            Permit(w, "WS_PARKED", "parked")
       [] ~OnFloor(GetBands(word), w) /\ workerState[w] = "WS_NOTIFIED" ->
            Permit(w, "WS_EMPTY", "top")
       [] OTHER -> Advance(w, "top")

\* The condition of the wait loop.
StaysAsleep(w) ==
  workerState[w] = "WS_PARKED" /\ w \in running /\ ~WorkPending(w)

\* The bands again, after the publication, and into the wait loop.
Parked(w) ==
  /\ AtLabel(w, "parked")
  /\ IF OnFloor(GetBands(word), w) THEN Permit(w, "WS_EMPTY", "top")
     ELSE Advance(w, IF StaysAsleep(w) THEN "sleep" ELSE "woken")

WaitLoop(w) ==
  /\ AtLabel(w, "wait")
  /\ Advance(w, IF StaysAsleep(w) THEN "sleep" ELSE "woken")

\* Faulty variant: sleeps whatever workerState is by now.
FutexWaitBlind(w) ==
  /\ AtLabel(w, "sleep")
  /\ Advance(w, "asleep")

\* FutexWait sleeps only while workerState is still WS_PARKED.
FutexWait(w) ==
  /\ AtLabel(w, "sleep")
  /\ Advance(w, IF workerState[w] = "WS_PARKED" THEN "asleep" ELSE "wait")

\* A permit is consumed on the way back into the loop.
Woken(w) ==
  /\ AtLabel(w, "woken")
  /\ Permit(w, IF workerState[w] = "WS_NOTIFIED" THEN "WS_EMPTY" ELSE workerState[w],
            IF w \in running THEN "top" ELSE "exited")

-----------------------------------------------------------------------------
WorkerStep(w) ==
  \/ DoHand(w) \/ Top(w) \/ ClearFlags(w) \/ Start(w) \/ Finish(w)
  \/ SuspendFiber(w) \/ YieldFiber(w) \/ NoFiber(w) \/ Acquire(w)
  \/ ParkGate(w) \/ Spin(w) \/ BackFromYield(w)
  \/ CollapseBegins(w) \/ CollapseAwakeFloorToBase(w) \/ PublishPark(w)
  \/ Parked(w) \/ WaitLoop(w) \/ FutexWait(w) \/ Woken(w)

ScriptStep(a) ==
  \/ DoMark(a) \/ DoMarkLaneWake(a) \/ Wake(a) \/ FutexWake(a) \/ DoPush(a)
  \/ DoIntake(a) \/ DoRouseLane(a) \/ DoBound(a) \/ DoSetF(a) \/ DoWakeFloor(a)
  \/ DoSetK(a) \/ DoShed(a) \/ DoSlide(a) \/ DoRecruit(a) \/ DoCrowd(a)
  \/ DoSpread(a) \/ DoStop(a)

Call(c) ==
  \/ \E t \in Tasks : PushTarget(c, t) \/ PushAffine(c, t)
  \/ \E k \in Ks : SetHotWorkers(c, k)
  \/ \E f \in Fs : SetAwakeFloor(c, f)
  \/ \E n \in Waves : NoteFloorCrowding(c, n)
  \/ Pause(c) \/ ResumePool(c) \/ Join(c)

\* Someone resumes a suspended fiber.
ResumeCall(c) == \E t \in Tasks : Requeue(c, t)

Next ==
  \/ \E w \in Workers : WorkerStep(w)
  \/ \E a \in Actors : ScriptStep(a)
  \/ \E c \in Callers : Call(c) \/ ResumeCall(c)

Spec == Init /\ [][Next]_vars

\* Threads that run are scheduled and bodies end; whoever waits for a fiber's
\* event resumes it.  Nothing obliges anyone to push, to move a band, to
\* pause or to join, but a pause is ended.
Fairness ==
  /\ \A w \in Workers : WF_vars(WorkerStep(w))
  /\ \A a \in Actors : WF_vars(ScriptStep(a))
  /\ \A c \in Callers : WF_vars(ResumeCall(c)) /\ WF_vars(ResumePool(c))

FairSpec == Spec /\ Fairness

-----------------------------------------------------------------------------
Holds(a, t) == \E i \in DOMAIN script[a] :
                 /\ script[a][i].op \in {"inbox", "lane", "resumed", "intake"}
                 /\ script[a][i].t = t

\* Where a task can be: a kind of place and the actor whose it is, or NoTask for
\* a place that is nobody's.
Places(t) ==
  LET own(kind, Q) == {<<kind, w>> : w \in {v \in Workers : t \in Q[v]}}
      shared(kind, S) == {<<kind, NoTask>> : u \in S \cap {t}}
  IN UNION {own("inbox", inbox), own("lane", lane), own("resumed", resumed), own("deque", deque),
            {<<"running", w>> : w \in {v \in Workers : task[v] = t}},
            {<<"script", a>> : a \in {b \in Actors : Holds(b, t)}},
            shared("intake", intake), shared("fresh", fresh),
            shared("suspended", suspended), shared("done", done)}

\* A task is in exactly one place: in one queue, with one worker, or in the
\* hands of whoever is queueing it.  Drains, steals, sheds and spreads
\* neither lose one nor run one twice.
TaskInOnePlace == \A t \in Tasks : LET at == Places(t) IN \E p \in at : at = {p}

\* Someone is on the way to wake w.
Rousing(w) == \E a \in Actors : \E i \in DOMAIN script[a] :
                LET o == script[a][i]
                IN \/ o.op \in {"notify", "futex"} /\ o.w = w
                   \/ o.op = "shed" /\ o.moved /\ o.hi = w

\* No worker sleeps on work: while one is in the futex with work in its own
\* queues or a flag up, or with a permit in workerState, someone is about to
\* wake it; and the reserved workers do not all sleep on the intake they
\* share.
NoSleepOnWork ==
  /\ \A w \in Workers :
       pc[w] = "asleep" /\ (OwnWork(w) \/ workerState[w] # "WS_PARKED") => Rousing(w)
  /\ LET band == {w \in Workers : w < word.k}
     IN band # {} /\ intake # {} =>
          \/ \E w \in band : pc[w] # "asleep" \/ Rousing(w)
          \/ \E a \in Actors : Doing(a, "rouselane")

\* The awake floor stays awake: a worker that is asleep on the floor has been
\* put there by a move of the bands whose caller is about to wake it.
FloorNeverSleeps ==
  \A w \in Workers :
    pc[w] = "asleep" /\ OnFloor(GetBands(word), w) =>
      \/ Rousing(w)
      \/ \E a \in Actors : \E i \in DOMAIN script[a] :
           LET o == script[a][i]
           IN \/ o.op = "wakefloor" /\ word.k + o.lo <= w /\ w < word.k + o.hi
              \/ o.op = "slide" /\ o.lo + word.f <= w /\ w < o.hi + word.f

\* The reserved band and the floor fit the pool, as GetBands asserts on every
\* load of the word; the rest of the state is of its type.  With more than one
\* move of the bands a collapse can raise F over what K has left of the pool;
\* WorkerProofs shows that no other writer of the word can.
BandsFit == KAndFFitThePool(word) /\ TypeOK

\* What a worker of the reserved band has in its ordinary inbox nobody will
\* ever take out; a shed that is under way still will.
NoStrayInReservedInbox ==
  \A w \in Workers :
    w < word.k /\ inbox[w] # {} =>
      \E a \in Actors : \E i \in DOMAIN script[a] :
        LET o == script[a][i] IN o.op = "shed" /\ o.lo <= w /\ w < o.hi

\* A task that was pushed is run, unless the pool is stopped; a fiber that
\* was suspended is resumed and runs to its end.
TaskRuns ==
  \A t \in Tasks : (t \notin fresh) ~> (t \in done \/ running # Workers)

\* Once Join has asked every worker to stop, every worker's loop ends.
JoinReturns ==
  (running = {}) ~> (\A w \in Workers : pc[w] = "exited")
=============================================================================
