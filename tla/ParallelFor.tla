----------------------------- MODULE ParallelFor -----------------------------
(***************************************************************************)
(* TaskScheduler::ParallelFor: a range of indices is probed on the caller, *)
(* then either split lazily over the deques (RunLazyRange: the publisher   *)
(* keeps the left half, thieves steal the right ones) or handed out in     *)
(* slices from one shared cursor (RunCursorRange, the fallback of a caller *)
(* that could not claim the non-worker lane).  Everything a piece uses --  *)
(* func, the WaitGroup, LazyRangeState, the cursor -- is on the caller's   *)
(* stack.                                                                  *)
(*                                                                         *)
(* A call is made by a thread outside the pool ("bare"), by a fiber, which *)
(* parks its wait, or by a Native task, which helps from its worker.  How  *)
(* long a body runs is not modelled: what ParallelFor decides by the clock *)
(* is a choice.                                                            *)
(***************************************************************************)
EXTENDS Integers, Sequences, FiniteSets, SequencesExt

CONSTANTS
  Calls,            \* the calls of ParallelFor, each made once
  Kind,             \* who makes each: "bare", "fiber" or "native"
  Workers,          \* the workers below no band: [K, N)
  Main,             \* the index of the non-worker lane
  Null,
  Size,              \* the range of every call is [0, Size)
  Grain,            \* the grain the caller asks for
  kMinGrain, LeavesPerWorker, ProbeShare,   \* 16, GetLeavesPerWorker(), 32
  kSlices, kMinSlice,                       \* RunCursorRange: 64 and 64
  LazySplitCap,     \* GetLazySplitCap()
  LaneCapacity,     \* a TaskDeque's capacity
  IntMax            \* the largest int

VARIABLES
  pc,       \* where each call is
  on,       \* the thread it runs on
  begin,    \* its first index not yet run by the probe
  grain,    \* its grain, once computed
  n,        \* its WaitGroup
  cursor,   \* the shared cursor of RunCursorRange
  spawns,   \* how many cursor lanes are still to be spawned
  ran,      \* how often each index ran
  lane,     \* the deques: bottom (the owner's end) last
  hint,     \* stealHintParallel
  claimed,  \* the thread holding nonWorkerLaneClaimed
  inbox,    \* the cursor tasks pushed and not taken
  act       \* what each thread executes below the call it makes

rangeVars == <<pc, on, begin, grain, n, cursor, spawns, ran, lane, hint,
               claimed, inbox, act>>

Bare == {c \in Calls : Kind[c] = "bare"}
Threads == Bare \cup Workers
Lanes == Workers \cup {Main}
Indices == 0 .. Size - 1
Max2(a, b) == IF a >= b THEN a ELSE b
Min2(a, b) == IF a <= b THEN a ELSE b
DivUp(a, b) == (a + b - 1) \div b

\* int arithmetic of the shared cursor: fetch_add wraps.
Wrap(x) == ((x + IntMax + 1) % (2 * (IntMax + 1))) - (IntMax + 1)

\* An activation: RunLazyRange or the cursor task's loop, for a call.  `task`
\* says it is a Task's body, which owes the WaitGroup a decrement, and not the
\* caller's own share.
Act(kind, c, lo, hi, task, at) ==
  [kind |-> kind, call |-> c, lo |-> lo, hi |-> hi, task |-> task, at |-> at]
Idle == Act("none", Null, 0, 0, FALSE, "none")

\* LaneForCurrentThread
LaneForCurrentThread(t) ==
  IF t \in Workers THEN t ELSE IF claimed = t THEN Main ELSE Null

\* func(lo, hi)
Body(c, lo, hi) ==
  ran' = [ran EXCEPT ![c] = [i \in Indices |->
            IF lo <= i /\ i < hi THEN @[i] + 1 ELSE @[i]]]

Free(w) == act[w] = Idle /\ \A c \in Calls : on[c] # w

TypeOK ==
  /\ pc \in [Calls -> {"start", "probe", "width", "spawn", "lazy", "cursor",
                       "wait", "returned"}]
  /\ on \in [Calls -> Threads \cup {Null}]
  /\ begin \in [Calls -> 0 .. Size]
  /\ n \in [Calls -> Nat] /\ spawns \in [Calls -> Nat]
  /\ cursor \in [Calls -> -(IntMax + 1) .. IntMax]
  /\ ran \in [Calls -> [Indices -> Nat]]
  /\ hint \subseteq Lanes /\ claimed \in Bare \cup {Null}
  /\ DOMAIN lane = Lanes /\ DOMAIN act = Threads
  /\ inbox \subseteq Calls \X Nat

Init ==
  /\ pc = [c \in Calls |-> "start"] /\ on = [c \in Calls |-> Null]
  /\ begin = [c \in Calls |-> 0] /\ grain = [c \in Calls |-> Grain]
  /\ n = [c \in Calls |-> 0] /\ spawns = [c \in Calls |-> 0]
  /\ cursor = [c \in Calls |-> 0]
  /\ ran = [c \in Calls |-> [i \in Indices |-> 0]]
  /\ lane = [q \in Lanes |-> <<>>] /\ hint = {} /\ claimed = Null
  /\ inbox = {} /\ act = [t \in Threads |-> Idle]

-----------------------------------------------------------------------------
(* ParallelFor, up to the choice of a path                                 *)

Goes(c, where) == pc' = [pc EXCEPT ![c] = where]

\* The caller enters: a bare thread by itself, the others on a free worker.
Enter(c, t) ==
  /\ pc[c] = "start"
  /\ IF Kind[c] = "bare" THEN t = c ELSE t \in Workers /\ Free(t)
  /\ on' = [on EXCEPT ![c] = t]
  /\ Goes(c, "probe")
  /\ UNCHANGED <<begin, grain, n, cursor, spawns, ran, lane, hint, claimed,
                 inbox, act>>

\* The range is run here, whole or what the probe left of it: the serial
\* switch, too few iterations, a remembered or a measured cost too low.
Inline(c) ==
  /\ pc[c] = "probe"
  /\ Body(c, begin[c], Size)
  /\ begin' = [begin EXCEPT ![c] = Size]
  /\ Goes(c, "returned") /\ on' = [on EXCEPT ![c] = Null]
  /\ UNCHANGED <<grain, n, cursor, spawns, lane, hint, claimed, inbox, act>>

\* The measured width runs chunks of the range on the caller, at most a share
\* of it.
Probe(c, take) ==
  /\ pc[c] = "probe"
  /\ take <= Max2(1, Size \div ProbeShare) - begin[c]
  /\ Body(c, begin[c], begin[c] + take)
  /\ begin' = [begin EXCEPT ![c] = @ + take]
  /\ UNCHANGED <<pc, on, grain, n, cursor, spawns, lane, hint, claimed, inbox,
                 act>>

\* RunCursorRange: at most kSlices slices per worker, and no more lanes than
\* slices.
CursorGrain(c, g) ==
  Max2(Max2(g, kMinSlice),
       DivUp(Size - begin[c], Cardinality(Workers) * kSlices))

CursorLanes(c, g) ==
  Min2(Cardinality(Workers), Max2(1, DivUp(Size - begin[c], g)))

\* The floor under the grain: so many leaves per worker of the chosen width.
LazyGrain(c, fanWidth) ==
  Max2(Max2(Grain, kMinGrain),
       DivUp(Size - begin[c], fanWidth * LeavesPerWorker))

\* NonWorkerLaneClaim: only a bare caller tries, and one holds it at a time.
Claims(c) == Kind[c] = "bare" /\ claimed = Null

\* The width and the grain are settled.  A bare caller that cannot claim the
\* non-worker lane falls back to the cursor.
FanOut(c, fanWidth) ==
  LET g == LazyGrain(c, fanWidth)
      gc == CursorGrain(c, g)
      lanes == CursorLanes(c, gc)
      lazy == Kind[c] # "bare" \/ Claims(c)
  IN /\ pc[c] = "probe" /\ begin[c] < Size
     /\ claimed' = IF Claims(c) THEN c ELSE claimed
     /\ grain' = [grain EXCEPT ![c] = IF lazy THEN g ELSE gc]
     /\ IF lazy
        THEN /\ Goes(c, "lazy")
             /\ act' = [act EXCEPT ![on[c]] =
                          Act("lazy", c, begin[c], Size, FALSE, "split")]
             /\ UNCHANGED <<n, cursor, spawns>>
        ELSE /\ Goes(c, "spawn")
             /\ n' = [n EXCEPT ![c] = lanes]
             /\ spawns' = [spawns EXCEPT ![c] = lanes]
             /\ cursor' = [cursor EXCEPT ![c] = begin[c]]
             /\ UNCHANGED act
     /\ UNCHANGED <<on, begin, ran, lane, hint, inbox>>

-----------------------------------------------------------------------------
(* RunCursorRange                                                          *)

\* One lane task is created and pushed, or its count is given back.
Spawn(c) ==
  /\ pc[c] = "spawn" /\ spawns[c] > 0
  /\ spawns' = [spawns EXCEPT ![c] = @ - 1]
  /\ \/ inbox' = inbox \cup {<<c, spawns[c]>>} /\ UNCHANGED n
     \/ n' = [n EXCEPT ![c] = @ - 1] /\ UNCHANGED inbox
  /\ UNCHANGED <<pc, on, begin, grain, cursor, ran, lane, hint, claimed, act>>

\* The caller pulls slices too.
PullsToo(c) ==
  /\ pc[c] = "spawn" /\ spawns[c] = 0
  /\ Goes(c, "cursor")
  /\ act' = [act EXCEPT ![on[c]] = Act("cursor", c, 0, 0, FALSE, "pull")]
  /\ UNCHANGED <<on, begin, grain, n, cursor, spawns, ran, lane, hint, claimed,
                 inbox>>

\* cursor.fetch_add(grain), then the slice or the end of the loop.
Pull(t) ==
  LET a == act[t]
      c == a.call
      lo == cursor[c]
      next == Wrap(lo + grain[c])
  IN /\ a.kind = "cursor" /\ a.at = "pull"
     /\ cursor' = [cursor EXCEPT ![c] = next]
     /\ act' = [act EXCEPT ![t] =
                  IF lo >= Size THEN [a EXCEPT !.at = "done"]
                  ELSE [a EXCEPT !.lo = lo, !.at = "body",
                                 !.hi = IF next > Size THEN Size ELSE next]]
     /\ UNCHANGED <<pc, on, begin, grain, n, spawns, ran, lane, hint, claimed,
                    inbox>>

-----------------------------------------------------------------------------
(* RunLazyRange                                                            *)

MaySplit(t) ==
  LET a == act[t]
      myLane == LaneForCurrentThread(t)
  IN /\ myLane # Null
     /\ a.hi - a.lo > grain[a.call]
     /\ LazySplitCap = 0 \/ Len(lane[myLane]) <= LazySplitCap

\* A task for the right half is created and counted, the lane advertised.
Count(t) ==
  /\ act[t].kind = "lazy" /\ act[t].at = "split" /\ MaySplit(t)
  /\ n' = [n EXCEPT ![act[t].call] = @ + 1]
  /\ hint' = hint \cup {LaneForCurrentThread(t)}
  /\ act' = [act EXCEPT ![t].at = "push"]
  /\ UNCHANGED <<pc, on, begin, grain, cursor, spawns, ran, lane, claimed,
                 inbox>>

\* As if the count were taken only once the piece is in the deque.
PushUncounted(t) ==
  LET a == act[t]
      q == LaneForCurrentThread(t)
      mid == a.lo + (a.hi - a.lo) \div 2
  IN /\ a.at = "push"
     /\ lane' = [lane EXCEPT ![q] = Append(@,
                   Act("lazy", a.call, mid, a.hi, TRUE, "split"))]
     /\ act' = [act EXCEPT ![t].hi = mid, ![t].at = "split"]
     /\ n' = [n EXCEPT ![a.call] = @ - 1]
     /\ UNCHANGED <<pc, on, begin, grain, cursor, spawns, ran, hint, claimed,
                    inbox>>

\* push_bottom; a full deque takes the count back and ends the splitting.
PushBottom(t) ==
  LET a == act[t]
      c == a.call
      q == LaneForCurrentThread(t)
      mid == a.lo + (a.hi - a.lo) \div 2
  IN /\ a.at = "push"
     /\ IF Len(lane[q]) < LaneCapacity
        THEN /\ lane' = [lane EXCEPT ![q] = Append(@,
                           Act("lazy", c, mid, a.hi, TRUE, "split"))]
             /\ act' = [act EXCEPT ![t].hi = mid, ![t].at = "split"]
             /\ UNCHANGED n
        ELSE /\ n' = [n EXCEPT ![c] = @ - 1]
             /\ act' = [act EXCEPT ![t].at = "body"]
             /\ UNCHANGED lane
     /\ UNCHANGED <<pc, on, begin, grain, cursor, spawns, ran, hint, claimed,
                    inbox>>

\* No more splits: too small, no lane, enough unclaimed ones, no task.
Stops(t) ==
  /\ act[t].kind = "lazy" /\ act[t].at = "split"
  /\ act' = [act EXCEPT ![t].at = "body"]
  /\ UNCHANGED <<pc, on, begin, grain, n, cursor, spawns, ran, lane, hint,
                 claimed, inbox>>

RunsBody(t) ==
  /\ act[t].at = "body"
  /\ Body(act[t].call, act[t].lo, act[t].hi)
  /\ act' = [act EXCEPT ![t].at =
               IF act[t].kind = "cursor" THEN "pull" ELSE "done"]
  /\ UNCHANGED <<pc, on, begin, grain, n, cursor, spawns, lane, hint, claimed,
                 inbox>>

\* A task's end decrements the WaitGroup; the caller's own share leads to the
\* wait, off the worker when the caller is a fiber.
Ends(t) ==
  LET a == act[t]
      c == a.call
  IN /\ a.at = "done"
     /\ act' = [act EXCEPT ![t] = Idle]
     /\ IF a.task
        THEN /\ n' = [n EXCEPT ![c] = @ - 1] /\ UNCHANGED <<pc, on>>
        ELSE /\ Goes(c, "wait")
             /\ on' = IF Kind[c] = "fiber" THEN [on EXCEPT ![c] = Null] ELSE on
             /\ UNCHANGED n
     /\ UNCHANGED <<begin, grain, cursor, spawns, ran, lane, hint, claimed,
                    inbox>>

-----------------------------------------------------------------------------
(* The wait, and the workers                                               *)

\* The task at the bottom of the thread's own deque.
PopBottom(t) ==
  LET q == LaneForCurrentThread(t)
  IN /\ q # Null /\ lane[q] # <<>>
     /\ act' = [act EXCEPT ![t] = Last(lane[q])]
     /\ lane' = [lane EXCEPT ![q] = Front(@)]
     /\ UNCHANGED <<pc, on, begin, grain, n, cursor, spawns, ran, hint, claimed,
                    inbox>>

\* The oldest task of another deque.
StealFrom(t, q) ==
  /\ q # LaneForCurrentThread(t) /\ lane[q] # <<>>
  /\ act' = [act EXCEPT ![t] = Head(lane[q])]
  /\ lane' = [lane EXCEPT ![q] = Tail(@)]

\* A helping caller: its own lane first; with that empty it retracts its hint
\* and runs whatever task it finds, provided any lane is advertised.
Helps(c) ==
  LET t == on[c]
      q == LaneForCurrentThread(t)
      hinted == hint \ {q}
  IN /\ pc[c] = "wait" /\ Kind[c] # "fiber" /\ n[c] > 0 /\ act[t] = Idle
     /\ \/ PopBottom(t)
        \/ /\ q # Null => lane[q] = <<>>
           /\ hint' = hinted /\ hinted # {}
           /\ \E v \in Lanes : StealFrom(t, v)
           /\ UNCHANGED <<pc, on, begin, grain, n, cursor, spawns, ran,
                          claimed, inbox>>

\* The wait is over: a caller with a lane retracts its hint, whatever the lane
\* holds, and a bare one gives the lane up.
Returns(c) ==
  LET q == LaneForCurrentThread(on[c])
  IN /\ pc[c] = "wait" /\ n[c] = 0
     /\ on[c] # Null => act[on[c]] = Idle
     /\ Goes(c, "returned") /\ on' = [on EXCEPT ![c] = Null]
     /\ hint' = IF Kind[c] = "fiber" THEN hint ELSE hint \ {q}
     /\ claimed' = IF claimed = c THEN Null ELSE claimed
     /\ UNCHANGED <<begin, grain, n, cursor, spawns, ran, lane, inbox, act>>

\* A pass of a worker's loop: its deque, then its inbox or an advertised deque.
WorkerPass(w) ==
  /\ Free(w)
  /\ \/ PopBottom(w)
     \/ /\ lane[w] = <<>> /\ hint' = hint \ {w}
        /\ \/ /\ \E x \in inbox :
                   /\ inbox' = inbox \ {x}
                   /\ act' = [act EXCEPT ![w] =
                                Act("cursor", x[1], 0, 0, TRUE, "pull")]
              /\ UNCHANGED lane
           \/ /\ \E q \in hint' : StealFrom(w, q)
              /\ UNCHANGED inbox
           \/ w \in hint /\ UNCHANGED <<lane, inbox, act>>
        /\ UNCHANGED <<pc, on, begin, grain, n, cursor, spawns, ran, claimed>>

CallStep(c) ==
  \/ \E t \in Threads : Enter(c, t)
  \/ Inline(c) \/ \E k \in 1 .. Size : Probe(c, k)
  \/ \E k \in 2 .. Max2(2, Cardinality(Workers)) : FanOut(c, k)
  \/ Spawn(c) \/ PullsToo(c) \/ Helps(c) \/ Returns(c)

ActStep(t) ==
  Pull(t) \/ Count(t) \/ PushBottom(t) \/ Stops(t) \/ RunsBody(t) \/ Ends(t)

Next ==
  \/ \E c \in Calls : CallStep(c)
  \/ \E t \in Threads : ActStep(t)
  \/ \E w \in Workers : WorkerPass(w)

Spec == Init /\ [][Next]_rangeVars

-----------------------------------------------------------------------------
(* Properties                                                              *)

\* The pieces of a call that are out of its caller's hands: queued, in an
\* inbox, or run as a task.
Piece(a, c) == a.call = c /\ a.task
PiecesQueued(c) == \E q \in Lanes : \E i \in DOMAIN lane[q] : Piece(lane[q][i], c)
PiecesOut(c) ==
  \/ PiecesQueued(c)
  \/ \E x \in inbox : x[1] = c
  \/ \E t \in Threads : Piece(act[t], c)

\* Every index of the range runs at most once, and exactly once by the time
\* ParallelFor returns: over the probe's prefix, the halves that are stolen,
\* the slices of the cursor, and the pieces that could not be created or
\* pushed.
EachIndexOnce ==
  \A c \in Calls : \A i \in Indices :
    /\ ran[c][i] <= 1
    /\ pc[c] = "returned" => ran[c][i] = 1

\* "EVERYTHING LIVES ON THE CALLER'S STACK, which is sound only because both
\* entry points BLOCK" (RunCursorRange): when the call has returned, no piece
\* of it is queued or running that would use its func, cursor or WaitGroup.
CallerOutlivesPieces == \A c \in Calls : pc[c] = "returned" => ~PiecesOut(c)

\* A caller still waiting has a piece to wait for: no count is left raised by
\* a lane that could not be created or pushed.
WaitsForPieces ==
  \A c \in Calls : pc[c] = "wait" /\ n[c] > 0 => PiecesOut(c)

\* The bit of the non-worker lane is retired with the claim on the lane: no
\* worker's pass ever clears it, and a bit that stays keeps the pool awake.
NoHintLeaks == Main \in hint => claimed # Null

\* "while ANY work remains the lane stays advertised, which costs a probe and
\* can never hide a split" (SetParallelHint): a piece in the non-worker lane is
\* advertised to the thieves.
NoSplitHidden == lane[Main] # <<>> => Main \in hint
=============================================================================
