---------------------------- MODULE WorkerSteps ----------------------------
(***************************************************************************)
(* Steps that keep the pool's invariant: the accesses that flag, queue and *)
(* wake, whoever makes them, and a worker's loop between two scripts, from *)
(* its top to the futex and to the tasks it takes.                         *)
(***************************************************************************)
EXTENDS WorkerInvariant

-----------------------------------------------------------------------------
(* Accesses that flag, queue and wake *)

\* An access other than a delivery, followed by nothing that carries a task.
LEMMA PlainHolds ==
  ASSUME ScriptInv, NEW a \in Actors, script[a] # <<>>,
         NEW more, GoodScript(a, more), Plain(more), Proceed(a, more),
         Op(a).op \notin Carriers
  PROVE  \A b \in Actors, t \in Tasks : Holds(b, t)' <=> Holds(b, t)
<1>1. \A b \in Actors, t \in Tasks :
        Holds(b, t)' <=> IF b = a THEN Carries(more, t) ELSE Holds(b, t)
  BY ProceedMoves
<1>2. \A t \in Tasks : ~Carries(more, t)
  BY DEF Carries, Plain
<1>3. \A t \in Tasks : ~Carries(script[a], t)
  BY CarriesHead DEF ScriptInv, Op
<1>4. \A t \in Tasks : ~Holds(a, t)
  BY <1>3 DEF Holds, Carries, Carriers
<1> QED BY <1>1, <1>2, <1>4

\* Work or a flag comes to one worker; the Wake is in the rest of the script,
\* or the worker flags itself and is awake.
LEMMA WorkComes ==
  ASSUME IInv, NEW a \in Actors, script[a] # <<>>, Proceed(a, <<>>),
         Op(a).op \in {"inbox", "lane", "resumed", "mark", "lanewake"},
         UNCHANGED <<pc, workerState, reserved, word, intake>>,
         \A w \in Workers : w # Op(a).w => (OwnWork(w)' => OwnWork(w))
  PROVE  ScriptInv' /\ SleepInv' /\ LaneInv'
<1>1. GoodScript(a, <<>>) /\ ScriptInv
  BY GoodEmpty DEF IInv
<1>2. /\ script' \in [Actors -> Seq(Ops)]
      /\ \A b \in Actors : GoodScript(b, script[b])'
      /\ \A b \in Actors : b # a => script'[b] = script[b]
      /\ \A w : Promises(Tail(script[a]), w) => Announced(w)'
      /\ \A w : Announced(w) => Promise(Op(a), w) \/ Announced(w)'
      /\ \A w : Futexing(w) => (Op(a).op = "futex" /\ Op(a).w = w) \/ Futexing(w)'
      /\ LaneRousing => Op(a).op = "rouselane" \/ LaneRousing'
  BY <1>1, ProceedMoves
<1>3. /\ \A w : Announced(w) => Announced(w)'
      /\ \A w : Futexing(w) => Futexing(w)'
      /\ LaneRousing => LaneRousing'
  BY <1>2 DEF Promise
<1>4. ScriptInv'
  BY <1>1, <1>2 DEF ScriptInv, Actors
<1>5. ASSUME NEW w \in Workers
      PROVE  SleepOK(w)'
  <2>1. SleepOK(w)
    BY DEF IInv, SleepInv
  <2>2. CASE w # Op(a).w
    BY <1>3, <2>1, <2>2, StillAsleep
  <2>3. CASE w = Op(a).w /\ Op(a).op = "mark" /\ w = a
    <3>1. pc'[w] = "top"
      BY <1>1, <2>3 DEF ScriptInv
    <3> QED BY <3>1 DEF SleepOK, GoingToSleep
  <2>4. CASE w = Op(a).w /\ ~(Op(a).op = "mark" /\ w = a)
    <3>1. Promises(Tail(script[a]), w)
      BY <1>1, <2>4, WakeToCome DEF ScriptInv, Op
    <3> QED BY <1>2, <1>3, <2>1, <3>1, StillAsleep
  <2> QED BY <2>2, <2>3, <2>4
<1>6. LaneInv'
  BY <1>3, StillLane DEF IInv
<1> QED BY <1>4, <1>5, <1>6 DEF SleepInv

\* MarkQueuedWork and MarkLaneWake raise a flag; the Wake follows in the script.
LEMMA MarkStep ==
  ASSUME IInv, NEW a \in Actors, DoMark(a) \/ DoMarkLaneWake(a)
  PROVE  IInv'
<1>1. /\ script[a] # <<>> /\ Op(a).op \in {"mark", "lanewake"} /\ Proceed(a, <<>>)
      /\ UNCHANGED <<word, workerState, backlog, queues, pc, locals, task, tasks>>
      /\ hasQueuedWork' \subseteq hasQueuedWork \cup {Op(a).w}
      /\ laneWake' \subseteq laneWake \cup {Op(a).w}
  BY DEF DoMark, DoMarkLaneWake, Doing, Op
<1>2. \A w \in Workers : w # Op(a).w => (OwnWork(w)' => OwnWork(w))
  BY <1>1 DEF OwnWork, queues, locals
<1>3. ScriptInv' /\ SleepInv' /\ LaneInv'
  <2>1. UNCHANGED <<pc, workerState, reserved, word, intake>>
    BY <1>1 DEF queues, locals
  <2> QED BY <1>1, <1>2, <2>1, WorkComes
<1>4. PlaceInv'
  <2>1. \A b \in Actors, t \in Tasks : Holds(b, t)' <=> Holds(b, t)
    BY <1>1, GoodEmpty, PlainHolds DEF IInv, Carriers
  <2> QED BY <1>1, <2>1, StillPlaces DEF IInv, queues, tasks
<1>5. TypeInv' /\ HandInv'
  BY <1>1 DEF IInv, TypeInv, HandInv, queues, locals, tasks
<1> QED BY <1>3, <1>4, <1>5 DEF IInv

\* Wake's exchange: a sleeper gets its permit and the system call to come.
LEMMA WakeStep ==
  ASSUME IInv, NEW a \in Actors, Wake(a)
  PROVE  IInv'
<1> DEFINE v == Op(a).w
           more == IF workerState[v] = "WS_PARKED" THEN <<[op |-> "futex", w |-> v]>> ELSE <<>>
<1>1. /\ script[a] # <<>> /\ Op(a).op = "notify" /\ Proceed(a, more)
      /\ workerState' = [workerState EXCEPT ![v] = "WS_NOTIFIED"]
      /\ UNCHANGED <<word, hasQueuedWork, laneWake, backlog, queues, pc, locals, task, tasks>>
  BY DEF Wake, Doing, Op
<1>2. v \in Int
  BY <1>1, FirstAccess, OpFields
<1>3. [op |-> "futex", w |-> v] \in Ops
  BY <1>2 DEF Ops
<1>4. GoodScript(a, more) /\ Plain(more)
  BY <1>3, GoodSingle, GoodEmpty
<1>5. workerState[v] = "WS_PARKED" => Futexes(more, v)
  <2>1. DOMAIN <<[op |-> "futex", w |-> v]>> = {1}
    OBVIOUS
  <2> QED BY <2>1 DEF Futexes
<1> HIDE DEF more
<1>6. ScriptInv
  BY DEF IInv
<1>7. /\ script' \in [Actors -> Seq(Ops)]
      /\ \A b \in Actors : GoodScript(b, script[b])'
      /\ \A b \in Actors : b # a => script'[b] = script[b]
      /\ \A w : Announced(w) => Promise(Op(a), w) \/ Announced(w)'
      /\ \A w : Futexes(more, w) => Futexing(w)'
      /\ \A w : Futexing(w) => (Op(a).op = "futex" /\ Op(a).w = w) \/ Futexing(w)'
      /\ LaneRousing => Op(a).op = "rouselane" \/ LaneRousing'
  BY <1>1, <1>4, <1>6, ProceedMoves
<1>8. /\ \A w : w # v => (Announced(w) => Announced(w)')
      /\ \A w : Futexing(w) => Futexing(w)'
      /\ LaneRousing => LaneRousing'
  BY <1>1, <1>7 DEF Promise
<1>9. ScriptInv'
  BY <1>1, <1>6, <1>7 DEF ScriptInv, Actors
<1>10. \A w \in Workers : workerState'[w] = IF w = v THEN "WS_NOTIFIED" ELSE workerState[w]
  BY <1>1 DEF IInv, TypeInv
<1>11. ASSUME NEW w \in Workers
       PROVE  SleepOK(w)'
  <2>1. SleepOK(w) /\ (OwnWork(w)' <=> OwnWork(w))
    BY <1>1 DEF IInv, SleepInv, OwnWork, queues, locals
  <2>2. CASE w # v
    BY <1>1, <1>8, <1>10, <2>1, <2>2, StillAsleep
  <2>3. CASE w = v
    <3>1. workerState'[w] = "WS_NOTIFIED"
      BY <1>10, <2>3
    <3>2. pc[w] = "asleep" => Futexing(w)'
      BY <1>5, <1>7, <1>8, <2>1, <2>3 DEF SleepOK
    <3> QED BY <1>1, <3>1, <3>2 DEF SleepOK
  <2> QED BY <2>2, <2>3
<1>12. LaneInv'
  <2>1. 0 \in Workers
    BY PoolAssumption DEF Workers
  <2>2. UNCHANGED <<word, pc, intake, reserved>>
    BY <1>1 DEF queues, locals
  <2>3. CASE v # 0
    BY <1>8, <1>10, <2>1, <2>2, <2>3, StillLane DEF IInv
  <2>4. CASE v = 0
    BY <1>10, <2>1, <2>4 DEF LaneInv
  <2> QED BY <2>3, <2>4
<1>13. PlaceInv'
  <2>1. \A b \in Actors, t \in Tasks : Holds(b, t)' <=> Holds(b, t)
    BY <1>1, <1>4, <1>6, PlainHolds DEF Carriers
  <2> QED BY <1>1, <2>1, StillPlaces DEF IInv, queues, tasks
<1>14. TypeInv' /\ HandInv'
  BY <1>1 DEF IInv, TypeInv, HandInv, queues, locals, tasks, WorkerStates
<1> QED BY <1>9, <1>11, <1>12, <1>13, <1>14 DEF IInv, SleepInv

\* The system call that ends a sleep.
LEMMA FutexWakeStep ==
  ASSUME IInv, NEW a \in Actors, FutexWake(a)
  PROVE  IInv'
<1> DEFINE v == Op(a).w
<1>1. /\ script[a] # <<>> /\ Op(a).op = "futex" /\ Proceed(a, <<>>)
      /\ pc' = [pc EXCEPT ![v] = IF @ = "asleep" THEN "wait" ELSE @]
      /\ UNCHANGED <<word, flags, queues, locals, task, tasks>>
  BY DEF FutexWake, Doing, Op
<1>2. ScriptInv /\ GoodScript(a, <<>>) /\ Plain(<<>>)
  BY GoodEmpty DEF IInv
<1>3. /\ script' \in [Actors -> Seq(Ops)]
      /\ \A b \in Actors : GoodScript(b, script[b])'
      /\ \A b \in Actors : b # a => script'[b] = script[b]
      /\ \A w : Announced(w) => Promise(Op(a), w) \/ Announced(w)'
      /\ \A w : Futexing(w) => (Op(a).op = "futex" /\ Op(a).w = w) \/ Futexing(w)'
      /\ LaneRousing => Op(a).op = "rouselane" \/ LaneRousing'
  BY <1>1, <1>2, ProceedMoves
<1>4. /\ \A w : Announced(w) => Announced(w)'
      /\ \A w : w # v => (Futexing(w) => Futexing(w)')
      /\ LaneRousing => LaneRousing'
  BY <1>1, <1>3 DEF Promise
<1>5. \A w \in Workers : pc'[w] = IF w = v /\ pc[w] = "asleep" THEN "wait" ELSE pc[w]
  BY <1>1 DEF IInv, TypeInv
<1>6. TypeInv'
  BY <1>1 DEF IInv, TypeInv, flags, queues, locals, tasks, Labels
<1>7. ScriptInv'
  BY <1>1, <1>2, <1>3, <1>5 DEF ScriptInv, Actors
<1>8. HandInv'
  BY <1>1, <1>5 DEF IInv, HandInv
<1>9. ASSUME NEW w \in Workers
      PROVE  SleepOK(w)'
  <2>1. SleepOK(w) /\ (OwnWork(w)' <=> OwnWork(w)) /\ workerState' = workerState
    BY <1>1 DEF IInv, SleepInv, OwnWork, flags, queues, locals
  <2>2. CASE pc'[w] = pc[w] /\ (pc[w] = "asleep" => w # v)
    BY <1>4, <2>1, <2>2 DEF SleepOK, GoingToSleep
  <2>3. CASE pc[w] = "asleep" /\ pc'[w] = "wait"
    BY <2>1, <2>3 DEF SleepOK, GoingToSleep
  <2> QED BY <1>5, <2>2, <2>3
<1>10. LaneInv'
  <2>1. 0 \in Workers
    BY PoolAssumption DEF Workers
  <2>2. UNCHANGED <<word, workerState, intake, reserved>>
    BY <1>1 DEF flags, queues, locals
  <2> QED BY <1>4, <1>5, <2>1, <2>2 DEF IInv, LaneInv, GoingToSleep
<1>11. PlaceInv'
  <2>1. \A b \in Actors, t \in Tasks : Holds(b, t)' <=> Holds(b, t)
    BY <1>1, <1>2, PlainHolds DEF Carriers
  <2> QED BY <1>1, <2>1, StillPlaces DEF IInv, queues, tasks
<1> QED BY <1>6, <1>7, <1>8, <1>9, <1>10, <1>11 DEF IInv, SleepInv

\* An access that sends no worker work, and keeps the wakes that were to come.
LEMMA AccessKeeps ==
  ASSUME IInv, NEW a \in Actors, script[a] # <<>>,
         NEW more, GoodScript(a, more), Proceed(a, more),
         \A w : Promise(Op(a), w) => Promises(more, w), Op(a).op # "futex",
         UNCHANGED <<pc, workerState, reserved, word>>,
         \A w \in Workers : OwnWork(w)' => OwnWork(w)
  PROVE  /\ ScriptInv' /\ SleepInv'
         /\ intake' \subseteq intake /\ Op(a).op # "rouselane" => LaneInv'
<1>1. ScriptInv
  BY DEF IInv
<1>2. /\ script' \in [Actors -> Seq(Ops)]
      /\ \A b \in Actors : GoodScript(b, script[b])'
      /\ \A b \in Actors : b # a => script'[b] = script[b]
      /\ \A w : Promises(more, w) => Announced(w)'
      /\ \A w : Announced(w) => Promise(Op(a), w) \/ Announced(w)'
      /\ \A w : Futexing(w) => (Op(a).op = "futex" /\ Op(a).w = w) \/ Futexing(w)'
      /\ LaneRousing => Op(a).op = "rouselane" \/ LaneRousing'
  BY <1>1, ProceedMoves
<1>3. /\ \A w : Announced(w) => Announced(w)'
      /\ \A w : Futexing(w) => Futexing(w)'
      /\ LaneRousing => Op(a).op = "rouselane" \/ LaneRousing'
  BY <1>2
<1>4. ScriptInv'
  BY <1>1, <1>2 DEF ScriptInv, Actors
<1>5. \A w \in Workers : SleepOK(w)'
  BY <1>3, StillAsleep DEF IInv, SleepInv
<1>6. intake' \subseteq intake /\ Op(a).op # "rouselane" => LaneInv'
  BY <1>3, StillLane DEF IInv
<1> QED BY <1>4, <1>5, <1>6 DEF SleepInv

\* The push of a delivery: from the script to the inbox it names.
LEMMA PushStep ==
  ASSUME IInv, NEW a \in Actors, DoPush(a)
  PROVE  IInv'
<1> DEFINE v == Op(a).w
           t == Op(a).t
<1>1. PICK kind \in {"inbox", "lane", "resumed"} :
        /\ script[a] # <<>> /\ Op(a).op = kind
        /\ inbox' = IF kind = "inbox" THEN [inbox EXCEPT ![v] = @ \cup {t}] ELSE inbox
        /\ lane' = IF kind = "lane" THEN [lane EXCEPT ![v] = @ \cup {t}] ELSE lane
        /\ resumed' = IF kind = "resumed" THEN [resumed EXCEPT ![v] = @ \cup {t}] ELSE resumed
  BY DEF DoPush, Doing, Op
<1>2. Proceed(a, <<>>) /\ UNCHANGED <<word, flags, deque, intake, pc, locals, task, tasks>>
  BY DEF DoPush
<1>3. v \in Workers /\ t \in Tasks
  BY <1>1, FirstAccess, OpFields
<1> HIDE DEF v, t
<1>4. /\ inbox \in [Workers -> SUBSET Tasks] /\ lane \in [Workers -> SUBSET Tasks]
      /\ resumed \in [Workers -> SUBSET Tasks]
  BY DEF IInv, TypeInv
<1>5. /\ \A x \in Workers : inbox'[x] = IF kind = "inbox" /\ x = v THEN inbox[x] \cup {t} ELSE inbox[x]
      /\ \A x \in Workers : lane'[x] = IF kind = "lane" /\ x = v THEN lane[x] \cup {t} ELSE lane[x]
      /\ \A x \in Workers : resumed'[x] = IF kind = "resumed" /\ x = v THEN resumed[x] \cup {t}
                                          ELSE resumed[x]
  BY <1>1, <1>4
<1>6. ScriptInv' /\ SleepInv' /\ LaneInv'
  <2>1. \A w \in Workers : w # v => (OwnWork(w)' => OwnWork(w))
    BY <1>2, <1>5 DEF OwnWork, flags, locals
  <2>2. UNCHANGED <<pc, workerState, reserved, word, intake>>
    BY <1>2 DEF flags, locals
  <2> QED BY <1>1, <1>2, <2>1, <2>2, WorkComes DEF v
<1>7. TypeInv' /\ HandInv'
  BY <1>1, <1>2, <1>3 DEF IInv, TypeInv, HandInv, flags, locals, tasks
<1>8. \A b \in Actors, u \in Tasks : Holds(b, u)' <=> b # a /\ Holds(b, u)
  <2>1. \A u : ~Carries(<<>>, u)
    BY DEF Carries
  <2> QED BY <1>1, <1>2, <2>1, GoodEmpty, ProceedMoves DEF IInv
<1>9. \A u \in Tasks : Holds(a, u) <=> u = t
  <2>1. \A u \in Tasks : Carries(script[a], u) <=> u = t
    BY <1>1, CarriesHead DEF IInv, ScriptInv, Op, Carriers, t
  <2> QED BY <2>1 DEF Holds, Carries, Carriers
<1>10. PlaceInv'
  <2>1. UNCHANGED <<deque, task, intake, fresh, suspended, done>>
    BY <1>2 DEF tasks
  <2>2. IsAt(t, "script", a)
    BY <1>3, <1>9 DEF IsAt
  <2>3. ASSUME NEW u \in Tasks, NEW k \in Kinds, NEW x \in Keepers
        PROVE  IsAt(u, k, x)' <=> \/ IsAt(u, k, x) /\ ~(u = t /\ k = "script" /\ x = a)
                                  \/ u = t /\ k = kind /\ x = v
    <3>1. CASE k \in {"inbox", "lane", "resumed"}
      BY <1>3, <1>5, <3>1 DEF IsAt
    <3>2. CASE k = "script"
      BY <1>3, <1>8, <1>9, <3>2 DEF IsAt
    <3>3. CASE k \in {"deque", "running", "intake", "fresh", "suspended", "done"}
      BY <1>3, <2>1, <3>3 DEF IsAt
    <3> QED BY <3>1, <3>2, <3>3 DEF Kinds
  <2>4. "script" \in Kinds /\ kind \in Kinds /\ a \in Keepers /\ v \in Keepers
    BY <1>3 DEF Kinds, Keepers, Actors
  <2>5. Moves(t, "script", a, kind, v)
    BY <2>2, <2>3 DEF Moves
  <2> QED BY <1>3, <2>4, <2>5, MovedPlace DEF IInv
<1> QED BY <1>6, <1>7, <1>10 DEF IInv

\* PushLaneIntake's enqueue, or the delivery it turns into.
LEMMA IntakeStep ==
  ASSUME IInv, NEW a \in Actors, DoIntake(a)
  PROVE  IInv'
<1> DEFINE t == Op(a).t
<1>1. /\ script[a] # <<>> /\ Op(a).op = "intake"
      /\ UNCHANGED <<word, flags, inbox, lane, resumed, deque, pc, locals, task, tasks>>
  BY DEF DoIntake, Doing, Op
<1>2. t \in Tasks
  BY <1>1, FirstAccess, OpFields
<1>3. \A u \in Tasks : Holds(a, u) <=> u = t
  <2>1. \A u \in Tasks : Carries(script[a], u) <=> u = t
    BY <1>1, CarriesHead DEF IInv, ScriptInv, Op, Carriers
  <2> QED BY <2>1 DEF Holds, Carries, Carriers
<1>4. /\ \A w \in Workers : OwnWork(w)' => OwnWork(w)
      /\ UNCHANGED <<pc, workerState, reserved, word>>
  BY <1>1 DEF OwnWork, flags, locals
<1>5. TypeInv' /\ HandInv'
  <2>1. intake' \subseteq Tasks
    BY <1>2 DEF DoIntake, IInv, TypeInv
  <2> QED BY <1>1, <2>1 DEF IInv, TypeInv, HandInv, flags, locals, tasks
<1>6. \A w : ~Promise(Op(a), w)
  BY <1>1 DEF Promise
<1> HIDE DEF t
<1>7. CASE LaneActive /\ intake' = intake \cup {t} /\ Proceed(a, <<[op |-> "rouselane"]>>)
  <2> DEFINE o == [op |-> "rouselane"]
  <2>1. GoodScript(a, <<o>>) /\ \A u : ~Carries(<<o>>, u)
    <3>1. o \in Ops
      BY DEF Ops
    <3>2. DOMAIN <<o>> = {1} /\ <<o>>[1].op = "rouselane"
      OBVIOUS
    <3> QED BY <3>1, <3>2, GoodSingle DEF Carries, Carriers
  <2>2. ScriptInv' /\ SleepInv'
    BY <1>1, <1>4, <1>6, <1>7, <2>1, AccessKeeps
  <2>3. Doing(a, "rouselane")'
    <3>1. script'[a] = <<o>> \o Tail(script[a])
      BY <1>7 DEF IInv, ScriptInv, Proceed
    <3>2. Tail(script[a]) \in Seq(Ops) /\ <<o>> \in Seq(Ops)
      <4>1. GoodScript(a, script[a])
        BY DEF IInv, ScriptInv
      <4>2. script[a] \in Seq(Ops) /\ <<o>> \in Seq(Ops)
        BY <2>1, <4>1 DEF GoodScript
      <4>3. script[a] # <<>>
        BY <1>1
      <4> HIDE DEF o
      <4> QED BY <4>2, <4>3
    <3>3. /\ Len(<<o>>) = 1 /\ Len(Tail(script[a])) \in Nat
          /\ script'[a] \in Seq(Ops) /\ Len(script'[a]) = 1 + Len(Tail(script[a]))
          /\ script'[a][1] = <<o>>[1]
      <4> HIDE DEF o
      <4> QED BY <3>1, <3>2
    <3>4. script'[a] # <<>> /\ Head(script'[a]) = script'[a][1]
      BY <3>3
    <3>5. <<o>>[1].op = "rouselane"
      OBVIOUS
    <3> HIDE DEF o
    <3> QED BY <3>3, <3>4, <3>5 DEF Doing
  <2>4. LaneInv'
    <3>1. LaneRousing'
      BY <2>3 DEF LaneRousing
    <3>2. \A w : Announced(w) => Announced(w)'
      BY <1>1, <1>6, <1>7, <2>1, ProceedMoves DEF IInv
    <3> QED BY <1>4, <3>1, <3>2 DEF IInv, LaneInv
  <2>5. \A b \in Actors, u \in Tasks : Holds(b, u)' <=> b # a /\ Holds(b, u)
    BY <1>1, <1>7, <2>1, ProceedMoves DEF IInv
  <2>6. PlaceInv'
    <3>1. UNCHANGED <<inbox, lane, resumed, deque, task, fresh, suspended, done>>
      BY <1>1 DEF tasks
    <3>2. IsAt(t, "script", a)
      BY <1>2, <1>3 DEF IsAt
    <3>3. ASSUME NEW u \in Tasks, NEW k \in Kinds, NEW x \in Keepers
          PROVE  IsAt(u, k, x)' <=> \/ IsAt(u, k, x) /\ ~(u = t /\ k = "script" /\ x = a)
                                    \/ u = t /\ k = "intake" /\ x = NoTask
      BY <1>2, <1>3, <1>7, <2>5, <3>1 DEF IsAt, Kinds
    <3>4. "script" \in Kinds /\ "intake" \in Kinds /\ a \in Keepers /\ NoTask \in Keepers
      BY DEF Kinds, Keepers
    <3>5. Moves(t, "script", a, "intake", NoTask)
      BY <3>2, <3>3 DEF Moves
    <3> QED BY <1>2, <3>4, <3>5, MovedPlace DEF IInv
  <2> QED BY <1>5, <2>2, <2>4, <2>6 DEF IInv
<1>8. ASSUME ~LaneActive, intake' = intake, NEW w \in Workers, Proceed(a, Deliver("lane", w, t))
      PROVE  IInv'
  <2>1. GoodScript(a, Deliver("lane", w, t)) /\ \A u : Carries(Deliver("lane", w, t), u) <=> u = t
    BY <1>2, GoodDeliver
  <2>2. ScriptInv' /\ SleepInv' /\ LaneInv'
    BY <1>1, <1>4, <1>6, <1>8, <2>1, AccessKeeps
  <2>3. \A b \in Actors, u \in Tasks : Holds(b, u)' <=> Holds(b, u)
    BY <1>1, <1>3, <1>8, <2>1, ProceedMoves DEF IInv
  <2>4. PlaceInv'
    BY <1>1, <1>8, <2>3, StillPlaces DEF IInv, queues, tasks
  <2> QED BY <1>5, <2>2, <2>4 DEF IInv
<1> QED BY <1>7, <1>8 DEF DoIntake, t

\* PushLaneIntake's wake: a worker 0 that is going to sleep is not busy, so it
\* is the first of the band that is not.
LEMMA RouseLaneStep ==
  ASSUME IInv, NEW a \in Actors, DoRouseLane(a)
  PROVE  IInv'
<1> DEFINE band == {w \in Workers : w < word.k}
           idle == {w \in band : pc[w] # "body"}
<1>1. /\ script[a] # <<>> /\ Op(a).op = "rouselane"
      /\ UNCHANGED <<word, flags, queues, pc, locals, task, tasks>>
  BY DEF DoRouseLane, Doing, Op
<1>2. 0 \in Workers /\ Workers \subseteq Int
  BY PoolAssumption DEF Workers
<1>3. PICK more : /\ Proceed(a, more) /\ GoodScript(a, more) /\ Plain(more)
                  /\ word.k > 0 /\ GoingToSleep(0) => Promises(more, 0)
  <2>1. CASE band = {} /\ Proceed(a, <<>>)
    <3>1. ~(word.k > 0)
      BY <1>2, <2>1
    <3> QED BY <2>1, <3>1, GoodEmpty
  <2>2. ASSUME NEW w \in idle, \A v \in idle : w <= v, Proceed(a, Rouse(w))
        PROVE  \E more : /\ Proceed(a, more) /\ GoodScript(a, more) /\ Plain(more)
                         /\ word.k > 0 /\ GoingToSleep(0) => Promises(more, 0)
    <3>1. w \in Int /\ w >= 0
      BY PoolAssumption DEF Workers
    <3>2. word.k > 0 /\ GoingToSleep(0) => w = 0
      <4>1. word.k > 0 /\ GoingToSleep(0) => 0 \in idle
        BY <1>2 DEF GoingToSleep
      <4> QED BY <2>2, <3>1, <4>1
    <3> QED BY <2>2, <3>1, <3>2, GoodRouse
  <2>3. CASE band # {} /\ idle = {} /\ Proceed(a, Rouse(0))
    BY <2>3, GoodRouse
  <2> QED BY <2>1, <2>2, <2>3 DEF DoRouseLane
<1>4. /\ \A w : ~Promise(Op(a), w)
      /\ UNCHANGED <<pc, workerState, reserved, word, intake>>
      /\ \A w \in Workers : OwnWork(w)' => OwnWork(w)
  BY <1>1 DEF Promise, flags, queues, locals, OwnWork
<1>5. ScriptInv' /\ SleepInv'
  BY <1>1, <1>3, <1>4, AccessKeeps
<1>6. LaneInv'
  <2>1. \A w : Announced(w) \/ Promises(more, w) => Announced(w)'
    BY <1>1, <1>3, <1>4, ProceedMoves DEF IInv
  <2>2. GoingToSleep(0)' <=> GoingToSleep(0)
    BY <1>4 DEF GoingToSleep
  <2> QED BY <1>3, <1>4, <2>1, <2>2 DEF IInv, LaneInv
<1>7. PlaceInv'
  <2>1. \A b \in Actors, t \in Tasks : Holds(b, t)' <=> Holds(b, t)
    BY <1>1, <1>3, PlainHolds DEF IInv, Carriers
  <2> QED BY <1>1, <2>1, StillPlaces DEF IInv, queues, tasks
<1>8. TypeInv' /\ HandInv'
  BY <1>1 DEF IInv, TypeInv, HandInv, flags, queues, locals, tasks
<1> QED BY <1>5, <1>6, <1>7, <1>8 DEF IInv

\* One task of a shed: from the inbox of the new member into the script.
LEMMA ShedStep ==
  ASSUME IInv, NEW a \in Actors, DoShed(a)
  PROVE  IInv'
<1> DEFINE hi == Op(a).hi
           lo == Op(a).lo
<1>1. /\ script[a] # <<>> /\ Op(a).op = "shed"
      /\ UNCHANGED <<word, flags, lane, resumed, deque, intake, pc, locals, task, tasks>>
  BY DEF DoShed, Doing, Op
<1>2. hi \in Workers /\ lo \in Nat /\ Op(a).moved \in BOOLEAN /\ Op(a) \in Ops
  BY <1>1, FirstAccess, OpFields
<1>3. /\ UNCHANGED <<pc, workerState, reserved, word>> /\ intake' \subseteq intake
  BY <1>1 DEF flags, locals
<1>4. \A u \in Tasks : ~Holds(a, u)
  <2>1. \A u \in Tasks : ~Carries(script[a], u)
    BY <1>1, CarriesHead DEF IInv, ScriptInv, Op, Carriers
  <2> QED BY <2>1 DEF Holds, Carries, Carriers
<1>5. ASSUME NEW v \in lo..(hi - 1), NEW t \in inbox[v],
             inbox' = [inbox EXCEPT ![v] = @ \ {t}],
             Proceed(a, <<[op |-> "inbox", w |-> hi, t |-> t], [Op(a) EXCEPT !.moved = TRUE]>>)
      PROVE  IInv'
  <2> DEFINE o == [op |-> "inbox", w |-> hi, t |-> t]
             q == [Op(a) EXCEPT !.moved = TRUE]
             more == <<o, q>>
  <2>1. v \in Workers /\ t \in Tasks /\ inbox \in [Workers -> SUBSET Tasks]
    <3>1. v \in Workers
      BY <1>2, PoolAssumption DEF Workers
    <3> QED BY <3>1 DEF IInv, TypeInv
  <2>2. Op(a) \in [op : {"shed"}, lo : Nat, hi : Workers, moved : BOOLEAN]
    BY <1>1, <1>2 DEF Ops
  <2>3. /\ q \in [op : {"shed"}, lo : Nat, hi : Workers, moved : BOOLEAN]
        /\ q.op = "shed" /\ q.moved /\ q.hi = hi
    BY <2>2
  <2>4. o \in Ops /\ q \in Ops /\ o.op = "inbox" /\ o.w = hi /\ o.t = t
    BY <1>2, <2>1, <2>3 DEF Ops
  <2> HIDE DEF o, q
  <2>5. more \in Seq(Ops) /\ DOMAIN more = 1..2 /\ more[1] = o /\ more[2] = q
    BY <2>4
  <2> HIDE DEF more
  <2>6. \A i \in DOMAIN more : i = 1 \/ i = 2
    BY <2>5
  <2>7. 2 \in DOMAIN more /\ 1 \in DOMAIN more /\ Promise(more[2], hi)
    <3>1. Promise(q, hi)
      BY <2>3 DEF Promise
    <3> QED BY <2>5, <3>1
  <2>8. GoodScript(a, more)
    <3>1. \A i \in DOMAIN more : i > 1 => more[i].op \notin Carriers \cup {"rouselane"}
      <4>1. q.op \notin Carriers \cup {"rouselane"}
        BY <2>3 DEF Carriers
      <4>2. \A i \in DOMAIN more : i > 1 => more[i] = q
        BY <2>5, <2>6
      <4> QED BY <4>1, <4>2
    <3>2. ASSUME NEW i \in DOMAIN more,
                 more[i].op \in {"inbox", "lane", "resumed", "mark", "lanewake"}
          PROVE  \E j \in DOMAIN more : i < j /\ Promise(more[j], more[i].w)
      <4>1. i = 1 /\ more[i].w = hi
        BY <2>3, <2>4, <2>5, <2>6, <3>2
      <4> QED BY <2>7, <4>1
    <3> QED BY <2>5, <3>1, <3>2 DEF GoodScript
  <2>9. (\A u : Carries(more, u) <=> u = t) /\ Promises(more, hi)
    BY <2>3, <2>4, <2>5, <2>6, <2>7 DEF Carries, Carriers, Promises
  <2>10. \A w : Promise(Op(a), w) => Promises(more, w)
    BY <1>1, <2>9 DEF Promise
  <2>11. \A x \in Workers : inbox'[x] = IF x = v THEN inbox[x] \ {t} ELSE inbox[x]
    BY <1>5, <2>1
  <2>12. \A w \in Workers : OwnWork(w)' => OwnWork(w)
    BY <1>1, <2>11 DEF OwnWork, flags, locals
  <2>13. Proceed(a, more)
    BY <1>5 DEF more, o, q
  <2>14. ScriptInv' /\ SleepInv' /\ LaneInv'
    BY <1>1, <1>3, <2>8, <2>10, <2>12, <2>13, AccessKeeps
  <2>15. \A b \in Actors, u \in Tasks : Holds(b, u)' <=> IF b = a THEN u = t ELSE Holds(b, u)
    BY <1>1, <2>8, <2>9, <2>13, ProceedMoves DEF IInv
  <2>16. PlaceInv'
    <3>1. UNCHANGED <<lane, resumed, deque, intake, task, fresh, suspended, done>>
      BY <1>1 DEF tasks
    <3>2. IsAt(t, "inbox", v)
      BY <2>1 DEF IsAt
    <3>3. ASSUME NEW u \in Tasks, NEW k \in Kinds, NEW x \in Keepers
          PROVE  IsAt(u, k, x)' <=> \/ IsAt(u, k, x) /\ ~(u = t /\ k = "inbox" /\ x = v)
                                    \/ u = t /\ k = "script" /\ x = a
      <4>1. CASE k = "inbox"
        BY <2>1, <2>11, <4>1 DEF IsAt
      <4>2. CASE k = "script"
        BY <1>4, <2>15, <4>2 DEF IsAt
      <4>3. CASE k \notin {"inbox", "script"}
        BY <3>1, <4>3 DEF IsAt
      <4> QED BY <4>1, <4>2, <4>3
    <3>4. "script" \in Kinds /\ "inbox" \in Kinds /\ a \in Keepers /\ v \in Keepers
      BY <2>1 DEF Kinds, Keepers, Actors
    <3>5. Moves(t, "inbox", v, "script", a)
      BY <3>2, <3>3 DEF Moves
    <3> QED BY <2>1, <3>4, <3>5, MovedPlace DEF IInv
  <2>17. TypeInv' /\ HandInv'
    BY <1>1, <1>5, <2>1 DEF IInv, TypeInv, HandInv, flags, locals, tasks
  <2> QED BY <2>14, <2>16, <2>17 DEF IInv
<1>6. CASE inbox' = inbox /\ Proceed(a, IF Op(a).moved THEN Rouse(hi) ELSE <<>>)
  <2> DEFINE more == IF Op(a).moved THEN Rouse(hi) ELSE <<>>
  <2>1. hi \in Int
    BY <1>2, PoolAssumption DEF Workers
  <2>2. /\ GoodScript(a, more) /\ Plain(more)
        /\ \A w : Promise(Op(a), w) => Promises(more, w)
    BY <1>1, <2>1, GoodRouse, GoodEmpty DEF Promise
  <2> HIDE DEF more
  <2>3. Proceed(a, more)
    BY <1>6 DEF more
  <2>4. \A w \in Workers : OwnWork(w)' => OwnWork(w)
    BY <1>1, <1>6 DEF OwnWork, flags, locals
  <2>5. ScriptInv' /\ SleepInv' /\ LaneInv'
    BY <1>1, <1>3, <2>2, <2>3, <2>4, AccessKeeps
  <2>6. PlaceInv'
    <3>1. \A b \in Actors, t \in Tasks : Holds(b, t)' <=> Holds(b, t)
      BY <1>1, <2>2, <2>3, PlainHolds DEF IInv, Carriers
    <3> QED BY <1>1, <1>6, <3>1, StillPlaces DEF IInv, queues, tasks
  <2>7. TypeInv' /\ HandInv'
    BY <1>1, <1>6 DEF IInv, TypeInv, HandInv, flags, locals, tasks
  <2> QED BY <2>5, <2>6, <2>7 DEF IInv
<1> QED BY <1>5, <1>6 DEF DoShed

\* One task of a spread: from the worker's deque into its script.
LEMMA HandStep ==
  ASSUME IInv, NEW a \in Workers, DoHand(a)
  PROVE  IInv'
<1>1. /\ a \in Actors /\ script[a] # <<>> /\ Op(a).op = "hand"
      /\ UNCHANGED <<word, flags, inbox, lane, resumed, intake, pc, locals, task, tasks>>
  BY DEF DoHand, Doing, Op, Actors
<1>2. /\ \A w \in Workers : OwnWork(w)' => OwnWork(w)
      /\ UNCHANGED <<pc, workerState, reserved, word>> /\ intake' \subseteq intake
      /\ \A w : ~Promise(Op(a), w)
  BY <1>1 DEF OwnWork, flags, locals, Promise
<1>3. ASSUME NEW t \in deque[a], NEW v \in Workers, deque' = [deque EXCEPT ![a] = @ \ {t}],
             Proceed(a, Deliver("inbox", v, t))
      PROVE  IInv'
  <2>1. t \in Tasks /\ deque \in [Workers -> SUBSET Tasks]
    BY DEF IInv, TypeInv
  <2>2. /\ GoodScript(a, Deliver("inbox", v, t))
        /\ \A u : Carries(Deliver("inbox", v, t), u) <=> u = t
    BY <2>1, GoodDeliver
  <2>3. ScriptInv' /\ SleepInv' /\ LaneInv'
    BY <1>1, <1>2, <1>3, <2>2, AccessKeeps
  <2>4. \A b \in Actors, u \in Tasks : Holds(b, u)' <=> IF b = a THEN u = t ELSE Holds(b, u)
    BY <1>1, <1>3, <2>2, ProceedMoves DEF IInv
  <2>5. \A u \in Tasks : ~Holds(a, u)
    <3>1. \A u \in Tasks : ~Carries(script[a], u)
      BY <1>1, CarriesHead DEF IInv, ScriptInv, Op, Carriers
    <3> QED BY <3>1 DEF Holds, Carries, Carriers
  <2>6. \A x \in Workers : deque'[x] = IF x = a THEN deque[x] \ {t} ELSE deque[x]
    BY <1>3, <2>1
  <2>7. PlaceInv'
    <3>1. UNCHANGED <<inbox, lane, resumed, intake, task, fresh, suspended, done>>
      BY <1>1 DEF tasks
    <3>2. IsAt(t, "deque", a)
      BY <2>1 DEF IsAt
    <3>3. ASSUME NEW u \in Tasks, NEW k \in Kinds, NEW x \in Keepers
          PROVE  IsAt(u, k, x)' <=> \/ IsAt(u, k, x) /\ ~(u = t /\ k = "deque" /\ x = a)
                                    \/ u = t /\ k = "script" /\ x = a
      <4>1. CASE k = "deque"
        BY <2>1, <2>6, <4>1 DEF IsAt
      <4>2. CASE k = "script"
        BY <1>1, <2>4, <2>5, <4>2 DEF IsAt
      <4>3. CASE k \notin {"deque", "script"}
        BY <3>1, <4>3 DEF IsAt
      <4> QED BY <4>1, <4>2, <4>3
    <3>4. "script" \in Kinds /\ "deque" \in Kinds /\ a \in Keepers
      BY <1>1 DEF Kinds, Keepers
    <3>5. Moves(t, "deque", a, "script", a)
      BY <3>2, <3>3 DEF Moves
    <3> QED BY <2>1, <3>4, <3>5, MovedPlace DEF IInv
  <2>8. TypeInv' /\ HandInv'
    BY <1>1, <1>3, <2>1 DEF IInv, TypeInv, HandInv, flags, locals, tasks
  <2> QED BY <2>3, <2>7, <2>8 DEF IInv
<1>4. CASE deque' = deque /\ Proceed(a, <<>>)
  <2>1. GoodScript(a, <<>>) /\ Plain(<<>>)
    BY GoodEmpty
  <2>2. ScriptInv' /\ SleepInv' /\ LaneInv'
    BY <1>1, <1>2, <1>4, <2>1, AccessKeeps
  <2>3. PlaceInv'
    <3>1. \A b \in Actors, t \in Tasks : Holds(b, t)' <=> Holds(b, t)
      BY <1>1, <1>4, <2>1, PlainHolds DEF IInv, Carriers
    <3> QED BY <1>1, <1>4, <3>1, StillPlaces DEF IInv, queues, tasks
  <2>4. TypeInv' /\ HandInv'
    BY <1>1, <1>4 DEF IInv, TypeInv, HandInv, flags, locals, tasks
  <2> QED BY <2>2, <2>3, <2>4 DEF IInv
<1> QED BY <1>3, <1>4 DEF DoHand

-----------------------------------------------------------------------------
(* The worker's loop *)

\* A worker's own step: what it does to the other workers' part of the
\* invariant.
LEMMA OwnStep ==
  ASSUME IInv, NEW w \in Workers, TypeInv', ScriptInv', HandInv', PlaceInv',
         word'.k = word.k, intake' \subseteq intake,
         \A v \in Workers \ {w} :
           /\ pc'[v] = pc[v] /\ workerState'[v] = workerState[v]
           /\ OwnWork(v)' => OwnWork(v)
           /\ v \in reserved => v \in reserved',
         \A v : Announced(v) => Announced(v)',
         \A v : Futexing(v) => Futexing(v)',
         LaneRousing => LaneRousing',
         SleepOK(w)', w = 0 => LaneInv'
  PROVE  IInv'
<1>1. SleepInv'
  <2> SUFFICES ASSUME NEW v \in Workers
               PROVE  SleepOK(v)'
    BY DEF SleepInv
  <2>1. CASE v = w
    BY <2>1
  <2>2. CASE v # w
    BY <2>2, StillAsleep DEF IInv, SleepInv
  <2> QED BY <2>1, <2>2
<1>2. LaneInv'
  <2>1. CASE w = 0
    BY <2>1
  <2>2. CASE w # 0
    <3>1. 0 \in Workers \ {w}
      BY <2>2, PoolAssumption DEF Workers
    <3>2. /\ pc'[0] = pc[0] /\ workerState'[0] = workerState[0]
          /\ 0 \in reserved => 0 \in reserved'
      BY <3>1
    <3> QED BY <3>2, StillLane DEF IInv
  <2> QED BY <2>1, <2>2
<1> QED BY <1>1, <1>2 DEF IInv

\* A step round the loop, or into or out of the park phase: no task moves and
\* no script changes.  A worker that goes on without having read K keeps its
\* permit.
LEMMA LoopStep ==
  ASSUME IInv, NEW w \in Workers, script[w] = <<>>, UNCHANGED <<queues, task, tasks, script>>,
         word' \in NatWord, word'.k = word.k,
         snap' \in [Workers -> [f : Nat, fb : Nat]],
         NEW l \in Labels \ {"body"}, GoTo(w, l), l = "look" => task[w] = NoTask,
         workerState' \in [Workers -> WorkerStates], backlog' \subseteq Workers,
         \A v \in Workers \ {w} :
           /\ workerState'[v] = workerState[v]
           /\ v \in hasQueuedWork' <=> v \in hasQueuedWork
           /\ v \in laneWake' <=> v \in laneWake
           /\ v \in reserved' <=> v \in reserved,
         SleepOK(w)',
         \/ l \in {"top", "exited"}
         \/ w < word.k => w \in reserved'
         \/ /\ pc[w] \notin {"top", "exited"} /\ (w \in reserved => w \in reserved')
            /\ workerState[w] = "WS_NOTIFIED" => workerState'[w] = "WS_NOTIFIED",
         /\ w = 0 /\ word.k > 0 /\ l \in {"sleep", "asleep"}
         /\ workerState'[0] = "WS_PARKED" /\ intake # {}
         => Announced(0) \/ LaneRousing
  PROVE  IInv'
<1>1. /\ pc' = [pc EXCEPT ![w] = l] /\ pc \in [Workers -> Labels]
      /\ pc'[w] = l /\ \A v \in Workers \ {w} : pc'[v] = pc[v]
  BY DEF GoTo, IInv, TypeInv
<1>2. TypeInv'
  BY <1>1 DEF IInv, TypeInv, queues, tasks
<1>3. ScriptInv'
  BY <1>1, SameScripts DEF IInv, ScriptInv
<1>4. HandInv'
  BY <1>1 DEF IInv, HandInv
<1>5. /\ \A b \in Actors, t \in Tasks : Holds(b, t)' <=> Holds(b, t)
      /\ \A v : Announced(v)' <=> Announced(v)
      /\ \A v : Futexing(v)' <=> Futexing(v)
      /\ LaneRousing' <=> LaneRousing
  BY SameScripts DEF IInv
<1>6. PlaceInv'
  BY <1>5, StillPlaces DEF IInv, tasks
<1>7. \A v \in Workers \ {w} : OwnWork(v)' => OwnWork(v)
  BY DEF OwnWork, queues
<1>8. intake' = intake
  BY DEF queues
<1>9. ASSUME w = 0
      PROVE  LaneInv'
  <2> SUFFICES ASSUME word.k > 0
               PROVE  /\ GoingToSleep(0)' /\ workerState'[0] = "WS_PARKED" /\ intake # {} =>
                           Announced(0) \/ LaneRousing
                      /\ 0 \notin reserved' /\ pc'[0] \notin {"top", "exited"} =>
                           Announced(0) \/ workerState'[0] = "WS_NOTIFIED"
    BY <1>5, <1>8 DEF LaneInv
  <2>1. LaneInv /\ pc'[0] = l
    BY <1>1, <1>9 DEF IInv
  <2>2. GoingToSleep(0)' /\ workerState'[0] = "WS_PARKED" /\ intake # {} =>
          Announced(0) \/ LaneRousing
    BY <1>9, <2>1 DEF GoingToSleep
  <2>3. 0 \notin reserved' /\ pc'[0] \notin {"top", "exited"} =>
          Announced(0) \/ workerState'[0] = "WS_NOTIFIED"
    BY <1>9, <2>1 DEF LaneInv
  <2> QED BY <2>2, <2>3
<1> QED BY <1>1, <1>2, <1>3, <1>4, <1>5, <1>6, <1>7, <1>8, <1>9, OwnStep

Sleepy == {"parked", "wait", "sleep", "asleep", "woken"}

\* Only the label changes.
LEMMA AdvanceStep ==
  ASSUME IInv, NEW w \in Workers, script[w] = <<>>, pc[w] \notin {"top", "exited"},
         NEW l \in Labels \ {"body", "look"}, Advance(w, l),
         l \in Sleepy => pc[w] \in Sleepy,
         l = "sleep" => StaysAsleep(w),
         l = "asleep" => pc[w] = "sleep" /\ workerState[w] = "WS_PARKED"
  PROVE  IInv'
<1>1. /\ UNCHANGED <<word, flags, queues, locals, task, script, tasks>>
      /\ UNCHANGED <<workerState, hasQueuedWork, laneWake, backlog, reserved, snap>> /\ GoTo(w, l)
  BY DEF Advance, flags, locals
<1>2. /\ word \in NatWord /\ backlog \subseteq Workers /\ snap \in [Workers -> [f : Nat, fb : Nat]]
      /\ workerState \in [Workers -> WorkerStates]
      /\ pc'[w] = l
  BY <1>1 DEF IInv, TypeInv, GoTo
<1>3. (OwnWork(w)' <=> OwnWork(w)) /\ (Announced(w)' <=> Announced(w))
  BY <1>1 DEF OwnWork, queues, Announced, Promises, Promise
<1>4. SleepOK(w) /\ LaneInv
  BY DEF IInv, SleepInv
<1>5. SleepOK(w)'
  <2>1. l \in Sleepy => workerState[w] \in {"WS_PARKED", "WS_NOTIFIED"}
    BY <1>4 DEF SleepOK, Sleepy
  <2>2. l \in {"sleep", "asleep"} /\ workerState[w] = "WS_PARKED" /\ OwnWork(w) => Announced(w)
    BY <1>4 DEF SleepOK, GoingToSleep, StaysAsleep, WorkPending
  <2> QED BY <1>1, <1>2, <1>3, <2>1, <2>2 DEF SleepOK, GoingToSleep, Sleepy
<1>6. ASSUME w = 0, word.k > 0, l \in {"sleep", "asleep"}, workerState[0] = "WS_PARKED", intake # {}
      PROVE  Announced(0) \/ LaneRousing
  <2>1. CASE l = "sleep"
    <3>1. 0 \notin reserved
      BY <1>6, <2>1 DEF StaysAsleep, WorkPending
    <3> QED BY <1>4, <1>6, <3>1 DEF LaneInv
  <2>2. CASE l = "asleep"
    BY <1>4, <1>6, <2>2 DEF LaneInv, GoingToSleep
  <2> QED BY <1>6, <2>1, <2>2
<1> QED BY <1>1, <1>2, <1>5, <1>6, LoopStep

\* The label and workerState change.
LEMMA PermitStep ==
  ASSUME IInv, NEW w \in Workers, script[w] = <<>>, pc[w] \notin {"top", "exited"},
         NEW l \in {"top", "exited", "yield", "parked"}, NEW st \in WorkerStates, Permit(w, st, l),
         l \in {"yield", "parked"} => workerState[w] # "WS_NOTIFIED",
         l = "parked" => st = "WS_PARKED"
  PROVE  IInv'
<1>1. /\ UNCHANGED <<word, queues, locals, task, script, tasks>>
      /\ UNCHANGED <<hasQueuedWork, laneWake, backlog, reserved, snap>> /\ GoTo(w, l)
      /\ workerState' = [workerState EXCEPT ![w] = st]
  BY DEF Permit, locals
<1>2. /\ word \in NatWord /\ backlog \subseteq Workers /\ snap \in [Workers -> [f : Nat, fb : Nat]]
      /\ workerState' \in [Workers -> WorkerStates] /\ workerState'[w] = st
      /\ \A v \in Workers \ {w} : workerState'[v] = workerState[v]
      /\ pc'[w] = l /\ l \in Labels \ {"body", "look", "sleep", "asleep"}
  BY <1>1 DEF IInv, TypeInv, GoTo, Labels
<1>3. SleepOK(w)'
  BY <1>2 DEF SleepOK, GoingToSleep
<1> QED BY <1>1, <1>2, <1>3, LoopStep

\* The loop condition, and isReservedWorker.
LEMMA TopStep ==
  ASSUME IInv, NEW w \in Workers, Top(w)
  PROVE  IInv'
<1>1. /\ script[w] = <<>>
      /\ UNCHANGED <<word, workerState, hasQueuedWork, laneWake, queues, snap, task, script, tasks>>
  BY DEF Top, AtLabel
<1>2. PICK l \in {"exited", "clear"} :
        /\ GoTo(w, l) /\ \A v \in Workers \ {w} : v \in reserved' <=> v \in reserved
        /\ l = "clear" => (w < word.k => w \in reserved')
        /\ backlog' \subseteq backlog \cup {w}
  <2>1. CASE w \notin running
    <3> WITNESS "exited" \in {"exited", "clear"}
    <3> QED BY <2>1 DEF Top
  <2>2. CASE w \in running
    <3> WITNESS "clear" \in {"exited", "clear"}
    <3> QED BY <2>2 DEF Top, WithBit
  <2> QED BY <2>1, <2>2
<1>3. /\ word \in NatWord /\ backlog' \subseteq Workers /\ snap \in [Workers -> [f : Nat, fb : Nat]]
      /\ workerState \in [Workers -> WorkerStates] /\ pc'[w] = l
      /\ l \in Labels \ {"body", "look", "sleep", "asleep", "top"}
  BY <1>2 DEF IInv, TypeInv, GoTo, Labels
<1>4. SleepOK(w)'
  BY <1>2, <1>3 DEF SleepOK, GoingToSleep
<1> QED BY <1>1, <1>2, <1>3, <1>4, LoopStep

\* Both flags are lowered before any queue is looked at.
LEMMA ClearFlagsStep ==
  ASSUME IInv, NEW w \in Workers, ClearFlags(w)
  PROVE  IInv'
<1>1. /\ script[w] = <<>> /\ pc[w] = "clear" /\ task[w] = NoTask /\ GoTo(w, "look")
      /\ UNCHANGED <<word, workerState, backlog, queues, reserved, snap, task, script, tasks>>
      /\ hasQueuedWork' = hasQueuedWork \ {w} /\ laneWake' = laneWake \ {w}
  BY DEF ClearFlags, AtLabel, locals
<1>2. /\ word \in NatWord /\ backlog \subseteq Workers /\ snap \in [Workers -> [f : Nat, fb : Nat]]
      /\ workerState \in [Workers -> WorkerStates] /\ pc'[w] = "look"
      /\ "look" \in Labels \ {"body"}
  BY <1>1 DEF IInv, TypeInv, GoTo, Labels
<1>3. SleepOK(w)'
  BY <1>2 DEF SleepOK, GoingToSleep
<1> QED BY <1>1, <1>2, <1>3, LoopStep

\* The park gate, the spin and the yield.
LEMMA GateStep ==
  ASSUME IInv, NEW w \in Workers, ParkGate(w) \/ Spin(w) \/ BackFromYield(w)
  PROVE  IInv'
<1>1. script[w] = <<>> /\ pc[w] \in {"gate", "yield"}
  BY DEF ParkGate, Spin, BackFromYield, AtLabel
<1>2. ASSUME NEW l \in {"top", "exited", "park"}, Advance(w, l)
      PROVE  IInv'
  <2>1. l \in Labels \ {"body", "look"} /\ l \notin Sleepy /\ l \notin {"sleep", "asleep"}
    BY DEF Labels, Sleepy
  <2> QED BY <1>1, <1>2, <2>1, AdvanceStep
<1>3. ASSUME NEW st \in {"WS_EMPTY"}, Permit(w, st, "top")
      PROVE  IInv'
  BY <1>1, <1>3, PermitStep DEF WorkerStates
<1>4. ASSUME workerState[w] = "WS_EMPTY", Permit(w, "WS_YIELD", "yield")
      PROVE  IInv'
  BY <1>1, <1>4, PermitStep DEF WorkerStates
<1> QED BY <1>2, <1>3, <1>4 DEF ParkGate, Spin, BackFromYield

\* The idle worker's collapse of the awake floor.
LEMMA CollapseStep ==
  ASSUME IInv, NEW w \in Workers, CollapseBegins(w) \/ CollapseAwakeFloorToBase(w)
  PROVE  IInv'
<1>1. /\ word \in NatWord /\ backlog \subseteq Workers /\ snap \in [Workers -> [f : Nat, fb : Nat]]
      /\ workerState \in [Workers -> WorkerStates]
  BY DEF IInv, TypeInv
<1>2. word.f \in Nat /\ word.fb \in Nat /\ snap[w].f \in Nat /\ snap[w].fb \in Nat
  BY <1>1 DEF NatWord
<1>3. CASE CollapseBegins(w)
  <2>1. /\ script[w] = <<>> /\ pc[w] = "gate" /\ GoTo(w, "collapse")
        /\ UNCHANGED <<word, workerState, hasQueuedWork, laneWake, backlog, queues, reserved, task, script,
                       tasks>>
        /\ snap' = [snap EXCEPT ![w] = [f |-> word.f, fb |-> word.fb]]
    BY <1>3 DEF CollapseBegins, AtLabel, flags
  <2>2. snap' \in [Workers -> [f : Nat, fb : Nat]]
    BY <1>1, <1>2, <2>1
  <2>3. pc'[w] = "collapse" /\ "collapse" \in Labels \ {"body"}
    BY <2>1 DEF IInv, TypeInv, GoTo, Labels
  <2>4. SleepOK(w)'
    BY <2>3 DEF SleepOK, GoingToSleep
  <2> QED BY <1>1, <2>1, <2>2, <2>3, <2>4, LoopStep
<1>4. CASE CollapseAwakeFloorToBase(w)
  <2>1. /\ script[w] = <<>> /\ pc[w] = "collapse" /\ GoTo(w, "top")
        /\ UNCHANGED <<workerState, hasQueuedWork, laneWake, backlog, queues, reserved, snap, task, script,
                       tasks>>
        /\ word' = BandsCasF(word, snap[w].f, snap[w].fb)
    BY <1>4 DEF CollapseAwakeFloorToBase, AtLabel, flags, locals
  <2>2. word' \in NatWord /\ word'.k = word.k
    BY <1>1, <1>2, <2>1 DEF BandsCasF, NatWord
  <2>3. pc'[w] = "top" /\ "top" \in Labels \ {"body"}
    BY <2>1 DEF IInv, TypeInv, GoTo, Labels
  <2>4. SleepOK(w)'
    BY <2>3 DEF SleepOK, GoingToSleep
  <2> QED BY <1>1, <2>1, <2>2, <2>3, <2>4, LoopStep
<1> QED BY <1>3, <1>4

\* From the publication of WS_PARKED to the futex and back.
LEMMA ParkStep ==
  ASSUME IInv, NEW w \in Workers,
         PublishPark(w) \/ Parked(w) \/ WaitLoop(w) \/ FutexWait(w) \/ Woken(w)
  PROVE  IInv'
<1>1. /\ script[w] = <<>> /\ pc[w] \in Sleepy \cup {"park"}
      /\ workerState[w] \in WorkerStates
  BY DEF PublishPark, Parked, WaitLoop, FutexWait, Woken, AtLabel, Sleepy, IInv, TypeInv
<1>2. pc[w] \notin {"top", "exited"}
  BY <1>1 DEF Sleepy
<1>3. ASSUME Advance(w, "top")
      PROVE  IInv'
  BY <1>1, <1>2, <1>3, AdvanceStep DEF Labels, Sleepy
<1>4. ASSUME NEW st \in WorkerStates, NEW l \in {"top", "exited"}, Permit(w, st, l)
      PROVE  IInv'
  BY <1>1, <1>2, <1>4, PermitStep
<1>5. ASSUME pc[w] \in Sleepy, Advance(w, IF StaysAsleep(w) THEN "sleep" ELSE "woken")
      PROVE  IInv'
  <2>1. PICK l \in {"sleep", "woken"} : Advance(w, l) /\ (l = "sleep" => StaysAsleep(w))
    BY <1>5
  <2>2. l \in Labels \ {"body", "look"} /\ l # "asleep"
    BY DEF Labels
  <2> QED BY <1>1, <1>2, <1>5, <2>1, <2>2, AdvanceStep
<1>6. CASE PublishPark(w)
  <2>1. ASSUME workerState[w] = "WS_EMPTY", Permit(w, "WS_PARKED", "parked")
        PROVE  IInv'
    BY <1>1, <1>2, <2>1, PermitStep DEF WorkerStates
  <2>2. \/ Advance(w, "top")
        \/ workerState[w] = "WS_EMPTY" /\ Permit(w, "WS_PARKED", "parked")
        \/ Permit(w, "WS_EMPTY", "top")
    BY <1>6 DEF PublishPark
  <2> QED BY <1>3, <1>4, <2>1, <2>2 DEF WorkerStates
<1>7. CASE Parked(w)
  <2>1. pc[w] \in Sleepy
    BY <1>7 DEF Parked, AtLabel, Sleepy
  <2> QED BY <1>4, <1>5, <1>7, <2>1 DEF Parked, WorkerStates
<1>8. CASE WaitLoop(w)
  <2>1. pc[w] \in Sleepy
    BY <1>8 DEF WaitLoop, AtLabel, Sleepy
  <2> QED BY <1>5, <1>8, <2>1 DEF WaitLoop
<1>9. CASE FutexWait(w)
  <2>1. PICK l \in {"asleep", "wait"} :
          /\ Advance(w, l) /\ pc[w] = "sleep"
          /\ l = "asleep" => workerState[w] = "WS_PARKED"
    BY <1>9 DEF FutexWait, AtLabel
  <2>2. l \in Labels \ {"body", "look"} /\ l # "sleep" /\ pc[w] \in Sleepy
    BY <2>1 DEF Labels, Sleepy
  <2> QED BY <1>1, <1>2, <2>1, <2>2, AdvanceStep
<1>10. CASE Woken(w)
  <2> DEFINE st == IF workerState[w] = "WS_NOTIFIED" THEN "WS_EMPTY" ELSE workerState[w]
             l == IF w \in running THEN "top" ELSE "exited"
  <2>1. st \in WorkerStates /\ l \in {"top", "exited"}
    BY <1>1 DEF WorkerStates
  <2>2. Permit(w, st, l)
    BY <1>10 DEF Woken
  <2> HIDE DEF st, l
  <2> QED BY <1>4, <2>1, <2>2
<1> QED BY <1>6, <1>7, <1>8, <1>9, <1>10

-----------------------------------------------------------------------------
(* Tasks that a worker takes *)

\* The places of one task, before and after a step.
LEMMA TaskStays ==
  ASSUME NEW u \in Tasks, OnePlace(u),
         \A k \in Kinds, x \in Keepers : IsAt(u, k, x)' <=> IsAt(u, k, x)
  PROVE  OnePlace(u)'
<1>1. PICK k \in Kinds, x \in Keepers :
        \A k2 \in Kinds, x2 \in Keepers : IsAt(u, k2, x2) <=> k2 = k /\ x2 = x
  BY DEF OnePlace
<1>2. \A k2 \in Kinds, x2 \in Keepers : IsAt(u, k2, x2)' <=> k2 = k /\ x2 = x
  BY <1>1
<1> QED BY <1>2 DEF OnePlace

Goes(u, k0, x0, k1, x1) ==
  /\ IsAt(u, k0, x0)
  /\ \A k \in Kinds, x \in Keepers :
       IsAt(u, k, x)' <=> \/ IsAt(u, k, x) /\ ~(k = k0 /\ x = x0)
                          \/ k = k1 /\ x = x1

\* A task that goes from one place to another has one place.
LEMMA TaskMoved ==
  ASSUME NEW u \in Tasks, OnePlace(u), NEW k0 \in Kinds, NEW x0 \in Keepers,
         NEW k1 \in Kinds, NEW x1 \in Keepers, Goes(u, k0, x0, k1, x1)
  PROVE  OnePlace(u)'
<1>1. \A k \in Kinds, x \in Keepers : IsAt(u, k, x) => k = k0 /\ x = x0
  BY DEF OnePlace, Goes
<1>2. \A k \in Kinds, x \in Keepers : IsAt(u, k, x)' <=> k = k1 /\ x = x1
  BY <1>1 DEF Goes
<1> QED BY <1>2 DEF OnePlace

\* A step of a worker that takes tasks from queues; nothing but its label and
\* the queues changes for the rest of the invariant.
LEMMA FetchStep ==
  ASSUME IInv, NEW w \in Workers, script[w] = <<>>, pc[w] \notin {"top", "exited"},
         UNCHANGED <<word, workerState, reserved, snap, script, tasks>>,
         NEW l \in {"top", "body", "gate"}, GoTo(w, l), l = "body" => task'[w] # NoTask,
         inbox' \in [Workers -> SUBSET Tasks], lane' \in [Workers -> SUBSET Tasks],
         resumed' \in [Workers -> SUBSET Tasks], deque' \in [Workers -> SUBSET Tasks],
         intake' \subseteq intake, backlog' \subseteq Workers, task' \in [Workers -> Tasks \cup {NoTask}],
         hasQueuedWork' \subseteq hasQueuedWork, laneWake' \subseteq laneWake,
         \A v \in Workers \ {w} :
           /\ task'[v] = task[v]
           /\ inbox'[v] = inbox[v] /\ lane'[v] = lane[v] /\ resumed'[v] = resumed[v],
         PlaceInv'
  PROVE  IInv'
<1>1. /\ pc' = [pc EXCEPT ![w] = l] /\ pc' \in [Workers -> Labels]
      /\ pc'[w] = l /\ \A v \in Workers \ {w} : pc'[v] = pc[v]
  BY DEF GoTo, IInv, TypeInv, Labels
<1>2. TypeInv'
  BY <1>1 DEF IInv, TypeInv, tasks
<1>3. ScriptInv'
  BY <1>1, SameScripts DEF IInv, ScriptInv
<1>4. HandInv'
  <2> SUFFICES ASSUME NEW v \in Workers
               PROVE  /\ pc'[v] = "look" => task'[v] = NoTask
                      /\ pc'[v] = "body" => task'[v] # NoTask
    BY DEF HandInv
  <2>1. CASE v = w
    BY <1>1, <2>1
  <2>2. CASE v # w
    BY <1>1, <2>2 DEF IInv, HandInv
  <2> QED BY <2>1, <2>2
<1>5. /\ \A v : Announced(v)' <=> Announced(v)
      /\ \A v : Futexing(v)' <=> Futexing(v)
      /\ LaneRousing' <=> LaneRousing
  BY SameScripts DEF IInv
<1>6. \A v \in Workers \ {w} : OwnWork(v)' => OwnWork(v)
  BY DEF OwnWork
<1>7. SleepOK(w)'
  BY <1>1 DEF SleepOK, GoingToSleep
<1>8. ASSUME w = 0
      PROVE  LaneInv'
  BY <1>1, <1>5, <1>8 DEF IInv, LaneInv, GoingToSleep
<1> QED BY <1>1, <1>2, <1>3, <1>4, <1>5, <1>6, <1>7, <1>8, OwnStep

\* With a task in hand the worker runs it; its inbox may go to its deque first.
LEMMA StartStep ==
  ASSUME IInv, NEW w \in Workers, Start(w)
  PROVE  IInv'
<1>1. /\ script[w] = <<>> /\ pc[w] = "clear" /\ task[w] # NoTask /\ GoTo(w, "body")
      /\ UNCHANGED <<word, workerState, reserved, snap, script, tasks>>
      /\ UNCHANGED <<lane, resumed, intake, task>>
      /\ hasQueuedWork' \subseteq hasQueuedWork /\ laneWake' \subseteq laneWake
  BY DEF Start, AtLabel, locals
<1>2. backlog' \subseteq Workers
  BY DEF IInv, TypeInv, Start, WithBit
<1>3. /\ inbox \in [Workers -> SUBSET Tasks] /\ lane \in [Workers -> SUBSET Tasks]
      /\ resumed \in [Workers -> SUBSET Tasks] /\ deque \in [Workers -> SUBSET Tasks]
      /\ task \in [Workers -> Tasks \cup {NoTask}]
  BY DEF IInv, TypeInv
<1>4. \A b \in Actors, t \in Tasks : Holds(b, t)' <=> Holds(b, t)
  BY <1>1 DEF Holds
<1>5. CASE UNCHANGED <<inbox, deque>>
  <2>1. UNCHANGED <<queues, task, fresh, suspended, done>>
    BY <1>1, <1>5 DEF queues, tasks
  <2>2. PlaceInv'
    BY <1>4, <2>1, StillPlaces DEF IInv
  <2> QED BY <1>1, <1>3, <1>2, <1>5, <2>2, FetchStep
<1>6. CASE /\ deque' = [deque EXCEPT ![w] = @ \cup inbox[w]]
           /\ inbox' = [inbox EXCEPT ![w] = {}]
  <2>1. inbox' \in [Workers -> SUBSET Tasks] /\ deque' \in [Workers -> SUBSET Tasks]
    BY <1>3, <1>6
  <2>2. \A v \in Workers : /\ inbox'[v] = IF v = w THEN {} ELSE inbox[v]
                           /\ deque'[v] = IF v = w THEN deque[w] \cup inbox[w] ELSE deque[v]
    BY <1>3, <1>6
  <2>3. UNCHANGED <<lane, resumed, intake, task, fresh, suspended, done>>
    BY <1>1 DEF tasks
  <2>4. "inbox" \in Kinds /\ "deque" \in Kinds /\ w \in Keepers
    BY DEF Kinds, Keepers, Actors
  <2>5. ASSUME NEW u \in Tasks
        PROVE  OnePlace(u)'
    <3>1. OnePlace(u)
      BY DEF IInv, PlaceInv
    <3>2. ASSUME NEW k \in Kinds, NEW x \in Keepers
          PROVE  /\ k \notin {"inbox", "deque"} => (IsAt(u, k, x)' <=> IsAt(u, k, x))
                 /\ k = "inbox" => (IsAt(u, k, x)' <=> IsAt(u, k, x) /\ x # w)
                 /\ k = "deque" => (IsAt(u, k, x)' <=> IsAt(u, k, x) \/ (x = w /\ u \in inbox[w]))
      <4>1. CASE k \in {"inbox", "deque"}
        BY <2>2, <4>1 DEF IsAt
      <4>2. CASE k = "script"
        BY <1>4, <4>2 DEF IsAt
      <4>3. CASE k \in {"lane", "resumed", "running", "intake", "fresh", "suspended", "done"}
        BY <2>3, <4>3 DEF IsAt
      <4> QED BY <4>1, <4>2, <4>3 DEF Kinds
    <3>3. u \in inbox[w] <=> IsAt(u, "inbox", w)
      BY DEF IsAt
    <3>4. CASE u \in inbox[w]
      <4>1. Goes(u, "inbox", w, "deque", w)
        BY <3>2, <3>3, <3>4 DEF Goes
      <4> QED BY <2>4, <3>1, <4>1, TaskMoved
    <3>5. CASE u \notin inbox[w]
      <4>1. \A k \in Kinds, x \in Keepers : IsAt(u, k, x)' <=> IsAt(u, k, x)
        BY <3>2, <3>3, <3>5
      <4> QED BY <3>1, <4>1, TaskStays
    <3> QED BY <3>4, <3>5
  <2>6. PlaceInv'
    BY <2>5 DEF PlaceInv
  <2>7. \A v \in Workers \ {w} : inbox'[v] = inbox[v]
    BY <2>2
  <2> QED BY <1>1, <1>3, <1>2, <2>1, <2>6, <2>7, FetchStep
<1> QED BY <1>5, <1>6 DEF Start

=============================================================================
