---------------------------- MODULE WorkerProofs ----------------------------
(***************************************************************************)
(* The worker pool for any number of workers, callers and tasks and any    *)
(* number of moves of the bands: no task is lost or doubled, nobody sleeps *)
(* on work, and K and F fit the pool unless a collapse raises F.           *)
(*                                                                         *)
(* WorkerInvariant has the inductive invariant and the calls that begin a  *)
(* script, WorkerSteps the steps that any actor takes and a worker's loop; *)
(* here are the acquire phase, the end of a body, and the theorems.        *)
(***************************************************************************)
EXTENDS WorkerSteps

-----------------------------------------------------------------------------
(* The acquire phase *)

\* Where the worker looks first.
LEMMA SourcesAre ==
  ASSUME NEW w, NEW i \in DOMAIN Sources(w), NEW t \in Sources(w)[i].tasks
  PROVE  LET from == Sources(w)[i].from
         IN \/ from = "intake" /\ t \in intake
            \/ from = "lane" /\ t \in lane[w]
            \/ from = "inbox" /\ t \in inbox[w]
            \/ from = "deque" /\ t \in deque[w]
            \/ from = "resumed" /\ t \in resumed[w]
<1>1. i \in 1..6
  <2>1. \A a, b, c, d, e, f : DOMAIN <<a, b, c, d, e, f>> = 1..6
    OBVIOUS
  <2>2. DOMAIN Sources(w) = 1..6
    BY <2>1, Zenon DEF Sources
  <2> QED BY <2>2
<1>2. CASE i = 1
  BY <1>2 DEF Sources
<1>3. CASE i = 2
  BY <1>3 DEF Sources
<1>4. CASE i = 3
  BY <1>4 DEF Sources
<1>5. CASE i = 4
  BY <1>5 DEF Sources
<1>6. CASE i = 5
  BY <1>6 DEF Sources
<1>7. CASE i = 6
  BY <1>7 DEF Sources
<1>8. i = 1 \/ i = 2 \/ i = 3 \/ i = 4 \/ i = 5 \/ i = 6
  BY <1>1
<1> QED BY <1>2, <1>3, <1>4, <1>5, <1>6, <1>7, <1>8, Zenon

\* The acquire phase finds a task for the empty hand, or nothing.
LEMMA AcquireStep ==
  ASSUME IInv, NEW w \in Workers, Acquire(w)
  PROVE  IInv'
<1>1. /\ script[w] = <<>> /\ pc[w] = "look"
      /\ UNCHANGED <<word, workerState, reserved, snap, script, tasks>>
      /\ UNCHANGED <<hasQueuedWork, laneWake, backlog, fresh, suspended, done>>
      /\ \/ TakeOwn(w) \/ DrainInbox(w) \/ Steal(w)
         \/ GoTo(w, "gate") /\ UNCHANGED <<task, queues>>
  BY DEF Acquire, AtLabel, flags, tasks
<1>2. /\ backlog \subseteq Workers
      /\ inbox \in [Workers -> SUBSET Tasks] /\ lane \in [Workers -> SUBSET Tasks]
      /\ resumed \in [Workers -> SUBSET Tasks] /\ deque \in [Workers -> SUBSET Tasks]
      /\ task \in [Workers -> Tasks \cup {NoTask}] /\ task[w] = NoTask
  BY <1>1 DEF IInv, TypeInv, HandInv
<1>3. \A b \in Actors, t \in Tasks : Holds(b, t)' <=> Holds(b, t)
  BY <1>1 DEF Holds
<1>4. /\ Kinds = {"inbox", "lane", "resumed", "deque", "running", "script",
                  "intake", "fresh", "suspended", "done"}
      /\ Workers \subseteq Keepers /\ NoTask \in Keepers /\ NoTask \notin Tasks
  BY WorkerAssumption DEF Kinds, Keepers, Actors
<1>5. ASSUME NEW t \in Tasks, Take(w, t)
      PROVE  /\ task' \in [Workers -> Tasks \cup {NoTask}] /\ task'[w] = t
             /\ \A v \in Workers \ {w} : task'[v] = task[v]
             /\ GoTo(w, "top")
  BY <1>2, <1>5 DEF Take
<1>6. CASE TakeOwn(w)
  <2>1. PICK i \in DOMAIN Sources(w) :
          \E t \in Sources(w)[i].tasks :
            LET from == Sources(w)[i].from
            IN /\ Take(w, t)
               /\ intake' = IF from = "intake" THEN intake \ {t} ELSE intake
               /\ lane' = Without(lane, w, t, from = "lane")
               /\ inbox' = Without(inbox, w, t, from = "inbox")
               /\ deque' = Without(deque, w, t, from = "deque")
               /\ resumed' = Without(resumed, w, t, from = "resumed")
    BY <1>6 DEF TakeOwn
  <2> DEFINE from == Sources(w)[i].from
  <2>2. PICK t \in Sources(w)[i].tasks :
          /\ Take(w, t)
          /\ intake' = IF from = "intake" THEN intake \ {t} ELSE intake
          /\ lane' = Without(lane, w, t, from = "lane")
          /\ inbox' = Without(inbox, w, t, from = "inbox")
          /\ deque' = Without(deque, w, t, from = "deque")
          /\ resumed' = Without(resumed, w, t, from = "resumed")
    BY <2>1
  <2>3. \/ from = "intake" /\ t \in intake
        \/ from = "lane" /\ t \in lane[w]
        \/ from = "inbox" /\ t \in inbox[w]
        \/ from = "deque" /\ t \in deque[w]
        \/ from = "resumed" /\ t \in resumed[w]
    BY SourcesAre
  <2> HIDE DEF from
  <2>4. intake \subseteq Tasks
    BY DEF IInv, TypeInv
  <2>5. t \in Tasks
    BY <1>2, <2>3, <2>4
  <2>6. /\ \A v \in Workers : lane'[v] = IF v = w /\ from = "lane" THEN lane[v] \ {t} ELSE lane[v]
        /\ \A v \in Workers : inbox'[v] = IF v = w /\ from = "inbox" THEN inbox[v] \ {t} ELSE inbox[v]
        /\ \A v \in Workers : deque'[v] = IF v = w /\ from = "deque" THEN deque[v] \ {t} ELSE deque[v]
        /\ \A v \in Workers :
             resumed'[v] = IF v = w /\ from = "resumed" THEN resumed[v] \ {t} ELSE resumed[v]
    BY <1>2, <2>2 DEF Without
  <2>7. /\ inbox' \in [Workers -> SUBSET Tasks] /\ lane' \in [Workers -> SUBSET Tasks]
        /\ resumed' \in [Workers -> SUBSET Tasks] /\ deque' \in [Workers -> SUBSET Tasks]
        /\ intake' \subseteq intake
    BY <1>2, <2>2 DEF Without
  <2>8. /\ task' \in [Workers -> Tasks \cup {NoTask}] /\ task'[w] = t
        /\ \A v \in Workers \ {w} : task'[v] = task[v]
        /\ GoTo(w, "top")
    BY <1>5, <2>2, <2>5
  <2>9. PICK x0 \in Keepers : IF from = "intake" THEN x0 = NoTask ELSE x0 = w
    BY <1>4
  <2>10. from \in {"intake", "lane", "inbox", "deque", "resumed"}
    BY <2>3
  <2>11. IsAt(t, from, x0)
    BY <2>3, <2>9 DEF IsAt
  <2>12. ASSUME NEW u \in Tasks, NEW k \in Kinds, NEW x \in Keepers
         PROVE  IsAt(u, k, x)' <=> \/ IsAt(u, k, x) /\ ~(u = t /\ k = from /\ x = x0)
                                   \/ u = t /\ k = "running" /\ x = w
    <3>1. ASSUME x \in Workers
          PROVE  /\ u \in inbox'[x] <=> u \in inbox[x] /\ ~(u = t /\ from = "inbox" /\ x = w)
                 /\ u \in lane'[x] <=> u \in lane[x] /\ ~(u = t /\ from = "lane" /\ x = w)
                 /\ u \in deque'[x] <=> u \in deque[x] /\ ~(u = t /\ from = "deque" /\ x = w)
                 /\ u \in resumed'[x] <=> u \in resumed[x] /\ ~(u = t /\ from = "resumed" /\ x = w)
      BY <2>6, <3>1
    <3>2. u \in intake' <=> u \in intake /\ ~(u = t /\ from = "intake")
      BY <2>2
    <3>3. x \in Workers => (task'[x] = u <=> task[x] = u \/ (u = t /\ x = w))
      BY <1>2, <1>4, <2>8
    <3>4. /\ x \in Actors => (Holds(x, u)' <=> Holds(x, u))
          /\ fresh' = fresh /\ suspended' = suspended /\ done' = done
      BY <1>1, <1>3
    <3>5. CASE k \in {"inbox", "lane"}
      BY <2>9, <3>1, <3>5 DEF IsAt
    <3>6. CASE k \in {"deque", "resumed"}
      BY <2>9, <3>1, <3>6 DEF IsAt
    <3>7. CASE k \in {"running", "intake"}
      BY <2>9, <2>10, <3>2, <3>3, <3>7 DEF IsAt
    <3>8. CASE k \in {"script", "fresh", "suspended", "done"}
      BY <2>10, <3>4, <3>8 DEF IsAt
    <3> QED BY <1>4, <3>5, <3>6, <3>7, <3>8
  <2>13. Moves(t, from, x0, "running", w)
    BY <2>11, <2>12 DEF Moves
  <2>14. PlaceInv'
    BY <1>4, <2>5, <2>10, <2>13, MovedPlace DEF IInv
  <2>15. \A v \in Workers \ {w} : inbox'[v] = inbox[v] /\ lane'[v] = lane[v] /\ resumed'[v] = resumed[v]
    BY <2>6
  <2> QED BY <1>1, <1>2, <2>7, <2>8, <2>14, <2>15, FetchStep
<1>7. CASE DrainInbox(w)
  <2>1. PICK t \in inbox[w] : Take(w, t) /\ deque' = [deque EXCEPT ![w] = @ \cup (inbox[w] \ {t})]
    BY <1>7 DEF DrainInbox
  <2>2. inbox' = [inbox EXCEPT ![w] = {}] /\ UNCHANGED <<lane, resumed, intake>>
    BY <1>7 DEF DrainInbox
  <2>3. t \in Tasks
    BY <1>2
  <2>4. /\ inbox' \in [Workers -> SUBSET Tasks] /\ deque' \in [Workers -> SUBSET Tasks]
        /\ \A v \in Workers : inbox'[v] = IF v = w THEN {} ELSE inbox[v]
        /\ \A v \in Workers : deque'[v] = IF v = w THEN deque[w] \cup (inbox[w] \ {t}) ELSE deque[v]
    BY <1>2, <2>1, <2>2
  <2>5. /\ task' \in [Workers -> Tasks \cup {NoTask}] /\ task'[w] = t
        /\ \A v \in Workers \ {w} : task'[v] = task[v]
        /\ GoTo(w, "top")
    BY <1>5, <2>1, <2>3
  <2>6. ASSUME NEW u \in Tasks
        PROVE  OnePlace(u)'
    <3>1. OnePlace(u) /\ task[w] # u /\ (task'[w] = u <=> u = t)
      BY <1>2, <1>4, <2>5 DEF IInv, PlaceInv
    <3>2. ASSUME NEW k \in Kinds, NEW x \in Keepers
          PROVE  /\ k \notin {"inbox", "deque", "running"} => (IsAt(u, k, x)' <=> IsAt(u, k, x))
                 /\ k = "inbox" => (IsAt(u, k, x)' <=> IsAt(u, k, x) /\ x # w)
                 /\ k = "deque" =>
                      (IsAt(u, k, x)' <=> IsAt(u, k, x) \/ (x = w /\ u \in inbox[w] /\ u # t))
                 /\ k = "running" => (IsAt(u, k, x)' <=> IsAt(u, k, x) \/ (x = w /\ u = t))
      <4>1. CASE k = "inbox"
        BY <2>4, <4>1 DEF IsAt
      <4>2. CASE k = "deque"
        BY <2>4, <4>2 DEF IsAt
      <4>3. CASE k = "running"
        BY <2>5, <3>1, <4>3 DEF IsAt
      <4>4. CASE k \in {"lane", "resumed", "intake"}
        BY <2>2, <4>4 DEF IsAt
      <4>5. CASE k \in {"script", "fresh", "suspended", "done"}
        BY <1>1, <1>3, <4>5 DEF IsAt
      <4> QED BY <1>4, <4>1, <4>2, <4>3, <4>4, <4>5
    <3>3. u \in inbox[w] => IsAt(u, "inbox", w)
      BY DEF IsAt
    <3>4. CASE u = t
      <4>1. Goes(u, "inbox", w, "running", w)
        BY <3>2, <3>3, <3>4 DEF Goes
      <4> QED BY <1>4, <3>1, <4>1, TaskMoved
    <3>5. CASE u \in inbox[w] /\ u # t
      <4>1. Goes(u, "inbox", w, "deque", w)
        BY <3>2, <3>3, <3>5 DEF Goes
      <4> QED BY <1>4, <3>1, <4>1, TaskMoved
    <3>6. CASE u \notin inbox[w]
      <4>1. u # t
        BY <3>6
      <4>2. ~IsAt(u, "inbox", w)
        BY <3>6 DEF IsAt
      <4>3. \A k \in Kinds, x \in Keepers : IsAt(u, k, x)' <=> IsAt(u, k, x)
        BY <3>2, <3>6, <4>1, <4>2
      <4> QED BY <3>1, <4>3, TaskStays
    <3> QED BY <3>4, <3>5, <3>6
  <2>7. PlaceInv'
    BY <2>6 DEF PlaceInv
  <2>8. \A v \in Workers \ {w} : inbox'[v] = inbox[v] /\ lane'[v] = lane[v] /\ resumed'[v] = resumed[v]
    BY <2>2, <2>4
  <2> QED BY <1>1, <1>2, <2>2, <2>4, <2>5, <2>7, <2>8, FetchStep
<1>8. CASE Steal(w)
  <2>1. PICK v \in backlog \ {w} :
          \E t \in deque[v] : Take(w, t) /\ deque' = [deque EXCEPT ![v] = @ \ {t}]
    BY <1>8 DEF Steal
  <2>2. PICK t \in deque[v] : Take(w, t) /\ deque' = [deque EXCEPT ![v] = @ \ {t}]
    BY <2>1
  <2>3. UNCHANGED <<inbox, lane, resumed, intake>>
    BY <1>8 DEF Steal
  <2>4. v \in Workers /\ v # w
    BY DEF IInv, TypeInv
  <2>5. t \in Tasks
    BY <1>2, <2>4
  <2>6. /\ deque' \in [Workers -> SUBSET Tasks]
        /\ \A x \in Workers : deque'[x] = IF x = v THEN deque[x] \ {t} ELSE deque[x]
    BY <1>2, <2>2, <2>4
  <2>7. /\ task' \in [Workers -> Tasks \cup {NoTask}] /\ task'[w] = t
        /\ \A x \in Workers \ {w} : task'[x] = task[x]
        /\ GoTo(w, "top")
    BY <1>5, <2>2, <2>5
  <2>8. IsAt(t, "deque", v)
    BY <2>4 DEF IsAt
  <2>9. ASSUME NEW u \in Tasks, NEW k \in Kinds, NEW x \in Keepers
        PROVE  IsAt(u, k, x)' <=> \/ IsAt(u, k, x) /\ ~(u = t /\ k = "deque" /\ x = v)
                                  \/ u = t /\ k = "running" /\ x = w
    <3>1. task[w] # u /\ (task'[w] = u <=> u = t)
      BY <1>2, <1>4, <2>7
    <3>2. CASE k = "deque"
      BY <2>6, <3>2 DEF IsAt
    <3>3. CASE k = "running"
      BY <2>7, <3>1, <3>3 DEF IsAt
    <3>4. CASE k \in {"inbox", "lane", "resumed", "intake"}
      BY <2>3, <3>4 DEF IsAt
    <3>5. CASE k \in {"script", "fresh", "suspended", "done"}
      BY <1>1, <1>3, <3>5 DEF IsAt
    <3> QED BY <1>4, <3>2, <3>3, <3>4, <3>5
  <2>10. Moves(t, "deque", v, "running", w)
    BY <2>8, <2>9 DEF Moves
  <2>11. PlaceInv'
    BY <1>4, <2>4, <2>5, <2>10, MovedPlace DEF IInv
  <2> QED BY <1>1, <1>2, <2>3, <2>6, <2>7, <2>11, FetchStep
<1>9. CASE GoTo(w, "gate") /\ UNCHANGED <<task, queues>>
  <2>1. PlaceInv'
    BY <1>1, <1>3, <1>9, StillPlaces DEF IInv
  <2>2. UNCHANGED <<inbox, lane, resumed, deque, intake>>
    BY <1>9 DEF queues
  <2> QED BY <1>1, <1>2, <1>9, <2>1, <2>2, FetchStep
<1> QED BY <1>1, <1>6, <1>7, <1>8, <1>9

-----------------------------------------------------------------------------
(* The end of a body *)

\* What the worker does next for the pool carries no task.
LEMMA GoodAfterBody ==
  ASSUME IInv, NEW w \in Workers, NEW ops \in AfterBody(w)
  PROVE  GoodScript(w, ops) /\ Plain(ops)
<1>1. word \in NatWord /\ deque[w] \subseteq Tasks
  BY DEF IInv, TypeInv
<1>2. Cardinality(deque[w]) \in Nat
  BY <1>1, WorkerAssumption
<1>3. ASSUME NEW g \in {<<>>} \cup GrowFloorIfLongBody(w)
      PROVE  GoodScript(w, g) /\ Plain(g)
  <2> DEFINE n == Cardinality(deque[w])
             o == [op |-> "setF", f |-> FloorWanted(word, n, 0), n |-> n - 1]
  <2>1. CASE g = <<>>
    BY <2>1, GoodEmpty
  <2>2. CASE n > 0 /\ g = <<o>>
    <3>1. FloorWanted(word, n, 0) \in Nat /\ n - 1 \in Nat
      <4>1. n \in Nat /\ n > 0
        BY <1>2, <2>2
      <4> HIDE DEF n
      <4>2. FloorWanted(word, n, 0) \in Nat
        BY <1>1, <4>1, WordsAreTyped
      <4> QED BY <4>1, <4>2
    <3>2. o \in Ops /\ o.op = "setF"
      BY <3>1 DEF Ops
    <3> HIDE DEF o
    <3>3. GoodScript(w, <<o>>) /\ Plain(<<o>>)
      BY <3>2, GoodSingle
    <3> QED BY <2>2, <3>3
  <2> QED BY <1>3, <2>1, <2>2 DEF GrowFloorIfLongBody
<1>4. ASSUME NEW r \in {<<>>} \cup RecruitForLiveRange
      PROVE  GoodScript(w, r) /\ Plain(r)
  <2>1. CASE r = <<>>
    BY <2>1, GoodEmpty
  <2>2. CASE r \in RecruitForLiveRange
    <3>1. PICK n \in Recruits : r = <<[op |-> "recruit", n |-> n], [op |-> "crowd", n |-> n]>>
      BY <2>2 DEF RecruitForLiveRange
    <3>2. [op |-> "recruit", n |-> n] \in Ops /\ [op |-> "crowd", n |-> n] \in Ops
      BY WorkerAssumption DEF Ops
    <3>3. /\ r \in Seq(Ops) /\ DOMAIN r = 1..2
          /\ r[1].op = "recruit" /\ r[2].op = "crowd"
      BY <3>1, <3>2
    <3>4. \A i \in DOMAIN r : r[i].op \in {"recruit", "crowd"}
      <4>1. \A i \in DOMAIN r : i = 1 \/ i = 2
        BY <3>3
      <4> QED BY <3>3, <4>1
    <3> QED BY <3>3, <3>4 DEF GoodScript, Plain, Carriers
  <2> QED BY <1>4, <2>1, <2>2
<1>5. CASE ops = <<>>
  BY <1>5, GoodEmpty
<1>6. CASE ops # <<>>
  <2>1. PICK g \in {<<>>} \cup GrowFloorIfLongBody(w), r \in {<<>>} \cup RecruitForLiveRange :
          ops = g \o r
    BY <1>6 DEF AfterBody
  <2> QED BY <1>3, <1>4, <2>1, GoodConcat
<1> QED BY <1>5, <1>6

\* A worker that flags itself is awake.
LEMMA GoodMarkSelf ==
  ASSUME NEW w \in Workers
  PROVE  GoodScript(w, <<[op |-> "mark", w |-> w]>>) /\ Plain(<<[op |-> "mark", w |-> w]>>)
<1> DEFINE o == [op |-> "mark", w |-> w]
<1>1. o \in Ops /\ o.op = "mark" /\ o.w = w
  BY PoolAssumption DEF Ops, Workers
<1> HIDE DEF o
<1>2. <<o>> \in Seq(Ops) /\ DOMAIN <<o>> = {1} /\ <<o>>[1] = o
  BY <1>1
<1>3. GoodScript(w, <<o>>) /\ Plain(<<o>>)
  BY <1>1, <1>2 DEF GoodScript, Plain, Carriers
<1> QED BY <1>3 DEF o

\* A task that is no longer running has come to (k1, x1).
ComesTo(t, k1, x1) ==
  \A u \in Tasks, k \in Kinds, x \in Keepers :
    k # "running" => (IsAt(u, k, x)' <=> IsAt(u, k, x) \/ (u = t /\ k = k1 /\ x = x1))

\* The worker is back at the top with empty hands, its task is elsewhere, and
\* its script says what is left to do.
LEMMA BodyEnds ==
  ASSUME IInv, NEW w \in Workers, pc[w] = "body", NEW ops, GoodScript(w, ops), Begin(w, ops),
         DropTask(w), GoTo(w, "top"),
         UNCHANGED <<word, workerState, laneWake, backlog, inbox, lane, deque, intake, reserved, snap>>,
         resumed' \in [Workers -> SUBSET Tasks],
         \A v \in Workers \ {w} : /\ resumed'[v] = resumed[v]
                                  /\ v \in hasQueuedWork' => v \in hasQueuedWork,
         home' \in [Tasks -> Workers],
         NEW k1 \in Kinds \ {"running"}, NEW x1 \in Keepers, ComesTo(task[w], k1, x1)
  PROVE  IInv'
<1>1. ScriptInv /\ w \in Actors /\ task[w] \in Tasks /\ w \in Keepers
  BY DEF IInv, TypeInv, HandInv, Actors, Keepers
<1>2. /\ script' \in [Actors -> Seq(Ops)]
      /\ \A b \in Actors : GoodScript(b, script[b])'
      /\ \A b \in Actors : b # w => script'[b] = script[b]
      /\ \A v : Announced(v) => Announced(v)'
      /\ \A v : Futexing(v) => Futexing(v)'
      /\ LaneRousing => LaneRousing'
  BY <1>1, BeginMoves
<1>3. /\ pc' = [pc EXCEPT ![w] = "top"] /\ pc' \in [Workers -> Labels]
      /\ pc'[w] = "top" /\ \A v \in Workers \ {w} : pc'[v] = pc[v]
  BY DEF GoTo, IInv, TypeInv, Labels
<1>4. /\ task' \in [Workers -> Tasks \cup {NoTask}] /\ task'[w] = NoTask
      /\ \A v \in Workers \ {w} : task'[v] = task[v]
  BY DEF DropTask, IInv, TypeInv
<1>5. TypeInv'
  BY <1>3, <1>4 DEF IInv, TypeInv
<1>6. ScriptInv'
  BY <1>2, <1>3 DEF IInv, ScriptInv, Actors
<1>7. HandInv'
  BY <1>3, <1>4 DEF IInv, HandInv
<1>8. PlaceInv'
  <2>1. "running" \in Kinds /\ NoTask \notin Tasks
    BY WorkerAssumption DEF Kinds
  <2>2. IsAt(task[w], "running", w)
    BY DEF IsAt
  <2>3. \A t \in Tasks, x \in Keepers :
          /\ IsAt(t, "running", x) <=> x \in Workers /\ task[x] = t
          /\ IsAt(t, "running", x)' <=> x \in Workers /\ task'[x] = t
    BY DEF IsAt
  <2>4. \A t \in Tasks, x \in Keepers :
          IsAt(t, "running", x)' <=> IsAt(t, "running", x) /\ ~(t = task[w] /\ x = w)
    <3> TAKE t \in Tasks, x \in Keepers
    <3>1. CASE x = w
      BY <1>4, <2>1, <2>3, <3>1
    <3>2. CASE x # w
      BY <1>4, <2>3, <3>2
    <3> QED BY <3>1, <3>2
  <2>5. Moves(task[w], "running", w, k1, x1)
    BY <2>2, <2>4 DEF Moves, ComesTo
  <2> QED BY <1>1, <2>1, <2>5, MovedPlace DEF IInv
<1>9. \A v \in Workers \ {w} : OwnWork(v)' => OwnWork(v)
  BY DEF OwnWork
<1>10. SleepOK(w)'
  BY <1>3 DEF SleepOK, GoingToSleep
<1>11. ASSUME w = 0
       PROVE  LaneInv'
  BY <1>3, <1>11 DEF LaneInv, GoingToSleep
<1> QED BY <1>2, <1>3, <1>5, <1>6, <1>7, <1>8, <1>9, <1>10, <1>11, OwnStep

\* A script in front of which nothing is put.
LEMMA NothingBefore ==
  ASSUME NEW a, NEW s, GoodScript(a, s)
  PROVE  <<>> \o s = s
<1>1. s \in Seq(Ops)
  BY DEF GoodScript
<1> QED BY <1>1

\* A body returns or its fiber suspends: the task leaves the worker's hand.
LEMMA FinishStep ==
  ASSUME IInv, NEW w \in Workers, Finish(w) \/ SuspendFiber(w)
  PROVE  IInv'
<1>1. /\ pc[w] = "body" /\ DropTask(w) /\ GoTo(w, "top")
      /\ UNCHANGED <<word, workerState, laneWake, backlog, inbox, lane, deque, intake, reserved, snap>>
      /\ UNCHANGED <<resumed, hasQueuedWork, fresh>>
      /\ home' = home \/ home' = [home EXCEPT ![task[w]] = w]
      /\ \/ done' = done \cup {task[w]} /\ suspended' = suspended
         \/ suspended' = suspended \cup {task[w]} /\ done' = done
  BY DEF Finish, SuspendFiber, Switch, AtLabel, flags, queues, locals
<1>2. PICK ops \in AfterBody(w) : Begin(w, <<>> \o ops)
  BY DEF Finish, SuspendFiber, AfterSwitch, Afterwards
<1>3. GoodScript(w, ops) /\ Plain(ops)
  BY GoodAfterBody
<1>4. Begin(w, ops)
  BY <1>2, <1>3, NothingBefore
<1>5. \A t : ~Carries(ops, t)
  BY <1>3 DEF Carries, Plain
<1>6. \A b \in Actors, t \in Tasks : Holds(b, t)' <=> Holds(b, t)
  <2>1. ScriptInv /\ w \in Actors
    BY DEF IInv, Actors
  <2>2. /\ \A b \in Actors, t \in Tasks :
             Holds(b, t)' <=> IF b = w THEN Carries(ops, t) ELSE Holds(b, t)
        /\ \A t \in Tasks : ~Holds(w, t)
    BY <1>3, <1>4, <2>1, BeginMoves
  <2> QED BY <1>5, <2>2
<1>7. resumed' \in [Workers -> SUBSET Tasks] /\ home' \in [Tasks -> Workers]
  BY <1>1 DEF IInv, TypeInv
<1>8. PICK k1 \in {"done", "suspended"} :
        /\ done' = IF k1 = "done" THEN done \cup {task[w]} ELSE done
        /\ suspended' = IF k1 = "done" THEN suspended ELSE suspended \cup {task[w]}
  <2>1. CASE done' = done \cup {task[w]} /\ suspended' = suspended
    <3> WITNESS "done" \in {"done", "suspended"}
    <3> QED BY <2>1
  <2>2. CASE suspended' = suspended \cup {task[w]} /\ done' = done
    <3> WITNESS "suspended" \in {"done", "suspended"}
    <3> QED BY <2>2
  <2> QED BY <1>1, <2>1, <2>2
<1>9. ASSUME NEW t \in Tasks, NEW k \in Kinds, NEW x \in Keepers, k # "running"
      PROVE  IsAt(t, k, x)' <=> IsAt(t, k, x) \/ (t = task[w] /\ k = k1 /\ x = NoTask)
  <2>1. CASE k1 = "done"
    BY <1>1, <1>6, <1>8, <1>9, <2>1 DEF IsAt, Kinds
  <2>2. CASE k1 = "suspended"
    BY <1>1, <1>6, <1>8, <1>9, <2>2 DEF IsAt, Kinds
  <2> QED BY <2>1, <2>2
<1>10. k1 \in Kinds \ {"running"} /\ NoTask \in Keepers /\ ComesTo(task[w], k1, NoTask)
  BY <1>9 DEF Kinds, Keepers, ComesTo
<1> QED BY <1>1, <1>3, <1>4, <1>7, <1>10, BodyEnds

\* The task is taken back into a script, or to the worker's pinned fibers.
LEMMA GiveBackStep ==
  ASSUME IInv, NEW w \in Workers, YieldFiber(w) \/ NoFiber(w)
  PROVE  IInv'
<1>1. /\ pc[w] = "body" /\ DropTask(w) /\ GoTo(w, "top")
      /\ UNCHANGED <<word, workerState, laneWake, backlog, inbox, lane, deque, intake, reserved, snap>>
      /\ UNCHANGED <<fresh, suspended, done>>
      /\ home' = home \/ home' = [home EXCEPT ![task[w]] = w]
  BY DEF YieldFiber, NoFiber, Switch, AtLabel, flags, queues, locals
<1>2. task[w] \in Tasks /\ ScriptInv /\ w \in Actors /\ resumed \in [Workers -> SUBSET Tasks]
  BY <1>1 DEF IInv, TypeInv, HandInv, Actors
<1>3. home' \in [Tasks -> Workers]
  BY <1>1 DEF IInv, TypeInv
<1>4. "script" \in Kinds \ {"running"} /\ "resumed" \in Kinds \ {"running"} /\ w \in Keepers
  BY <1>2 DEF Kinds, Keepers
<1>5. ASSUME NEW ops, GoodScript(w, ops), Begin(w, ops), \A t : Carries(ops, t) <=> t = task[w],
             UNCHANGED <<resumed, hasQueuedWork>>
      PROVE  IInv'
  <2>1. /\ \A b \in Actors, t \in Tasks :
             Holds(b, t)' <=> IF b = w THEN t = task[w] ELSE Holds(b, t)
        /\ \A t \in Tasks : ~Holds(w, t)
    BY <1>2, <1>5, BeginMoves
  <2>2. ASSUME NEW t \in Tasks, NEW k \in Kinds, NEW x \in Keepers, k # "running"
        PROVE  IsAt(t, k, x)' <=> IsAt(t, k, x) \/ (t = task[w] /\ k = "script" /\ x = w)
    BY <1>1, <1>2, <1>5, <2>1, <2>2 DEF IsAt, Kinds
  <2>3. resumed' \in [Workers -> SUBSET Tasks] /\ ComesTo(task[w], "script", w)
    BY <1>2, <1>5, <2>2 DEF ComesTo
  <2> QED BY <1>1, <1>3, <1>4, <1>5, <2>3, BodyEnds
<1>6. \A v \in Workers, t \in Tasks :
        /\ GoodScript(w, Deliver("inbox", v, t))
        /\ \A u : Carries(Deliver("inbox", v, t), u) <=> u = t
  BY GoodDeliver
<1>7. CASE NoFiber(w)
  <2>1. PICK v \in Workers : Begin(w, Deliver("inbox", v, task[w]))
    BY <1>7 DEF NoFiber
  <2>2. UNCHANGED <<resumed, hasQueuedWork>>
    BY <1>7 DEF NoFiber, queues, flags
  <2> DEFINE d == Deliver("inbox", v, task[w])
  <2>3. GoodScript(w, d) /\ \A t : Carries(d, t) <=> t = task[w]
    BY <1>2, <1>6
  <2> HIDE DEF d
  <2>4. Begin(w, d)
    BY <2>1 DEF d
  <2> QED BY <1>5, <2>2, <2>3, <2>4
<1>8. CASE YieldFiber(w) /\ Migrate
  <2>1. PICK ops \in AfterBody(w), v \in Workers :
          Begin(w, (Deliver("inbox", v, task[w]) \o <<[op |-> "mark", w |-> w]>>) \o ops)
    BY <1>8 DEF YieldFiber, AfterSwitch, Afterwards
  <2>2. UNCHANGED <<resumed, hasQueuedWork>>
    BY <1>8 DEF YieldFiber
  <2> DEFINE d == Deliver("inbox", v, task[w])
             m == <<[op |-> "mark", w |-> w]>>
  <2>3. GoodScript(w, d) /\ \A t : Carries(d, t) <=> t = task[w]
    BY <1>2, <1>6
  <2>4. GoodScript(w, m) /\ Plain(m)
    BY GoodMarkSelf
  <2>5. GoodScript(w, ops) /\ Plain(ops)
    BY GoodAfterBody
  <2> HIDE DEF d, m
  <2>6. GoodScript(w, d \o m) /\ \A t : Carries(d \o m, t) <=> t = task[w]
    BY <2>3, <2>4, GoodConcat
  <2>7. GoodScript(w, (d \o m) \o ops) /\ \A t : Carries((d \o m) \o ops, t) <=> t = task[w]
    BY <2>5, <2>6, GoodConcat
  <2>8. Begin(w, (d \o m) \o ops)
    BY <2>1 DEF d, m
  <2> QED BY <1>5, <2>2, <2>7, <2>8
<1>9. CASE YieldFiber(w) /\ ~Migrate
  <2>1. PICK ops \in AfterBody(w) : Begin(w, <<>> \o ops)
    BY <1>9 DEF YieldFiber, AfterSwitch, Afterwards
  <2>2. /\ resumed' = [resumed EXCEPT ![w] = @ \cup {task[w]}]
        /\ hasQueuedWork' = hasQueuedWork \cup {w}
    BY <1>9 DEF YieldFiber
  <2>3. GoodScript(w, ops) /\ Plain(ops)
    BY GoodAfterBody
  <2>4. Begin(w, ops) /\ \A t : ~Carries(ops, t)
    <3>1. Begin(w, ops)
      BY <2>1, <2>3, NothingBefore
    <3>2. \A t : ~Carries(ops, t)
      BY <2>3 DEF Carries, Plain
    <3> QED BY <3>1, <3>2
  <2>5. \A b \in Actors, t \in Tasks : Holds(b, t)' <=> Holds(b, t)
    <3>1. /\ \A b \in Actors, t \in Tasks :
               Holds(b, t)' <=> IF b = w THEN Carries(ops, t) ELSE Holds(b, t)
          /\ \A t \in Tasks : ~Holds(w, t)
      BY <1>2, <2>3, <2>4, BeginMoves
    <3> QED BY <2>4, <3>1
  <2>6. /\ resumed' \in [Workers -> SUBSET Tasks]
        /\ \A v \in Workers : resumed'[v] = IF v = w THEN resumed[v] \cup {task[w]} ELSE resumed[v]
    BY <1>2, <2>2
  <2>7. ASSUME NEW t \in Tasks, NEW k \in Kinds, NEW x \in Keepers, k # "running"
        PROVE  IsAt(t, k, x)' <=> IsAt(t, k, x) \/ (t = task[w] /\ k = "resumed" /\ x = w)
    BY <1>1, <2>5, <2>6, <2>7 DEF IsAt, Kinds
  <2>8. \A v \in Workers \ {w} : /\ resumed'[v] = resumed[v]
                                 /\ v \in hasQueuedWork' => v \in hasQueuedWork
    BY <2>2, <2>6
  <2>9. ComesTo(task[w], "resumed", w)
    BY <2>7 DEF ComesTo
  <2> QED BY <1>1, <1>3, <1>4, <2>3, <2>4, <2>6, <2>8, <2>9, BodyEnds
<1> QED BY <1>7, <1>8, <1>9

-----------------------------------------------------------------------------
(* K + F <= N, which GetBands asserts *)

\* Whatever is left by the other band fits beside it.
LEMMA RoomFits ==
  ASSUME NEW x \in Nat, NEW y \in Nat, x <= N
  PROVE  AtMost(y, Room(x)) \in Nat /\ x + AtMost(y, Room(x)) <= N
BY PoolAssumption DEF AtMost, Room

\* The writers of the word other than BandsCasF, whatever they ask for and in
\* whatever state of the word they find K and F fitting the pool.
THEOREM SettersFit ==
  ASSUME NEW w \in NatWord, KAndFFitThePool(w), NEW x \in Nat
  PROVE  /\ KAndFFitThePool(BandsSetK(w, x)) /\ KAndFFitThePool(BandsSetF(w, x))
         /\ KAndFFitThePool(BandsSetFb(w, x))
         /\ KAndFFitThePool(BandsSetKmax(w, x)) /\ KAndFFitThePool(BandsSetKmin(w, x))
<1> SUFFICES ASSUME N >= 2
             PROVE  /\ BandsSetK(w, x).k + BandsSetK(w, x).f <= N
                    /\ BandsSetF(w, x).k + BandsSetF(w, x).f <= N
                    /\ \A v \in {BandsSetFb(w, x), BandsSetKmax(w, x), BandsSetKmin(w, x)} :
                         v.k + v.f <= N
  BY DEF KAndFFitThePool
<1>1. w.k \in Nat /\ w.f \in Nat /\ w.fb \in Nat /\ w.kmax \in Nat /\ w.k + w.f <= N
  BY DEF NatWord, KAndFFitThePool
<1>2. w.k <= N /\ w.f <= N
  BY <1>1, PoolAssumption
<1>3. BandsSetK(w, x).k + BandsSetK(w, x).f <= N
  <2> DEFINE want == IF w.kmax # 0 THEN AtMost(x, w.kmax) ELSE x
  <2>1. want \in Nat
    BY <1>1 DEF AtMost
  <2>2. w.f + AtMost(want, Room(w.f)) <= N /\ AtMost(want, Room(w.f)) \in Nat
    BY <1>1, <1>2, <2>1, RoomFits
  <2>3. BandsSetK(w, x).k = AtMost(want, Room(w.f)) /\ BandsSetK(w, x).f = w.f
    BY DEF BandsSetK, NatWord
  <2> HIDE DEF want
  <2> QED BY <1>1, <2>2, <2>3
<1>4. BandsSetF(w, x).k + BandsSetF(w, x).f <= N
  <2> DEFINE want == AtLeast(x, w.fb)
  <2>1. want \in Nat
    BY <1>1 DEF AtLeast
  <2>2. w.k + AtMost(want, Room(w.k)) <= N
    BY <1>1, <1>2, <2>1, RoomFits
  <2>3. BandsSetF(w, x).f = AtMost(want, Room(w.k)) /\ BandsSetF(w, x).k = w.k
    BY DEF BandsSetF, NatWord
  <2> QED BY <2>2, <2>3
<1>5. \A v \in {BandsSetFb(w, x), BandsSetKmax(w, x), BandsSetKmin(w, x)} : v.k + v.f <= N
  BY <1>1 DEF BandsSetFb, BandsSetKmax, BandsSetKmin, NatWord
<1> QED BY <1>3, <1>4, <1>5

\* CollapseAwakeFloorToBase's compare-exchange, whatever K has become since
\* the collapse read F and Fbase, as long as it does not raise F.
THEOREM CollapseFits ==
  ASSUME NEW w \in NatWord, KAndFFitThePool(w), NEW cur \in Nat, NEW base \in Nat, base <= cur
  PROVE  KAndFFitThePool(BandsCasF(w, cur, base))
<1> DEFINE v == BandsCasF(w, cur, base)
<1>1. w.k \in Nat /\ w.f \in Nat
  BY DEF NatWord
<1>2. v.k = w.k /\ (v.f = w.f \/ (w.f = cur /\ v.f = base))
  BY DEF BandsCasF, NatWord
<1>3. N >= 2 => w.k + w.f <= N
  BY DEF KAndFFitThePool
<1> HIDE DEF v
<1>4. N >= 2 => v.k + v.f <= N
  BY <1>1, <1>2, <1>3, PoolAssumption
<1> QED BY <1>4 DEF KAndFFitThePool, v

\* A worker puts back a floor that it found under its base.
CollapseRaisesF ==
  \E w \in Workers : CollapseAwakeFloorToBase(w) /\ snap[w].f < snap[w].fb

\* Bands that fit still fit after any step but a collapse that raises F.
LEMMA BandsStep ==
  ASSUME IInv, Next, KAndFFitThePool(word), ~CollapseRaisesF
  PROVE  KAndFFitThePool(word')
<1>1. word \in NatWord /\ snap \in [Workers -> [f : Nat, fb : Nat]]
  BY DEF IInv, TypeInv
<1>2. CASE word' = word
  BY <1>2
<1>3. ASSUME NEW w \in Workers, WorkerStep(w)
      PROVE  KAndFFitThePool(word')
  <2>1. word' = word \/ CollapseAwakeFloorToBase(w)
    BY <1>3 DEF WorkerStep, DoHand, Top, ClearFlags, Start, Finish, SuspendFiber, YieldFiber,
                NoFiber, Acquire, ParkGate, Spin, BackFromYield, CollapseBegins, PublishPark,
                Parked, WaitLoop, FutexWait, Woken, Advance, Permit
  <2>2. CASE CollapseAwakeFloorToBase(w)
    <3>1. snap[w].f \in Nat /\ snap[w].fb \in Nat /\ snap[w].fb <= snap[w].f
      BY <1>1, <2>2 DEF CollapseRaisesF
    <3> QED BY <1>1, <2>2, <3>1, CollapseFits DEF CollapseAwakeFloorToBase
  <2> QED BY <1>2, <2>1, <2>2
<1>4. ASSUME NEW a \in Actors, ScriptStep(a)
      PROVE  KAndFFitThePool(word')
  <2>1. word' = word \/ DoBound(a) \/ DoSetF(a) \/ DoSetK(a)
    BY <1>4 DEF ScriptStep, DoMark, DoMarkLaneWake, Wake, FutexWake, DoPush, DoIntake,
                DoRouseLane, DoWakeFloor, DoShed, DoSlide, DoRecruit, DoCrowd, DoSpread, DoStop
  <2>2. ASSUME script[a] # <<>>
        PROVE  /\ Op(a).op \in {"kmax", "kmin", "setK"} => Op(a).k \in Nat
               /\ Op(a).op \in {"setFb", "setF"} => Op(a).f \in Nat
    BY <2>2, FirstAccess, OpFields
  <2>3. CASE DoBound(a)
    <3>1. PICK x \in Nat :
            word' \in {BandsSetKmax(word, x), BandsSetKmin(word, x), BandsSetFb(word, x)}
      BY <2>2, <2>3 DEF DoBound, Doing, Op
    <3> QED BY <1>1, <3>1, SettersFit
  <2>4. CASE DoSetF(a)
    BY <1>1, <2>2, <2>4, SettersFit DEF DoSetF, Doing, Op
  <2>5. CASE DoSetK(a)
    <3>1. PICK x \in Nat : word' = BandsSetK(word, x)
      <4>1. Op(a).k \in Nat
        BY <2>2, <2>5 DEF DoSetK, Doing, Op
      <4> DEFINE want == IF Op(a).k >= N THEN N - 1 ELSE Op(a).k
      <4>2. (IF want > 2 THEN 2 ELSE want) \in Nat
        BY <4>1, PoolAssumption
      <4> QED BY <2>5, <4>2 DEF DoSetK
    <3> QED BY <1>1, <3>1, SettersFit
  <2> QED BY <1>2, <2>1, <2>3, <2>4, <2>5
<1>5. ASSUME NEW c \in Callers, Call(c) \/ ResumeCall(c)
      PROVE  KAndFFitThePool(word')
  <2>1. word' = word
    BY <1>5 DEF Call, ResumeCall, PushTarget, PushAffine, SetHotWorkers, SetAwakeFloor,
                NoteFloorCrowding, CallUnchanged, Pause, ResumePool, Join, Requeue
  <2> QED BY <1>2, <2>1
<1> QED BY <1>3, <1>4, <1>5 DEF Next

-----------------------------------------------------------------------------
(* The pool *)

\* A pool starts with no script and no flag, in whatever setup.
LEMMA InitInv ==
  ASSUME Init
  PROVE  IInv
<1>1. PICK s \in Setups :
        /\ word = s.word
        /\ workerState = [w \in Workers |-> IF w \in s.parked THEN "WS_PARKED" ELSE "WS_EMPTY"]
        /\ pc = [w \in Workers |-> IF w \in s.parked THEN "asleep" ELSE "top"]
        /\ reserved = {w \in s.parked : w < word.k}
        /\ deque = [inbox EXCEPT ![0] = s.backlog]
        /\ fresh = s.fresh
        /\ done = Tasks \ (s.fresh \cup s.backlog)
  BY DEF Init
<1>2. /\ hasQueuedWork = {} /\ laneWake = {} /\ backlog = {}
      /\ inbox = [w \in Workers |-> {}] /\ lane = inbox /\ resumed = inbox /\ intake = {}
      /\ task = [w \in Workers |-> NoTask]
      /\ snap = [w \in Workers |-> [f |-> 0, fb |-> 0]]
      /\ script = [a \in Actors |-> <<>>]
      /\ suspended = {} /\ home = [t \in Tasks |-> 0]
  BY DEF Init
<1>3. /\ s.word \in Words /\ s.parked \subseteq Workers /\ s.backlog \subseteq Tasks
      /\ s.fresh \subseteq Tasks /\ s.backlog \cap s.fresh = {}
      /\ NoTask \notin Tasks
  BY WorkerAssumption
<1>4. 0 \in Workers /\ 0 \in Keepers /\ NoTask \in Keepers
  BY PoolAssumption DEF Workers, Keepers, Actors
<1>5. TypeInv
  <2>1. word \in NatWord
    <3> DEFINE B == 0..255
    <3>1. B \subseteq Nat
      OBVIOUS
    <3>2. word \in [f : B, fb : B, k : B, kmax : B, kmin : B]
      BY <1>1, <1>3 DEF Words
    <3> HIDE DEF B
    <3> QED BY <3>1, <3>2 DEF NatWord
  <2>2. /\ workerState \in [Workers -> WorkerStates] /\ pc \in [Workers -> Labels]
    BY <1>1 DEF WorkerStates, Labels
  <2>3. deque \in [Workers -> SUBSET Tasks]
    BY <1>1, <1>2, <1>3
  <2> QED BY <1>2, <1>4, <2>1, <2>2, <2>3 DEF TypeInv
<1>6. ScriptInv
  <2>1. \A a \in Actors : script[a] = <<>>
    BY <1>2
  <2>2. \A a \in Actors : GoodScript(a, script[a])
    BY <2>1, GoodEmpty
  <2>3. script \in [Actors -> Seq(Ops)]
    BY <1>2
  <2> QED BY <2>1, <2>2, <2>3 DEF ScriptInv, Actors
<1>7. HandInv
  BY <1>1, <1>2 DEF HandInv
<1>8. PlaceInv
  <2> SUFFICES ASSUME NEW t \in Tasks
               PROVE  OnePlace(t)
    BY DEF PlaceInv
  <2>1. \A w \in Workers : /\ inbox[w] = {} /\ lane[w] = {} /\ resumed[w] = {} /\ task[w] # t
                           /\ deque[w] = IF w = 0 THEN s.backlog ELSE {}
    BY <1>1, <1>2, <1>3
  <2>2. \A a \in Actors : ~Holds(a, t)
    BY <1>2 DEF Holds
  <2>3. \A k \in Kinds, x \in Keepers :
          IsAt(t, k, x) <=> \/ k = "deque" /\ x = 0 /\ t \in s.backlog
                            \/ k = "fresh" /\ x = NoTask /\ t \in s.fresh
                            \/ k = "done" /\ x = NoTask /\ t \notin s.fresh \cup s.backlog
    BY <1>1, <1>2, <1>4, <2>1, <2>2 DEF IsAt, Kinds
  <2>4. "deque" \in Kinds /\ "fresh" \in Kinds /\ "done" \in Kinds
    BY DEF Kinds
  <2>5. CASE t \in s.backlog
    <3>1. \A k \in Kinds, x \in Keepers : IsAt(t, k, x) <=> k = "deque" /\ x = 0
      BY <1>3, <2>3, <2>5
    <3> QED BY <1>4, <2>4, <3>1 DEF OnePlace
  <2>6. CASE t \in s.fresh
    <3>1. \A k \in Kinds, x \in Keepers : IsAt(t, k, x) <=> k = "fresh" /\ x = NoTask
      BY <1>3, <2>3, <2>6
    <3> QED BY <1>4, <2>4, <3>1 DEF OnePlace
  <2>7. CASE t \notin s.fresh \cup s.backlog
    <3>1. \A k \in Kinds, x \in Keepers : IsAt(t, k, x) <=> k = "done" /\ x = NoTask
      BY <2>3, <2>7
    <3> QED BY <1>4, <2>4, <3>1 DEF OnePlace
  <2> QED BY <2>5, <2>6, <2>7
<1>9. SleepInv
  <2> SUFFICES ASSUME NEW w \in Workers
               PROVE  SleepOK(w)
    BY DEF SleepInv
  <2>1. ~OwnWork(w)
    BY <1>2 DEF OwnWork
  <2> QED BY <1>1, <2>1 DEF SleepOK
<1>10. LaneInv
  BY <1>1, <1>2, <1>4 DEF LaneInv
<1> QED BY <1>5, <1>6, <1>7, <1>8, <1>9, <1>10 DEF IInv

\* Every step of a worker or a caller keeps the invariant.
LEMMA NextInv ==
  ASSUME IInv, [Next]_vars
  PROVE  IInv'
<1>1. ASSUME NEW w \in Workers, WorkerStep(w)
      PROVE  IInv'
  BY <1>1, HandStep, TopStep, ClearFlagsStep, StartStep, FinishStep, GiveBackStep, AcquireStep,
     GateStep, CollapseStep, ParkStep DEF WorkerStep
<1>2. ASSUME NEW a \in Actors, ScriptStep(a)
      PROVE  IInv'
  BY <1>2, MarkStep, WakeStep, FutexWakeStep, PushStep, IntakeStep, RouseLaneStep, BoundStep,
     SetFStep, WakeFloorStep, SetKStep, ShedStep, RecruitStep, CrowdStep, SpreadStep, StopStep
     DEF ScriptStep
<1>3. ASSUME NEW c \in Callers, Call(c) \/ ResumeCall(c)
      PROVE  IInv'
  BY <1>3, SubmitStep, BandCallStep, PoolCallStep DEF Call, ResumeCall
<1>4. CASE UNCHANGED vars
  <2>1. /\ UNCHANGED <<word, flags, queues, pc, locals, task, tasks, script>>
    BY <1>4 DEF vars
  <2>2. /\ \A b \in Actors, t \in Tasks : Holds(b, t)' <=> Holds(b, t)
        /\ \A w : Announced(w) => Announced(w)'
        /\ \A w : Futexing(w) => Futexing(w)'
        /\ LaneRousing => LaneRousing'
        /\ \A b \in Actors : GoodScript(b, script[b])'
    BY <2>1, SameScripts DEF IInv
  <2>3. word' \in NatWord /\ script' \in [Actors -> Seq(Ops)]
    BY <2>1, SameScripts DEF IInv, TypeInv
  <2> QED BY <2>1, <2>2, <2>3, StillPool
<1> QED BY <1>1, <1>2, <1>3, <1>4 DEF Next

\* The invariant says that nobody sleeps on work.
LEMMA SleepersAreCalled == IInv => NoSleepOnWork
<1> SUFFICES ASSUME IInv
             PROVE  NoSleepOnWork
  OBVIOUS
<1>1. \A w : Announced(w) \/ Futexing(w) => Rousing(w)
  BY DEF Announced, Promises, Promise, Futexing, Futexes, Rousing
<1>2. \A w \in Workers :
        pc[w] = "asleep" /\ (OwnWork(w) \/ workerState[w] # "WS_PARKED") => Rousing(w)
  BY <1>1 DEF IInv, SleepInv, SleepOK, GoingToSleep
<1>3. ASSUME {w \in Workers : w < word.k} # {}, intake # {}
      PROVE  \/ \E w \in {v \in Workers : v < word.k} : pc[w] # "asleep" \/ Rousing(w)
             \/ \E a \in Actors : Doing(a, "rouselane")
  <2>1. word.k > 0 /\ 0 \in Workers /\ word.k \in Nat
    BY <1>3, PoolAssumption DEF IInv, TypeInv, NatWord, Workers
  <2>2. pc[0] # "asleep" \/ Rousing(0) \/ LaneRousing
    <3>1. CASE workerState[0] = "WS_PARKED"
      BY <1>1, <1>3, <2>1, <3>1 DEF IInv, LaneInv, GoingToSleep
    <3>2. CASE workerState[0] # "WS_PARKED"
      BY <1>2, <2>1, <3>2
    <3> QED BY <3>1, <3>2
  <2> QED BY <2>1, <2>2 DEF LaneRousing
<1> QED BY <1>2, <1>3 DEF NoSleepOnWork

-----------------------------------------------------------------------------
(* The theorems about every behaviour *)

\* The inductive invariant holds in every state of the pool.
THEOREM PoolInvariant == Spec => []IInv
<1>1. Init => IInv
  BY InitInv
<1>2. IInv /\ [Next]_vars => IInv'
  BY NextInv
<1> QED BY <1>1, <1>2, PTL DEF Spec

\* IsAt tells the members of Places.
LEMMA PlacesAre ==
  ASSUME NEW t
  PROVE  /\ \A k, x : IsAt(t, k, x) => <<k, x>> \in Places(t)
         /\ \A p \in Places(t) : \E k \in Kinds, x \in Keepers : p = <<k, x>> /\ IsAt(t, k, x)
<1> DEFINE own(kind, Q) == {<<kind, w>> : w \in {v \in Workers : t \in Q[v]}}
           shared(kind, S) == {<<kind, NoTask>> : u \in S \cap {t}}
           hand == {<<"running", w>> : w \in {v \in Workers : task[v] = t}}
           scripts == {<<"script", a>> : a \in {b \in Actors : Holds(b, t)}}
<1>1. \A p : p \in Places(t) <=>
        \/ p \in own("inbox", inbox) \/ p \in own("lane", lane) \/ p \in own("resumed", resumed)
        \/ p \in own("deque", deque) \/ p \in hand \/ p \in scripts
        \/ p \in shared("intake", intake) \/ p \in shared("fresh", fresh)
        \/ p \in shared("suspended", suspended) \/ p \in shared("done", done)
  BY DEF Places
<1>2. /\ \A kind, Q, p : p \in own(kind, Q) <=> \E w \in Workers : p = <<kind, w>> /\ t \in Q[w]
      /\ \A kind, S, p : p \in shared(kind, S) <=> p = <<kind, NoTask>> /\ t \in S
      /\ \A p : p \in hand <=> \E w \in Workers : p = <<"running", w>> /\ task[w] = t
      /\ \A p : p \in scripts <=> \E a \in Actors : p = <<"script", a>> /\ Holds(a, t)
  OBVIOUS
<1> HIDE DEF own, shared, hand, scripts
<1>3. \A k, x : IsAt(t, k, x) => <<k, x>> \in Places(t)
  <2> SUFFICES ASSUME NEW k, NEW x, IsAt(t, k, x)
               PROVE  <<k, x>> \in Places(t)
    OBVIOUS
  <2>1. CASE k \in {"inbox", "lane", "resumed", "deque"}
    <3>1. x \in Workers
      BY <2>1 DEF IsAt
    <3>2. \/ k = "inbox" /\ t \in inbox[x]
          \/ k = "lane" /\ t \in lane[x]
          \/ k = "resumed" /\ t \in resumed[x]
          \/ k = "deque" /\ t \in deque[x]
      BY <2>1 DEF IsAt
    <3> QED BY <1>1, <1>2, <3>1, <3>2
  <2>2. CASE k = "running"
    <3>1. x \in Workers /\ task[x] = t
      BY <2>2 DEF IsAt
    <3> QED BY <1>1, <1>2, <2>2, <3>1
  <2>3. CASE k = "script"
    <3>1. x \in Actors /\ Holds(x, t)
      BY <2>3 DEF IsAt
    <3> QED BY <1>1, <1>2, <2>3, <3>1
  <2>4. CASE k \in {"intake", "fresh", "suspended", "done"}
    <3>1. x = NoTask
      BY <2>4 DEF IsAt
    <3>2. \/ k = "intake" /\ t \in intake
          \/ k = "fresh" /\ t \in fresh
          \/ k = "suspended" /\ t \in suspended
          \/ k = "done" /\ t \in done
      BY <2>4 DEF IsAt
    <3> QED BY <1>1, <1>2, <3>1, <3>2
  <2> QED BY <2>1, <2>2, <2>3, <2>4 DEF IsAt
<1>4. \A p \in Places(t) : \E k \in Kinds, x \in Keepers : p = <<k, x>> /\ IsAt(t, k, x)
  <2> TAKE p \in Places(t)
  <2>1. Workers \subseteq Keepers /\ Actors \subseteq Keepers /\ NoTask \in Keepers
    BY DEF Keepers, Actors
  <2>2. CASE p \in own("inbox", inbox)
    <3>1. PICK w \in Workers : p = <<"inbox", w>> /\ t \in inbox[w]
      BY <1>2, <2>2
    <3>2. IsAt(t, "inbox", w)
      BY <3>1 DEF IsAt
    <3> QED BY <2>1, <3>1, <3>2 DEF Kinds
  <2>3. CASE p \in own("lane", lane)
    <3>1. PICK w \in Workers : p = <<"lane", w>> /\ t \in lane[w]
      BY <1>2, <2>3
    <3>2. IsAt(t, "lane", w)
      BY <3>1 DEF IsAt
    <3> QED BY <2>1, <3>1, <3>2 DEF Kinds
  <2>7. CASE p \in own("resumed", resumed)
    <3>1. PICK w \in Workers : p = <<"resumed", w>> /\ t \in resumed[w]
      BY <1>2, <2>7
    <3>2. IsAt(t, "resumed", w)
      BY <3>1 DEF IsAt
    <3> QED BY <2>1, <3>1, <3>2 DEF Kinds
  <2>8. CASE p \in own("deque", deque)
    <3>1. PICK w \in Workers : p = <<"deque", w>> /\ t \in deque[w]
      BY <1>2, <2>8
    <3>2. IsAt(t, "deque", w)
      BY <3>1 DEF IsAt
    <3> QED BY <2>1, <3>1, <3>2 DEF Kinds
  <2>4. CASE p \in hand \/ p \in scripts
    BY <1>2, <2>1, <2>4 DEF IsAt, Kinds
  <2>5. CASE p \in shared("intake", intake) \/ p \in shared("fresh", fresh)
    BY <1>2, <2>1, <2>5 DEF IsAt, Kinds
  <2>6. CASE p \in shared("suspended", suspended) \/ p \in shared("done", done)
    BY <1>2, <2>1, <2>6 DEF IsAt, Kinds
  <2> QED BY <1>1, <2>2, <2>3, <2>4, <2>5, <2>6, <2>7, <2>8
<1> QED BY <1>3, <1>4

\* No task is lost or doubled: whatever the workers, the callers and the bands
\* do, every task is in exactly one queue, one worker's hand or one script.
THEOREM TasksAreKept == Spec => []TaskInOnePlace
<1>1. IInv => TaskInOnePlace
  <2> SUFFICES ASSUME IInv, NEW t \in Tasks
               PROVE  \E p \in Places(t) : Places(t) = {p}
    BY DEF TaskInOnePlace
  <2>1. PICK k \in Kinds, x \in Keepers :
          \A k2 \in Kinds, x2 \in Keepers : IsAt(t, k2, x2) <=> k2 = k /\ x2 = x
    BY DEF IInv, PlaceInv, OnePlace
  <2>2. <<k, x>> \in Places(t)
    BY <2>1, PlacesAre
  <2>3. \A p \in Places(t) : p = <<k, x>>
    BY <2>1, PlacesAre
  <2> QED BY <2>2, <2>3
<1> QED BY <1>1, PoolInvariant, PTL

\* No worker sleeps on work: a worker in its futex with work in its queues, a
\* flag up or a permit has a Wake to come, and so has one of the reserved band
\* when the shared intake holds a task; for every number of workers and callers
\* and any number of calls that move the bands.
THEOREM NobodySleepsOnWork == Spec => []NoSleepOnWork
<1> QED BY SleepersAreCalled, PoolInvariant, PTL

\* While K and F fit the pool no step of it makes them not fit, whoever takes it
\* and however many calls move the bands at once, but for a collapse that raises
\* F: CollapseAwakeFloorToBase exchanges F alone and does not look at K.
THEOREM OnlyARaisingCollapseOverfills ==
  Spec => [][KAndFFitThePool(word) => KAndFFitThePool(word') \/ CollapseRaisesF]_vars
<1>1. IInv /\ [Next]_vars =>
        [KAndFFitThePool(word) => KAndFFitThePool(word') \/ CollapseRaisesF]_vars
  BY BandsStep
<1> QED BY <1>1, PoolInvariant, PTL DEF Spec

=============================================================================
