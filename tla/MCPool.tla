------------------------------- MODULE MCPool -------------------------------
(***************************************************************************)
(* The pool as its callers see it, for TLC: where a push goes (Placement), *)
(* the ways in and the queues behind them (Ingress), ParallelFor, and the  *)
(* life of the pool from Init to Join and back (Lifecycle).  The initial   *)
(* state chooses one of Parts.  Ingress comes in two setups, "reserved",   *)
(* with a reserved worker and the publish lane, and "restart", without     *)
(* them and with a second Init; ParallelFor in two, "workers", a fiber and *)
(* a native task calling it, and "outside", two bare threads.              *)
(***************************************************************************)
EXTENDS Placement, Sequences, TLC

CONSTANTS
  Parts, Null, Main,
  p1, ta, tb, tc, t1, t2, DepthWrap, BATCH_SIZE,              \* Ingress
  c1, c2, w1, w2, LazySplitCap, LaneCapacity, IntMax,      \* ParallelFor
  f1, f2, f3, m1, m2, MaxInits                             \* Lifecycle

ASSUME PoolAssumption ==
  /\ ConstantsFit
  /\ {DepthWrap, BATCH_SIZE, LazySplitCap, LaneCapacity, IntMax, MaxInits} \subseteq Nat \ {0}
  /\ Null \notin {w1, w2, c1, c2, f1, f2, f3, m1, m2}

VARIABLES
  part,
  fresh, inbox, lane, deque, intake, pub, mainQ, ran, depth, claimed, owns, inits,
  op, wk,                                                               \* ingress
  rangePc, on, begin, grain, n, cursor, spawns, rangeRan, rangeLane, hint,
  rangeClaimed, rangeInbox, act,                                        \* range
  lifePc, poolActive, services, lifeInits, lifeIntake, registry, popped,
  destroyed, place, waited, lifeInbox, lifeDeque, hand, phase, running, scan,
  clean                                                                 \* life

ingressVars == <<fresh, inbox, lane, deque, intake, pub, mainQ, ran, depth, claimed,
                 owns, inits, op, wk>>
rangeVars == <<rangePc, on, begin, grain, n, cursor, spawns, rangeRan, rangeLane, hint,
               rangeClaimed, rangeInbox, act>>
lifeVars == <<lifePc, poolActive, services, lifeInits, lifeIntake, registry, popped,
              destroyed, place, waited, lifeInbox, lifeDeque, hand, phase, running,
              scan, clean>>
allVars == <<part, placementVars, ingressVars, rangeVars, lifeVars>>

Reserved == INSTANCE Ingress WITH Tasks <- {ta, tb, tc}, Threads <- {t1, t2}, N <- 2, K <- 1,
              Limit <- 1, LaneIntake <- TRUE, MainPub <- TRUE, MaxInits <- 1
Restarted == INSTANCE Ingress WITH Tasks <- {ta, tb}, Threads <- {t1, t2}, N <- 2, K <- 0,
               Limit <- 0, LaneIntake <- TRUE, MainPub <- FALSE, MaxInits <- 2

Inside == INSTANCE ParallelFor WITH Calls <- {c1, c2}, Workers <- {w1, w2}, Size <- 4,
            Kind <- (c1 :> "native") @@ (c2 :> "fiber"),
            Grain <- 1, kMinGrain <- 1, LeavesPerWorker <- 2, ProbeShare <- 4, kSlices <- 2,
            kMinSlice <- 1, pc <- rangePc, ran <- rangeRan, lane <- rangeLane,
            claimed <- rangeClaimed, inbox <- rangeInbox
Outside == INSTANCE ParallelFor WITH Calls <- {c1, c2}, Workers <- {w1}, Size <- 3,
             Kind <- (c1 :> "bare") @@ (c2 :> "bare"),
             Grain <- 1, kMinGrain <- 1, LeavesPerWorker <- 2, ProbeShare <- 4, kSlices <- 2,
             kMinSlice <- 1, pc <- rangePc, ran <- rangeRan, lane <- rangeLane,
             claimed <- rangeClaimed, inbox <- rangeInbox

Life == INSTANCE Lifecycle WITH
  Workers <- 1..2, Frames <- {f1, f2, f3}, Primitives <- {m1, m2}, Timed <- {f2},
  Owns <- (f1 :> {m2}) @@ (f2 :> {}) @@ (f3 :> {}),
  WaitsOn <- (f1 :> m1) @@ (f2 :> Null) @@ (f3 :> Null),
  Wakes <- (f1 :> f3) @@ (f2 :> Null) @@ (f3 :> Null),
  pc <- lifePc, inits <- lifeInits, intake <- lifeIntake, inbox <- lifeInbox,
  deque <- lifeDeque

PoolInit ==
  /\ part \in Parts
  /\ PlacementInit /\ Life!Init
  /\ IF part = "restart" THEN Restarted!Init ELSE Reserved!Init
  /\ IF part = "outside" THEN Outside!Init ELSE Inside!Init
  /\ part # "place" => bands = CHOOSE s \in Settings : TRUE

PlacementDoes(A) == part = "place" /\ A /\ UNCHANGED <<part, ingressVars, rangeVars, lifeVars>>
IngressDoes(setup, A) == part = setup /\ A /\ UNCHANGED <<part, placementVars, rangeVars, lifeVars>>
RangeDoes(setup, A) == part = setup /\ A /\ UNCHANGED <<part, placementVars, ingressVars, lifeVars>>
LifeDoes(A) == part = "life" /\ A /\ UNCHANGED <<part, placementVars, ingressVars, rangeVars>>

PoolNext ==
  \/ PlacementDoes(PlacementNext)
  \/ IngressDoes("reserved", Reserved!Next) \/ IngressDoes("restart", Restarted!Next)
  \/ RangeDoes("workers", Inside!Next) \/ RangeDoes("outside", Outside!Next)
  \/ LifeDoes(Life!Next)

PoolSpec == PoolInit /\ [][PoolNext]_allVars

\* The bands a SetHotWorkers, SetAwakeFloor or collapse switches between.
Setting(k, f, fb) == [k |-> k, f |-> f, fb |-> fb]
MCSettings == {Setting(0, 1, 1), Setting(2, 1, 1), Setting(1, 1, 0), Setting(0, 2, 0)}

-----------------------------------------------------------------------------
TypesOK ==
  CASE part = "place"    -> PlacementTypeOK
    [] part = "reserved" -> Reserved!TypeOK
    [] part = "restart"  -> Restarted!TypeOK
    [] part = "workers"  -> Inside!TypeOK
    [] part = "outside"  -> Outside!TypeOK
    [] part = "life"     -> Life!TypeOK

\* Push, PushBatch, PushMain, PushLazy and the drains behind them: a submitted
\* task is in one queue or hand until it has run, and it runs once, whichever
\* path it came in by; at most one thread writes the bottom of the publish
\* lane.  (The state of whichever part runs is of its type besides.)
SubmittedInOnePlace ==
  /\ TypesOK
  /\ part = "reserved" => Reserved!SubmittedInOnePlace /\ Reserved!OnePublisher
  /\ part = "restart" => Restarted!SubmittedInOnePlace /\ Restarted!OnePublisher

\* ParallelFor: every index runs once over probe, stolen halves, slices of the
\* cursor and failed pushes; when a call has returned no piece of it is left
\* that would use its stack; a caller still waiting has a piece to wait for;
\* and the bit of the non-worker lane goes with the claim on the lane.
RangeRunsOnce ==
  /\ part = "workers" => /\ Inside!EachIndexOnce /\ Inside!CallerOutlivesPieces
                         /\ Inside!WaitsForPieces /\ Inside!NoHintLeaks
  /\ part = "outside" => /\ Outside!EachIndexOnce /\ Outside!CallerOutlivesPieces
                         /\ Outside!WaitsForPieces /\ Outside!NoHintLeaks

\* Join: no drain, steal, exit or clearing of the queues runs a frame twice;
\* the services stop before their consumers and leave the intake empty; the
\* registry of primitives holds only whole ones.
ShutdownKeepsFrames ==
  part = "life" => Life!FrameInOnePlace /\ Life!ProducersStopFirst /\ Life!RegistryIsAlive
=============================================================================
