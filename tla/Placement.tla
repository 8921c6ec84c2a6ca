----------------------------- MODULE Placement -----------------------------
(***************************************************************************)
(* Where a push lands: PickNextWorker and, for the lane, HiPriSpillTarget. *)
(*                                                                         *)
(* A pick takes no lock.  It loads the bands word several times (hotN at   *)
(* the top, pbands for the masks, the floor accessors later), the awake    *)
(* map, the chosen worker's state and flag, and the rotation cursors, and  *)
(* every one of those words moves under it: other threads reconfigure the  *)
(* bands, workers park, wake and drain, and other picks advance the        *)
(* cursors.  Each load is a step of its own here.                          *)
(*                                                                         *)
(* What workers own (awake map, workerState, hasQueuedWork, busy) is       *)
(* modelled in Worker; a pick reads whatever value is there, so each of    *)
(* those loads may return anything.                                        *)
(***************************************************************************)
EXTENDS Integers, FiniteSets

CONSTANTS
  Pushers,          \* threads that push
  OnWorker,         \* the pushers that are worker threads (Thread::GetCurrent())
  N,                \* workers.size()
  Settings,         \* bound: the settings of the bands word that are used
  CursorWrap,       \* bound: where nextWorker and nextHotWorker wrap
  HiPriFloorLane,   \* SetHiPriFloorLane: the lane may use the floor when K = 0
  FollowsGrown,     \* g_placementFollowsGrownFloor
  kStreakToSpill, kStreakSpillMax

VARIABLES
  bands,            \* the bands word: k reserved, f awake floor, fb its base
  nextWorker, nextHotWorker,
  streak,           \* thread_local t_floorStreak
  pick              \* the pick each pusher is in

placementVars == <<bands, nextWorker, nextHotWorker, streak, pick>>

Workers == 0..(N - 1)

\* What BandsSetK, BandsSetFb and BandsSetF leave in the word (BandsWord).
Bands == {b \in [k : Workers, f : 0..N, fb : 0..N] : b.fb <= b.f /\ b.k + b.f <= N}

\* What the specification asks of its constants.
ConstantsFit ==
  /\ N \in Nat \ {0} /\ CursorWrap \in Nat /\ CursorWrap >= N
  /\ Settings \subseteq Bands
  /\ HiPriFloorLane \in BOOLEAN /\ FollowsGrown \in BOOLEAN
  /\ kStreakToSpill \in Nat \ {0} /\ kStreakSpillMax \in Nat \ {0}

Lanes == {"Normal", "LowLatency"}

CorePrefs == {"Default", "Wide"}

Labels == {"idle", "hotN", "laneK", "laneFloor", "map", "bands", "steer",
           "select", "yield", "queued", "streak", "crowd", "rotate", "advance",
           "fallback", "spill", "spillScan", "done"}

LowLatency(r) == r.lane = "LowLatency"

\* low and high are history: the least and the greatest K since the call.
Idle == [at |-> "idle", lane |-> "Normal", pref |-> "Default", hotN |-> 0,
         k |-> 0, awake |-> {}, i |-> 0, chosen |-> 0, low |-> 0, high |-> 0]

PlacementInit ==
  /\ bands \in Settings
  /\ nextWorker = 0 /\ nextHotWorker = 0
  /\ streak = [p \in Pushers |-> 0]
  /\ pick = [p \in Pushers |-> Idle]

Goes(p, from, r) == pick[p].at = from /\ pick' = [pick EXCEPT ![p] = r]

\* Locals that are out of scope are reset, so that they do not tell states apart.
Picked(p, w) == [pick[p] EXCEPT !.at = "done", !.chosen = w, !.i = 0, !.awake = {}]

Bump(c) == (c + 1) % CursorWrap

Least(a, b) == IF a < b THEN a ELSE b

Greatest(a, b) == IF a > b THEN a ELSE b

\* PushTarget, Requeue and PushBatch ask for a worker.
PickNextWorker(p) ==
  /\ \E lane \in Lanes, pref \in CorePrefs :
       Goes(p, "idle", [Idle EXCEPT !.at = "hotN", !.lane = lane, !.pref = pref,
                                    !.low = bands.k, !.high = bands.k])
  /\ UNCHANGED <<bands, nextWorker, nextHotWorker, streak>>

\* Steered by the awake map, or straight to the rotation for CorePref::Wide.
Ordinary(p) == IF pick[p].pref = "Wide" THEN "rotate" ELSE "map"

\* hotN, loaded once: the lane rotates over the reserved band.
ReadHotN(p) ==
  LET hotN == bands.k
  IN  /\ IF LowLatency(pick[p]) /\ hotN > 0
         THEN /\ Goes(p, "hotN", [pick[p] EXCEPT
                        !.at = "spill", !.hotN = hotN,
                        !.chosen = nextHotWorker % Least(hotN, N)])
              /\ nextHotWorker' = Bump(nextHotWorker)
         ELSE /\ Goes(p, "hotN", [pick[p] EXCEPT
                        !.hotN = hotN,
                        !.at = IF LowLatency(pick[p]) /\ HiPriFloorLane
                               THEN "laneK" ELSE Ordinary(p)])
              /\ UNCHANGED nextHotWorker
      /\ UNCHANGED <<bands, nextWorker, streak>>

\* K = 0 and the lane on the floor: GetBands, then the floor's base.
ReadLaneK(p) ==
  /\ Goes(p, "laneK", [pick[p] EXCEPT !.at = "laneFloor", !.k = bands.k])
  /\ UNCHANGED <<bands, nextWorker, nextHotWorker, streak>>

PickFloorLane(p) ==
  LET k    == pick[p].k
      span == Least(bands.fb, N - k)
  IN  /\ IF bands.fb > 0 /\ k < N
         THEN /\ Goes(p, "laneFloor", [pick[p] EXCEPT
                        !.at = "spill", !.k = 0, !.chosen = k + (nextHotWorker % span)])
              /\ nextHotWorker' = Bump(nextHotWorker)
         ELSE /\ Goes(p, "laneFloor", [pick[p] EXCEPT !.at = Ordinary(p), !.k = 0])
              /\ UNCHANGED nextHotWorker
      /\ UNCHANGED <<bands, nextWorker, streak>>

\* The awake map, one relaxed load per word, before the bands are loaded.
ReadAwake(p) ==
  /\ \E m \in SUBSET Workers : Goes(p, "map", [pick[p] EXCEPT !.at = "bands", !.awake = m])
  /\ UNCHANGED <<bands, nextWorker, nextHotWorker, streak>>

\* As the mask once was: applied only when there is a floor to steer at.
ClearReservedIfFloor(p) ==
  /\ Goes(p, "bands", [pick[p] EXCEPT
            !.at = "steer", !.k = bands.k,
            !.awake = {w \in pick[p].awake : bands.fb > 0 => w >= bands.k}])
  /\ UNCHANGED <<bands, nextWorker, nextHotWorker, streak>>

\* The reserved band is cleared from the map, whatever the floor is.
ClearReserved(p) ==
  /\ Goes(p, "bands", [pick[p] EXCEPT
            !.at = "steer", !.k = bands.k,
            !.awake = {w \in pick[p].awake : w >= bands.k}])
  /\ UNCHANGED <<bands, nextWorker, nextHotWorker, streak>>

\* Preferred: the awake part of the floor; if none of it is awake, whatever
\* else is.  An empty map falls through to the rotation.
Steer(p) ==
  LET steerF == IF FollowsGrown THEN bands.f ELSE bands.fb
      floor  == {w \in pick[p].awake : w >= pick[p].k /\ w < pick[p].k + steerF}
      to     == IF bands.fb > 0 /\ floor # {} THEN floor ELSE pick[p].awake
  IN  /\ Goes(p, "steer", [pick[p] EXCEPT
                !.at = IF to = {} THEN "rotate" ELSE "select",
                !.awake = to, !.k = 0])
      /\ UNCHANGED <<bands, nextWorker, nextHotWorker, streak>>

\* The r-th set bit, r from the shared cursor.
Select(p) ==
  LET m == pick[p].awake
  IN  /\ \E w \in m :
           /\ Cardinality({v \in m : v < w}) = nextWorker % Cardinality(m)
           /\ Goes(p, "select", [pick[p] EXCEPT !.at = "yield", !.chosen = w])
      /\ nextWorker' = Bump(nextWorker)
      /\ UNCHANGED <<bands, nextHotWorker, streak>>

\* A worker in WS_YIELD is passed over for the next set bit, if there is one.
AvoidYielding(p) ==
  LET m    == pick[p].awake
      here == pick[p].chosen
  IN  /\ \E w \in m :
           /\ w = here \/ (w > here /\ \A v \in m : v <= here \/ w <= v)
           /\ Goes(p, "yield", [pick[p] EXCEPT !.at = "queued", !.chosen = w])
      /\ UNCHANGED <<bands, nextWorker, nextHotWorker, streak>>

\* hasQueuedWork of the target: only a bare producer goes on to count.
ReadQueued(p) ==
  /\ \/ Goes(p, "queued", Picked(p, pick[p].chosen))
     \/ p \notin OnWorker /\ Goes(p, "queued", [pick[p] EXCEPT !.at = "streak", !.awake = {}])
  /\ UNCHANGED <<bands, nextWorker, nextHotWorker, streak>>

\* The producer's own clock: past the window it is sampled only now and then,
\* a gap starts a new streak, and a streak inside the window is a wave.
CountStreak(p) ==
  /\ \/ /\ streak[p] > kStreakSpillMax
        /\ Goes(p, "streak", Picked(p, pick[p].chosen))
        /\ UNCHANGED streak
     \/ \E s \in {1, Least(streak[p] + 1, kStreakSpillMax + 1)} :
          /\ streak' = [streak EXCEPT ![p] = s]
          /\ Goes(p, "streak", IF s \in kStreakToSpill..kStreakSpillMax
                               THEN [pick[p] EXCEPT !.at = "crowd"]
                               ELSE Picked(p, pick[p].chosen))
  /\ UNCHANGED <<bands, nextWorker, nextHotWorker>>

\* NoteFloorCrowding may grow the floor (Worker), then the push goes to the
\* grown slice [hotN + base, hotN + live), with hotN as it was at the top.
SpillToGrown(p) ==
  \E f \in bands.f..(N - bands.k) :
    LET alt == pick[p].hotN + bands.fb + (nextWorker % (f - bands.fb))
    IN  /\ bands' = [bands EXCEPT !.f = f]
        /\ IF f > bands.fb
           THEN /\ nextWorker' = Bump(nextWorker)
                /\ Goes(p, "crowd", Picked(p, IF alt < N THEN alt ELSE pick[p].chosen))
           ELSE /\ Goes(p, "crowd", Picked(p, pick[p].chosen))
                /\ UNCHANGED nextWorker
        /\ UNCHANGED <<nextHotWorker, streak>>

\* The full-pool rotation.  The cursor is loaded anew on each turn of the
\* loop, so other picks can make it skip or repeat a worker.
Rotate(p) ==
  LET j == (nextWorker + pick[p].i) % N
  IN  /\ Goes(p, "rotate",
           IF pick[p].i >= N THEN [pick[p] EXCEPT !.at = "fallback"]
           ELSE IF j < pick[p].hotN THEN [pick[p] EXCEPT !.i = @ + 1]
           ELSE [pick[p] EXCEPT !.at = "advance", !.chosen = j])
      /\ UNCHANGED <<bands, nextWorker, nextHotWorker, streak>>

\* ... and stored in a step of its own.
Advance(p) ==
  /\ nextWorker' = (pick[p].chosen + 1) % N
  /\ Goes(p, "advance", Picked(p, pick[p].chosen))
  /\ UNCHANGED <<bands, nextHotWorker, streak>>

\* Every turn of the loop met a reserved worker.
Fallback(p) ==
  LET w == IF pick[p].hotN < N
           THEN pick[p].hotN + (nextWorker % (N - pick[p].hotN))
           ELSE nextWorker
  IN  /\ Goes(p, "fallback", [pick[p] EXCEPT !.at = "advance", !.chosen = w])
      /\ UNCHANGED <<bands, nextWorker, nextHotWorker, streak>>

\* HiPriSpillTarget: an owner that is not inside a body keeps the task.
HiPriSpillTarget(p) ==
  /\ \/ Goes(p, "spill", Picked(p, pick[p].chosen))
     \/ Goes(p, "spill", [pick[p] EXCEPT !.at = "spillScan"])
  /\ UNCHANGED <<bands, nextWorker, nextHotWorker, streak>>

\* Otherwise another reserved worker that is awake and idle takes it, if the
\* scan meets one.
SpillScan(p) ==
  /\ \/ Goes(p, "spillScan", Picked(p, pick[p].chosen))
     \/ /\ bands.k > 1
        /\ \E q \in {w \in Workers : w < bands.k} \ {pick[p].chosen} :
             Goes(p, "spillScan", Picked(p, q))
  /\ UNCHANGED <<bands, nextWorker, nextHotWorker, streak>>

\* The pusher has pushed to the chosen worker.
Return(p) ==
  /\ Goes(p, "done", Idle)
  /\ UNCHANGED <<bands, nextWorker, nextHotWorker, streak>>

InPick(p) == pick[p].at \notin {"idle", "done"}

\* SetHotWorkers, SetAwakeFloor, a growth or a collapse moves the bands.
SetBands ==
  \E b \in Settings :
    /\ bands' = b
    /\ pick' = [p \in Pushers |->
         IF InPick(p) THEN [pick[p] EXCEPT !.low = Least(@, b.k), !.high = Greatest(@, b.k)]
                      ELSE pick[p]]
    /\ UNCHANGED <<nextWorker, nextHotWorker, streak>>

\* WakeOneForSteal, WakeForSteal and the publish lane step the same cursor.
StepCursor ==
  /\ nextWorker' = Bump(nextWorker)
  /\ UNCHANGED <<bands, nextHotWorker, streak, pick>>

Step(p) ==
  \/ PickNextWorker(p) \/ ReadHotN(p) \/ ReadLaneK(p) \/ PickFloorLane(p)
  \/ ReadAwake(p) \/ ClearReserved(p) \/ Steer(p) \/ Select(p) \/ AvoidYielding(p)
  \/ ReadQueued(p) \/ CountStreak(p) \/ SpillToGrown(p)
  \/ Rotate(p) \/ Advance(p) \/ Fallback(p)
  \/ HiPriSpillTarget(p) \/ SpillScan(p) \/ Return(p)

PlacementNext == SetBands \/ StepCursor \/ \E p \in Pushers : Step(p)

PlacementSpec == PlacementInit /\ [][PlacementNext]_placementVars

-----------------------------------------------------------------------------

PlacementTypeOK ==
  /\ bands \in Bands
  /\ nextWorker \in 0..(CursorWrap - 1) /\ nextHotWorker \in 0..(CursorWrap - 1)
  /\ streak \in [Pushers -> 0..(kStreakSpillMax + 1)]
  /\ pick \in [Pushers -> [at : Labels, lane : Lanes, pref : CorePrefs,
       hotN : Workers, k : Workers, awake : SUBSET Workers, i : 0..N,
       chosen : Int, low : Workers, high : Workers]]

(***************************************************************************)
(* Whatever the bands, the map and the cursors do during a pick, the index *)
(* PickNextWorker hands to `normalInboxes[chosen]` is a worker's; ordinary *)
(* work is never aimed at a worker that was reserved during the whole pick *)
(* ("Ordinary work must never be ROUTED to a reserved worker"); and a lane *)
(* task with a reserved band to go to never leaves the workers that were   *)
(* reserved at some moment of the pick ("the lane is closed: [0, K) or the *)
(* owner, nothing else").                                                  *)
(***************************************************************************)
PickFits ==
  \A p \in Pushers : pick[p].at = "done" =>
    /\ pick[p].chosen \in Workers
    /\ ~LowLatency(pick[p]) => pick[p].chosen >= pick[p].low
    /\ LowLatency(pick[p]) /\ pick[p].hotN > 0 => pick[p].chosen < pick[p].high
=============================================================================
