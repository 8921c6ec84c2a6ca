-------------------------------- MODULE Timer --------------------------------
(***************************************************************************)
(* TimerQueue: the hierarchical wheel, the one thread that sleeps until    *)
(* its soonest occupied slot, and Arm, Disarm, Stop and Start              *)
(* (src/Timer.cpp).                                                        *)
(*                                                                         *)
(* Everything but the callbacks happens under impl->m, so a critical       *)
(* section is one step.  A slot's list is the set of the entries linked    *)
(* there, its occupancy bit whether there are any.  The n-th successful    *)
(* Arm is arming n, with a scope of its own.                               *)
(***************************************************************************)
EXTENDS Integers, FiniteSets

CONSTANTS
  Slots,        \* kSlots
  Levels,       \* kLevels
  Batch,        \* kBatch
  Delays,       \* the delays callers ask for, in ticks
  MaxArms,      \* bound: successful calls of Arm
  MaxNow        \* bound: the clock

Armings == 1..MaxArms
Idx == Armings          \* entries is never longer than the armings made
None == 0

VARIABLES
  now,           \* NowTick()
  currentTick,
  entries,       \* index -> the arming or None, generation, place in the wheel
  armedCount,
  running, stopping,
  worker,        \* where the thread is
  until,         \* what its wait_for waits for
  tokens,        \* what it has collected and not fired yet
  handle,        \* arming -> what Arm returned
  due,           \* arming -> its deadline
  fired, disarmed

vars == <<now, currentTick, entries, armedCount, running, stopping, worker,
          until, tokens, handle, due, fired, disarmed>>

armings == <<handle, due, disarmed>>

NoHandle == [i |-> 0, g |-> 0]

LOCAL Least(S) == CHOOSE x \in S : \A y \in S : x <= y

-----------------------------------------------------------------------------
(* The wheel *)

LevelGranularity(l) == Slots ^ l

Place(cur, deadline) ==
  LET delta == deadline - cur
      fits == {l \in 0..(Levels - 1) : delta < LevelGranularity(l + 1)}
      top == Levels - 1
  IN CASE delta <= 0 -> [level |-> 0, slot |-> cur % Slots]
       [] delta > 0 /\ fits # {} ->
            [level |-> Least(fits),
             slot |-> (deadline \div LevelGranularity(Least(fits))) % Slots]
       [] OTHER ->
            [level |-> top,
             slot |-> ((cur + LevelGranularity(Levels) - 1)
                         \div LevelGranularity(top)) % Slots]

Off == [level |-> -1, slot |-> 0]
Linked(ents) == {i \in Idx : ents[i].at # Off}

\* When the slot of an entry comes round: level 0 counts from the current
\* slot, the others from the slot after it.
When(cur, at) ==
  LET gran == LevelGranularity(at.level)
      from == (cur \div gran) + (IF at.level = 0 THEN 0 ELSE 1)
  IN (IF at.level = 0 THEN cur ELSE from * gran) + ((at.slot - from) % Slots) * gran

NextEventTick(cur, ents) ==
  IF Linked(ents) = {} THEN -1 ELSE Least({When(cur, ents[i].at) : i \in Linked(ents)})

\* Faulty variant: the higher levels are not emptied on the way.
AdvanceToBlind(cur, target, ents) ==
  [tick |-> IF target > cur THEN target ELSE cur, ents |-> ents]

\* The entries of every higher-level slot the jump passes are placed anew
\* against the new time; level 0 is jumped over.
AdvanceTo(cur, target, ents) ==
  LET turn(t, l) == t \div LevelGranularity(l)
      passed(at) ==
        /\ at.level > 0
        /\ \E k \in 1..(turn(target, at.level) - turn(cur, at.level)) :
             at.slot = (turn(cur, at.level) + k) % Slots
  IN IF target <= cur THEN [tick |-> cur, ents |-> ents]
     ELSE [tick |-> target,
           ents |-> [i \in Idx |->
                       IF passed(ents[i].at)
                       THEN [ents[i] EXCEPT !.at = Place(target, due[ents[i].token])]
                       ELSE ents[i]]]

-----------------------------------------------------------------------------
(* Arm, Disarm, Stop, Start *)

Init ==
  /\ now = 0 /\ currentTick = 0
  /\ entries = [i \in Idx |-> [token |-> None, gen |-> 0, at |-> Off]]
  /\ armedCount = 0
  /\ running = FALSE /\ stopping = FALSE
  /\ worker = "none" /\ until = 0 /\ tokens = {}
  /\ handle = [a \in Armings |-> NoHandle] /\ due = [a \in Armings |-> 0]
  /\ fired = {} /\ disarmed = {}

\* notify_one and notify_all: there is one thread that waits on cv.
Notified(w) == IF w \in {"idle", "timed"} THEN "run" ELSE w

\* An entry of the free list, which holds those released; a new one if it is
\* empty.
AcquireEntry ==
  LET freeList == {i \in Idx : entries[i].gen # 0 /\ entries[i].gen % 2 = 0}
  IN IF freeList # {} THEN freeList ELSE {Least({i \in Idx : entries[i].gen = 0})}

\* The thread is woken only by a deadline that is now the soonest.
NotifyIfSoonest(next, deadline, w) ==
  IF next < 0 \/ next >= deadline THEN Notified(w) ELSE w

\* Arm: the first one starts the thread.  (A stale token, a stopped queue
\* or timers that are not enabled return no handle and change nothing.)
Arm(a, delay) ==
  /\ handle[a] = NoHandle /\ \A b \in 1..(a - 1) : handle[b] # NoHandle
  /\ ~stopping
  /\ LET deadline == now + delay
         wheel == AdvanceTo(currentTick, now, entries)
     IN \E i \in AcquireEntry :
          /\ entries' = [wheel.ents EXCEPT ![i] =
                          [token |-> a, gen |-> @.gen + 1,
                           at |-> Place(wheel.tick, deadline)]]
          /\ currentTick' = wheel.tick
          /\ handle' = [handle EXCEPT ![a] = [i |-> i, g |-> entries[i].gen + 1]]
          /\ due' = [due EXCEPT ![a] = deadline]
          /\ worker' = NotifyIfSoonest(NextEventTick(wheel.tick, entries'), deadline,
                                       IF running THEN worker ELSE "run")
  /\ running' = TRUE
  /\ armedCount' = armedCount + 1
  /\ UNCHANGED <<now, stopping, until, tokens, fired, disarmed>>

\* Unlink, the generation to even, ReleaseEntry.
Release(ents, S) ==
  [i \in Idx |-> IF i \in S
                 THEN [ents[i] EXCEPT !.token = None, !.gen = @ + 1, !.at = Off]
                 ELSE ents[i]]

Disarms(h) == entries[h.i].gen = h.g /\ h.g % 2 = 1

\* A handle that is stale removes nothing.
Disarm(a) ==
  /\ handle[a] # NoHandle /\ Disarms(handle[a])
  /\ entries' = Release(entries, {handle[a].i})
  /\ armedCount' = armedCount - 1
  /\ disarmed' = disarmed \cup {a}
  /\ UNCHANGED <<now, currentTick, running, stopping, worker, until, tokens,
                 handle, due, fired>>

\* Stop latches, wakes the thread and then joins it; `running` stays up.
Stop ==
  /\ ~stopping /\ stopping' = TRUE
  /\ worker' = Notified(worker)
  /\ UNCHANGED <<now, currentTick, entries, armedCount, running, until,
                 tokens, armings, fired>>

\* StartPool of the next pool, after the Join that stopped this one.
Start ==
  /\ stopping /\ worker \in {"none", "gone"} /\ stopping' = FALSE
  /\ UNCHANGED <<now, currentTick, entries, armedCount, running, worker,
                 until, tokens, armings, fired>>

-----------------------------------------------------------------------------
(* TimerQueue::Impl::Run *)

\* What is due in the current slot of level 0.
DueHere(wheel) ==
  {i \in Linked(wheel.ents) :
     /\ wheel.ents[i].at = [level |-> 0, slot |-> wheel.tick % Slots]
     /\ due[wheel.ents[i].token] <= wheel.tick}

\* One turn of the loop up to where it waits, goes round or lets go of m.
Run ==
  /\ worker = "run"
  /\ LET next == NextEventTick(currentTick, entries)
         wheel == AdvanceTo(currentTick, next, entries)
         here == DueHere(wheel)
     IN \/ /\ stopping /\ worker' = "gone"
           /\ UNCHANGED <<currentTick, entries, armedCount, until, tokens>>
        \/ /\ ~stopping /\ next < 0
           /\ currentTick' = now /\ worker' = "idle"
           /\ UNCHANGED <<entries, armedCount, until, tokens>>
        \/ /\ ~stopping /\ next > now
           /\ until' = next /\ worker' = "timed"
           /\ UNCHANGED <<currentTick, entries, armedCount, tokens>>
        \/ /\ ~stopping /\ 0 <= next /\ next <= now
           /\ \E S \in SUBSET here :
                /\ Cardinality(S) = Least({Batch, Cardinality(here)})
                /\ entries' = Release(wheel.ents, S)
                /\ armedCount' = armedCount - Cardinality(S)
                /\ tokens' = {wheel.ents[i].token : i \in S}
           /\ currentTick' = wheel.tick + (IF here = {} THEN 1 ELSE 0)
           /\ worker' = IF here = {} THEN "run" ELSE "fire"
           /\ UNCHANGED until
  /\ UNCHANGED <<now, running, stopping, armings, fired>>

\* CancelVia and the eject of one of the collected, without the lock.
Fire ==
  /\ worker = "fire"
  /\ \E a \in tokens :
       /\ fired' = fired \cup {a}
       /\ tokens' = tokens \ {a}
  /\ worker' = IF tokens' = {} THEN "run" ELSE "fire"
  /\ UNCHANGED <<now, currentTick, entries, armedCount, running, stopping,
                 until, armings>>

TimedOut ==
  /\ worker = "timed" /\ until <= now /\ worker' = "run"
  /\ UNCHANGED <<now, currentTick, entries, armedCount, running, stopping,
                 until, tokens, armings, fired>>

Tick ==
  /\ now < MaxNow /\ now' = now + 1
  /\ UNCHANGED <<currentTick, entries, armedCount, running, stopping, worker,
                 until, tokens, armings, fired>>

Next ==
  \/ \E a \in Armings : Disarm(a) \/ \E d \in Delays : Arm(a, d)
  \/ Stop \/ Start \/ Run \/ Fire \/ TimedOut \/ Tick

Spec == Init /\ [][Next]_vars
-----------------------------------------------------------------------------
TypeOK ==
  /\ now \in 0..MaxNow /\ currentTick \in 0..(MaxNow + 1)
  /\ \A i \in Idx :
       /\ entries[i].token \in Armings \cup {None}
       /\ entries[i].at \in {Off} \cup [level : 0..(Levels - 1), slot : 0..(Slots - 1)]
  /\ armedCount \in 0..MaxArms
  /\ worker \in {"none", "run", "idle", "timed", "fire", "gone"}
  /\ tokens \subseteq Armings

Armed == {a \in Armings : \E i \in Linked(entries) : entries[i].token = a}

\* An arming is in the wheel, being fired, fired or disarmed, and in one of
\* these only; its handle leads to its own entry as long as it is in the
\* wheel, however often entries are reused; and armedCount, what
\* PendingCount returns, is the number of entries in the wheel.
ArmingInOnePlace ==
  /\ \A a \in {b \in Armings : handle[b] # NoHandle} :
       Cardinality({p \in 1..4 : a \in <<Armed, tokens, fired, disarmed>>[p]}) = 1
  /\ \A a \in Armed : /\ entries[handle[a].i].token = a
                        /\ Disarms(handle[a])
  /\ armedCount = Cardinality(Linked(entries))

\* A timer is never early: what Run collects has reached its deadline.
NeverEarly == \A a \in tokens \cup fired : due[a] <= now

\* The wheel loses nothing: looked at now, it shows an event no later than
\* any armed deadline, however the cascades have moved the entries; only an
\* entry that Arm's own AdvanceTo has jumped over is met later, and then
\* within one turn of level 0.
WheelFinds ==
  \A a \in Armed :
    LET next == NextEventTick(currentTick, entries)
    IN IF due[a] >= currentTick THEN next <= due[a] ELSE next < currentTick + Slots

\* As the comment in Arm has it, the thread is woken when the new deadline is
\* the soonest, and arming behind an earlier one changes nothing it needs to
\* know: the thread does not sleep past what is armed.
SleepsInTime ==
  \A a \in Armed :
    /\ worker # "idle"
    /\ worker = "timed" => until <= due[a] \/ until < currentTick + Slots

\* As the comment on Start has it, the thread is there again for the next
\* Arm after Stop and Start.
ArmedHasWorker == Armed # {} /\ ~stopping => worker \notin {"none", "gone"}

\* As the comment on NextEventTick has it, waking late is not possible: an
\* armed timer's slot comes round no later than its deadline, or now.
NeverLate ==
  \A a \in Armed : NextEventTick(currentTick, entries) <=
                      IF due[a] < currentTick THEN currentTick ELSE due[a]
=============================================================================
