----------------------------- MODULE TaskDeque -----------------------------
(***************************************************************************)
(* The work-stealing deque of a worker (include/TaskDeque.h): the owner    *)
(* pushes and pops at bottom_, thieves take at top_, and a full ring is    *)
(* replaced by one twice its size while thieves may still read the old.    *)
(*                                                                         *)
(* One step is one access to memory another thread can change; accesses    *)
(* are sequentially consistent, which is what the two seq_cst fences and   *)
(* the compare-exchanges are there for.  Tasks are numbered in the order   *)
(* they are pushed.                                                        *)
(***************************************************************************)
EXTENDS Integers, Sequences, SequencesExt, Functions

CONSTANTS
  Thieves,
  InitCapacity,
  MaxPush,       \* bound: tasks pushed in all
  MaxBatch       \* bound: tasks in one push_bottom_batch

VARIABLES
  top, bottom,   \* top_, bottom_
  ring,          \* ring_: which ring is published, counted from 0
  slots,         \* the slots of every ring made so far; old ones are retired
  owner,         \* the owner's locals: step, n, t
  thief,         \* a thief's locals: step, t, r, item
  pushed,        \* tasks pushed
  taken          \* tasks taken, in the order they were

vars == <<top, bottom, ring, slots, owner, thief, pushed, taken>>

Capacity(r) == InitCapacity * 2 ^ r
Slot(r, i) == slots[r + 1][i % Capacity(r)]

MakeRing(r) == [i \in 0..Capacity(r) - 1 |-> 0]

Idle == [step |-> "idle", n |-> 0, t |-> 0]
NoSteal == [step |-> "idle", t |-> 0, r |-> 0, item |-> 0]

TypeOK ==
  /\ {top, bottom} \subseteq 0..MaxPush
  /\ Len(slots) = ring + 1
  /\ \A r \in 0..ring : slots[r + 1] \in [0..Capacity(r) - 1 -> 0..MaxPush]
  /\ owner \in [step : {"idle", "push", "publish", "lower", "look", "cas", "restore"},
                n : 0..MaxBatch, t : 0..MaxPush]
  /\ thief \in [Thieves -> [step : {"idle", "bottom", "ring", "slot", "cas"},
                            t : 0..MaxPush, r : 0..ring, item : 0..MaxPush]]
  /\ pushed \in 0..MaxPush /\ ToSet(taken) \subseteq 1..pushed

Init ==
  /\ top = 0 /\ bottom = 0
  /\ ring = 0 /\ slots = <<MakeRing(0)>>
  /\ owner = Idle /\ thief = [h \in Thieves |-> NoSteal]
  /\ pushed = 0 /\ taken = <<>>

-----------------------------------------------------------------------------
(* push_bottom (n = 1) and push_bottom_batch *)

push_bottom(n) ==
  /\ owner = Idle /\ pushed + n <= MaxPush
  /\ owner' = [step |-> "push", n |-> n, t |-> top]
  /\ UNCHANGED <<top, bottom, ring, slots, thief, pushed, taken>>

Full == bottom + owner.n - owner.t > Capacity(ring)

\* Faulty variant: the copy leaves out the oldest task.
growShort ==
  /\ owner.step = "push" /\ Full
  /\ slots' = Append(slots,
       [i \in 0..Capacity(ring + 1) - 1 |->
          IF \E j \in owner.t + 1..bottom - 1 : i = j % Capacity(ring + 1)
          THEN Slot(ring, CHOOSE j \in owner.t + 1..bottom - 1 :
                            i = j % Capacity(ring + 1))
          ELSE 0])
  /\ ring' = ring + 1
  /\ UNCHANGED <<top, bottom, owner, thief, pushed, taken>>

\* The tasks from t to bottom_ are copied to a ring twice the size, which is
\* then published.  Nobody sees the new ring before and only the owner writes
\* the old one.
grow ==
  /\ owner.step = "push" /\ Full
  /\ slots' = Append(slots,
       [i \in 0..Capacity(ring + 1) - 1 |->
          IF \E j \in owner.t..bottom - 1 : i = j % Capacity(ring + 1)
          THEN Slot(ring, CHOOSE j \in owner.t..bottom - 1 :
                            i = j % Capacity(ring + 1))
          ELSE 0])
  /\ ring' = ring + 1
  /\ UNCHANGED <<top, bottom, owner, thief, pushed, taken>>

StoreSlots ==
  /\ owner.step = "push" /\ ~Full
  /\ slots' = [slots EXCEPT ![ring + 1] =
       [i \in DOMAIN @ |->
          IF \E k \in 0..owner.n - 1 : i = (bottom + k) % Capacity(ring)
          THEN pushed + 1 + CHOOSE k \in 0..owner.n - 1 :
                              i = (bottom + k) % Capacity(ring)
          ELSE @[i]]]
  /\ owner' = [owner EXCEPT !.step = "publish"]
  /\ UNCHANGED <<top, bottom, ring, thief, pushed, taken>>

PublishBottom ==
  /\ owner.step = "publish"
  /\ bottom' = bottom + owner.n
  /\ pushed' = pushed + owner.n
  /\ owner' = Idle
  /\ UNCHANGED <<top, ring, slots, thief, taken>>

-----------------------------------------------------------------------------
(* pop_bottom; on a deque that looks empty it returns at once *)

pop_bottom ==
  /\ owner = Idle /\ top < bottom
  /\ owner' = [owner EXCEPT !.step = "lower"]
  /\ UNCHANGED <<top, bottom, ring, slots, thief, pushed, taken>>

LowerBottom ==
  /\ owner.step = "lower"
  /\ bottom' = bottom - 1
  /\ owner' = [owner EXCEPT !.step = "look"]
  /\ UNCHANGED <<top, ring, slots, thief, pushed, taken>>

\* top_ once more: more than one task left, the last one, or none.
LookAgain ==
  /\ owner.step = "look"
  /\ \/ /\ top < bottom
        /\ taken' = Append(taken, Slot(ring, bottom))
        /\ owner' = Idle
     \/ /\ top = bottom
        /\ owner' = [owner EXCEPT !.step = "cas"]
        /\ taken' = taken
     \/ /\ top > bottom
        /\ owner' = [owner EXCEPT !.step = "restore", !.t = top]
        /\ taken' = taken
  /\ UNCHANGED <<top, bottom, ring, slots, thief, pushed>>

\* The owner and the thieves race for the last task.
PopLast ==
  /\ owner.step = "cas"
  /\ \/ top = bottom /\ top' = top + 1 /\ taken' = Append(taken, Slot(ring, bottom))
     \/ top # bottom /\ UNCHANGED <<top, taken>>
  /\ owner' = [owner EXCEPT !.step = "restore", !.t = bottom + 1]
  /\ UNCHANGED <<bottom, ring, slots, thief, pushed>>

RestoreBottom ==
  /\ owner.step = "restore"
  /\ bottom' = owner.t
  /\ owner' = Idle
  /\ UNCHANGED <<top, ring, slots, thief, pushed, taken>>

-----------------------------------------------------------------------------
(* steal, steal_if *)

StealStep(h, step, next) == thief[h].step = step /\ thief' = [thief EXCEPT ![h] = next]

steal(h) ==
  /\ StealStep(h, "idle", [NoSteal EXCEPT !.step = "bottom", !.t = top])
  /\ UNCHANGED <<top, bottom, ring, slots, owner, pushed, taken>>

StealBottom(h) ==
  /\ StealStep(h, "bottom",
               IF thief[h].t < bottom THEN [thief[h] EXCEPT !.step = "ring"] ELSE NoSteal)
  /\ UNCHANGED <<top, bottom, ring, slots, owner, pushed, taken>>

StealRing(h) ==
  /\ StealStep(h, "ring", [thief[h] EXCEPT !.step = "slot", !.r = ring])
  /\ UNCHANGED <<top, bottom, ring, slots, owner, pushed, taken>>

\* steal_if's predicate may turn the task down by its tag.
StealSlot(h) ==
  /\ \/ StealStep(h, "slot", [thief[h] EXCEPT !.step = "cas",
                                              !.item = Slot(thief[h].r, thief[h].t)])
     \/ StealStep(h, "slot", NoSteal)
  /\ UNCHANGED <<top, bottom, ring, slots, owner, pushed, taken>>

StealCas(h) ==
  /\ StealStep(h, "cas", NoSteal)
  /\ \/ /\ top = thief[h].t
        /\ top' = top + 1
        /\ taken' = Append(taken, thief[h].item)
     \/ top # thief[h].t /\ UNCHANGED <<top, taken>>
  /\ UNCHANGED <<bottom, ring, slots, owner, pushed>>

-----------------------------------------------------------------------------
OwnerStep ==
  \/ \E n \in 1..MaxBatch : push_bottom(n)
  \/ grow \/ StoreSlots \/ PublishBottom
  \/ pop_bottom \/ LowerBottom \/ LookAgain \/ PopLast \/ RestoreBottom

ThiefStep(h) ==
  steal(h) \/ StealBottom(h) \/ StealRing(h) \/ StealSlot(h) \/ StealCas(h)

Next == OwnerStep \/ \E h \in Thieves : ThiefStep(h)

Spec == Init /\ [][Next]_vars

-----------------------------------------------------------------------------
\* No task is taken twice, by the owner and a thief or by two thieves, and
\* none is made up from a slot of a ring that has been replaced or reused.
TakenOnce == IsInjective(taken) /\ 0 \notin ToSet(taken)

\* Between two calls of the owner every task pushed has been taken or is in
\* the ring between top_ and bottom_, in the order of the pushes: growing
\* loses none and pop_bottom gives back what a thief was first to take.
NothingLost ==
  owner = Idle =>
    LET held == [i \in 1..bottom - top |-> Slot(ring, top + i - 1)]
    IN /\ top <= bottom
       /\ ToSet(held) = 1..pushed \ ToSet(taken)
       /\ \A i \in 1..Len(held) - 1 : held[i] < held[i + 1]
=============================================================================
