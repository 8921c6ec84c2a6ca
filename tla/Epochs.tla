------------------------------- MODULE Epochs -------------------------------
(***************************************************************************)
(* EpochManager: epoch-based reclamation.  A reader announces the global   *)
(* epoch in its thread's slot for as long as its EpochGuard lives; what a  *)
(* writer has unlinked it retires into its thread's bag, stamped with the  *)
(* epoch; Tick advances the epoch and frees the entries of the own bag,    *)
(* and of the store of orphans that dead threads leave, which are older    *)
(* than every announcement.                                                *)
(*                                                                         *)
(* Loads and stores of different threads interleave one by one.  A guard   *)
(* announces with a release store and no fence follows it: in SpecBuffered *)
(* the store may reach the other threads after later loads of its own.     *)
(***************************************************************************)
EXTENDS Integers, FiniteSets, FiniteSetsExt

CONSTANTS
  Threads,      \* threads with an epoch slot (thread_id)
  Objects,      \* what the guarded structure links
  MaxEpoch      \* bound on globalEpoch

VARIABLES
  globalEpoch,
  localEpoch,   \* the slot of a thread as the others see it, or None (SIZE_MAX)
  delayed,      \* the announcement in a thread's store buffer, or None
  guard,        \* "out", "loaded" (epoch read, not stored), "in"
  seen,         \* the epoch a guard's constructor has read
  held,         \* the objects a guarded reader has reached
  linked,       \* the objects the structure links
  bag, orphans, \* retired entries
  alive, freed,
  pc, tick      \* the writer's step, and the locals of RetirePtr and TryReclaim

epochVars == <<globalEpoch, localEpoch, delayed, guard, seen, held, linked, bag,
               orphans, alive, freed, pc, tick>>

None == -1
Entry == [ptr : Objects, epoch : 0..MaxEpoch]
NoTick == [epoch |-> 0, ptr |-> None, left |-> {}]

Init ==
  /\ globalEpoch = 0
  /\ localEpoch = [t \in Threads |-> None]
  /\ delayed = [t \in Threads |-> None]
  /\ guard = [t \in Threads |-> "out"]
  /\ seen = [t \in Threads |-> 0]
  /\ held = [t \in Threads |-> {}]
  /\ linked = Objects
  /\ bag = [t \in Threads |-> {}]
  /\ orphans = {}
  /\ alive = Threads
  /\ freed = [o \in Objects |-> 0]
  /\ pc = [t \in Threads |-> "idle"]
  /\ tick = [t \in Threads |-> NoTick]

Free(entries) ==
  freed' = [o \in Objects |-> freed[o] + Cardinality({e \in entries : e.ptr = o})]

\* SlotEpochGuard's constructor, its load and its store.
EpochGuard(t) ==
  /\ t \in alive /\ guard[t] = "out"
  /\ guard' = [guard EXCEPT ![t] = "loaded"]
  /\ seen' = [seen EXCEPT ![t] = globalEpoch]
  /\ UNCHANGED <<globalEpoch, localEpoch, delayed, held, linked, bag, orphans,
                 alive, freed, pc, tick>>

Announce(t) ==
  /\ guard[t] = "loaded"
  /\ guard' = [guard EXCEPT ![t] = "in"]
  /\ localEpoch' = [localEpoch EXCEPT ![t] = seen[t]]
  /\ UNCHANGED <<globalEpoch, delayed, seen, held, linked, bag, orphans, alive, freed,
                 pc, tick>>

\* The same store, left in the store buffer and drained from it later.
AnnounceLate(t) ==
  /\ guard[t] = "loaded"
  /\ guard' = [guard EXCEPT ![t] = "in"]
  /\ delayed' = [delayed EXCEPT ![t] = seen[t]]
  /\ UNCHANGED <<globalEpoch, localEpoch, seen, held, linked, bag, orphans, alive,
                 freed, pc, tick>>

Drain(t) ==
  /\ delayed[t] # None
  /\ localEpoch' = [localEpoch EXCEPT ![t] = delayed[t]]
  /\ delayed' = [delayed EXCEPT ![t] = None]
  /\ UNCHANGED <<globalEpoch, guard, seen, held, linked, bag, orphans, alive, freed,
                 pc, tick>>

\* The guarded traversal reaches a linked object.
Visit(t, o) ==
  /\ guard[t] = "in" /\ o \in linked
  /\ held' = [held EXCEPT ![t] = @ \cup {o}]
  /\ UNCHANGED <<globalEpoch, localEpoch, delayed, guard, seen, linked, bag, orphans,
                 alive, freed, pc, tick>>

\* ~SlotEpochGuard: the slot goes back to SIZE_MAX.
Leave(t) ==
  /\ guard[t] = "in"
  /\ guard' = [guard EXCEPT ![t] = "out"]
  /\ held' = [held EXCEPT ![t] = {}]
  /\ localEpoch' = [localEpoch EXCEPT ![t] = None]
  /\ delayed' = [delayed EXCEPT ![t] = None]
  /\ UNCHANGED <<globalEpoch, seen, linked, bag, orphans, alive, freed, pc, tick>>

\* A writer unlinks an object and then asks for the epoch to retire it with.
Unlink(t, o) ==
  /\ t \in alive /\ pc[t] = "idle" /\ o \in linked
  /\ linked' = linked \ {o}
  /\ pc' = [pc EXCEPT ![t] = "retire"]
  /\ tick' = [tick EXCEPT ![t].ptr = o]
  /\ UNCHANGED <<globalEpoch, localEpoch, delayed, guard, seen, held, bag, orphans,
                 alive, freed>>

CurrentEpoch(t) ==
  /\ pc[t] = "retire"
  /\ pc' = [pc EXCEPT ![t] = "retirePtr"]
  /\ tick' = [tick EXCEPT ![t].epoch = globalEpoch]
  /\ UNCHANGED <<globalEpoch, localEpoch, delayed, guard, seen, held, linked, bag,
                 orphans, alive, freed>>

\* A retire from a thread whose bag is gone orphans the entry at once.
RetirePtr(t) ==
  LET e == [ptr |-> tick[t].ptr, epoch |-> tick[t].epoch] IN
  /\ pc[t] = "retirePtr"
  /\ IF t \in alive
       THEN bag' = [bag EXCEPT ![t] = @ \cup {e}] /\ UNCHANGED orphans
       ELSE orphans' = orphans \cup {e} /\ UNCHANGED bag
  /\ pc' = [pc EXCEPT ![t] = "idle"]
  /\ tick' = [tick EXCEPT ![t] = NoTick]
  /\ UNCHANGED <<globalEpoch, localEpoch, delayed, guard, seen, held, linked, alive,
                 freed>>

\* Tick: AdvanceEpoch's load and its single compare-and-swap, which another
\* advancer may win.
Tick(t) ==
  /\ t \in alive /\ pc[t] = "idle" /\ globalEpoch < MaxEpoch
  /\ pc' = [pc EXCEPT ![t] = "advance"]
  /\ tick' = [tick EXCEPT ![t].epoch = globalEpoch]
  /\ UNCHANGED <<globalEpoch, localEpoch, delayed, guard, seen, held, linked, bag,
                 orphans, alive, freed>>

AdvanceEpoch(t) ==
  /\ pc[t] = "advance"
  /\ globalEpoch' = IF globalEpoch = tick[t].epoch THEN globalEpoch + 1 ELSE globalEpoch
  /\ pc' = [pc EXCEPT ![t] = "tryReclaim"]
  /\ tick' = [tick EXCEPT ![t] = NoTick]
  /\ UNCHANGED <<localEpoch, delayed, guard, seen, held, linked, bag, orphans, alive,
                 freed>>

\* TryReclaim returns when it has nothing to look at; else MinActiveEpoch
\* starts from the global epoch.
TryReclaim(t) ==
  /\ pc[t] = "tryReclaim"
  /\ IF bag[t] = {} /\ orphans = {}
       THEN pc' = [pc EXCEPT ![t] = "idle"] /\ UNCHANGED tick
       ELSE /\ pc' = [pc EXCEPT ![t] = "scan"]
            /\ tick' = [tick EXCEPT ![t] = [NoTick EXCEPT !.epoch = globalEpoch,
                                                          !.left = Threads]]
  /\ UNCHANGED <<globalEpoch, localEpoch, delayed, guard, seen, held, linked, bag,
                 orphans, alive, freed>>

\* MinActiveEpoch's loop over the participants' slots.
MinActiveEpoch(t) ==
  \E u \in tick[t].left :
    LET e == localEpoch[u] IN
    /\ pc[t] = "scan"
    /\ tick' = [tick EXCEPT ![t].left = @ \ {u},
                            ![t].epoch = IF e # None /\ e < @ THEN e ELSE @]
    /\ UNCHANGED <<globalEpoch, localEpoch, delayed, guard, seen, held, linked, bag,
                   orphans, alive, freed, pc>>

\* A faulty build that also frees what was retired in the oldest announced epoch.
SafeInclusive(e, safeEpoch) == e.epoch <= safeEpoch

\* An entry no announced reader can have reached.
Safe(e, safeEpoch) == e.epoch < safeEpoch

SweepBag(t) ==
  LET safe == {e \in bag[t] : Safe(e, tick[t].epoch)} IN
  /\ pc[t] = "scan" /\ tick[t].left = {}
  /\ Free(safe)
  /\ bag' = [bag EXCEPT ![t] = @ \ safe]
  /\ pc' = [pc EXCEPT ![t] = "orphans"]
  /\ UNCHANGED <<globalEpoch, localEpoch, delayed, guard, seen, held, linked, orphans,
                 alive, tick>>

\* SweepEpochOrphans, under its lock, with the epoch computed before it.
SweepEpochOrphans(t) ==
  LET safe == {e \in orphans : Safe(e, tick[t].epoch)} IN
  /\ pc[t] = "orphans"
  /\ Free(safe)
  /\ orphans' = orphans \ safe
  /\ pc' = [pc EXCEPT ![t] = "idle"]
  /\ tick' = [tick EXCEPT ![t] = NoTick]
  /\ UNCHANGED <<globalEpoch, localEpoch, delayed, guard, seen, held, linked, bag, alive>>

\* A faulty build whose OrphanEpochEntries forgets v.clear().
BagDiesKept(t) ==
  /\ t \in alive /\ pc[t] \in {"idle", "retire"} /\ guard[t] = "out"
  /\ alive' = alive \ {t}
  /\ orphans' = orphans \cup bag[t]
  /\ UNCHANGED <<globalEpoch, localEpoch, delayed, guard, seen, held, linked, bag,
                 freed, pc, tick>>

\* ~EpochRetireBatch, as its thread exits: the bag's entries become orphans.
\* A later thread_local destructor of that thread may still retire.
BagDies(t) ==
  /\ t \in alive /\ pc[t] \in {"idle", "retire"} /\ guard[t] = "out"
  /\ alive' = alive \ {t}
  /\ orphans' = orphans \cup bag[t]
  /\ bag' = [bag EXCEPT ![t] = {}]
  /\ UNCHANGED <<globalEpoch, localEpoch, delayed, guard, seen, held, linked, freed,
                 pc, tick>>

Next ==
  \E t \in Threads :
    \/ EpochGuard(t) \/ Announce(t) \/ Leave(t)
    \/ \E o \in Objects : Visit(t, o) \/ Unlink(t, o)
    \/ CurrentEpoch(t) \/ RetirePtr(t)
    \/ Tick(t) \/ AdvanceEpoch(t) \/ TryReclaim(t) \/ MinActiveEpoch(t)
    \/ SweepBag(t) \/ SweepEpochOrphans(t) \/ BagDies(t)

Spec == Init /\ [][Next]_epochVars

SpecBuffered ==
  Init /\ [][Next \/ \E t \in Threads : AnnounceLate(t) \/ Drain(t)]_epochVars

-----------------------------------------------------------------------------
\* The state is of its type.
TypeOK ==
  /\ globalEpoch \in 0..MaxEpoch
  /\ localEpoch \in [Threads -> 0..MaxEpoch \cup {None}]
  /\ delayed \in [Threads -> 0..MaxEpoch \cup {None}]
  /\ guard \in [Threads -> {"out", "loaded", "in"}]
  /\ seen \in [Threads -> 0..MaxEpoch]
  /\ held \in [Threads -> SUBSET Objects]
  /\ linked \subseteq Objects
  /\ bag \in [Threads -> SUBSET Entry] /\ orphans \subseteq Entry
  /\ alive \subseteq Threads /\ freed \in [Objects -> Nat]
  /\ pc \in [Threads -> {"idle", "retire", "retirePtr", "advance", "tryReclaim",
                         "scan", "orphans"}]
  /\ tick \in [Threads -> [epoch : 0..MaxEpoch, ptr : Objects \cup {None},
                           left : SUBSET Threads]]

\* TryReclaim frees nothing a live guard has reached, whatever epoch the guard
\* read before it announced and however far the global epoch has run ahead.
GuardedIsNotFreed == \A t \in Threads : \A o \in held[t] : freed[o] = 0

\* A retired pointer is in one bag or among the orphans until it is freed, and
\* is freed once: a thread's exit neither loses it nor leaves it twice.
RetiredInOnePlace ==
  \A o \in Objects \ linked :
    LET of(S) == Cardinality({e \in S : e.ptr = o}) IN
    1 = freed[o] + of(orphans) + Cardinality({t \in Threads : tick[t].ptr = o})
          + FoldSet(LAMBDA t, n : of(bag[t]) + n, 0, Threads)
=============================================================================
