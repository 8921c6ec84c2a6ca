------------------------------ MODULE MCMemory ------------------------------
(***************************************************************************)
(* How memory and fibers come back, for TLC: epochs, hazard pointers, the  *)
(* registry of fibers with their debts, and the slab pool.  The initial    *)
(* state chooses one of Parts and the behaviour is that component's.       *)
(***************************************************************************)
EXTENDS Epochs, Sequences, Functions, TLC

CONSTANTS
  Parts, Null,
  NumReaders, kCellsPerReader, Nodes, Sources,
  Fibers, NumWorkers, NumExternals, activeCapacity, AnyHolder, MaxDebts, MaxMoves,
  memSlots, kGrowSlots, BATCH, MaxExtents

ASSUME MemoryAssumption ==
  /\ {MaxEpoch, NumExternals, MaxDebts, MaxMoves, MaxExtents} \subseteq Nat
  /\ {NumReaders, kCellsPerReader, NumWorkers, activeCapacity, kGrowSlots, BATCH}
       \subseteq Nat \ {0}
  /\ None \notin Objects /\ Null \notin Nodes
  /\ Cardinality(Sources) = Cardinality(Nodes)

VARIABLES
  part,
  src, cell, protect, hazardHeld, hazardBag, hazardOrphans, orphaned,
  hazardAlive, hazardFreed, hazardPc, scan,                            \* hazard
  available, cache, status, on, creditors, owed, debts, holderOf, inbound,
  jobs, pending, reclaimQueued, task, runner, released, moves,         \* registry
  next, sharedHead, bumpNext, extents, extentBump, slabCache, used     \* slab

hazardVars == <<src, cell, protect, hazardHeld, hazardBag, hazardOrphans, orphaned,
                hazardAlive, hazardFreed, hazardPc, scan>>
registryVars == <<available, cache, status, on, creditors, owed, debts, holderOf,
                  inbound, jobs, pending, reclaimQueued, task, runner, released, moves>>
slabVars == <<next, sharedHead, bumpNext, extents, extentBump, slabCache, used>>
vars == <<part, epochVars, hazardVars, registryVars, slabVars>>

Pointers == INSTANCE Hazard WITH Objects <- Nodes, held <- hazardHeld,
              bag <- hazardBag, orphans <- hazardOrphans, alive <- hazardAlive,
              freed <- hazardFreed, pc <- hazardPc
Registry == INSTANCE FiberRegistry
Slab == INSTANCE SlabPool WITH NumClasses <- Len(memSlots), cache <- slabCache

MCInit ==
  /\ part \in Parts
  /\ Init /\ Pointers!Init /\ Registry!Init /\ Slab!Init
  /\ part # "hazard" => src = CHOOSE f \in [Sources -> Nodes] : IsInjective(f)

EpochsDo(A) == part = "epochs" /\ A /\ UNCHANGED <<part, hazardVars, registryVars, slabVars>>
HazardDoes(A) == part = "hazard" /\ A /\ UNCHANGED <<part, epochVars, registryVars, slabVars>>
RegistryDoes(A) == part = "registry" /\ A /\ UNCHANGED <<part, epochVars, hazardVars, slabVars>>
SlabDoes(A) == part = "slab" /\ A /\ UNCHANGED <<part, epochVars, hazardVars, registryVars>>

MCNext ==
  \/ EpochsDo(Next) \/ HazardDoes(Pointers!Next)
  \/ RegistryDoes(Registry!Next) \/ SlabDoes(Slab!Next)

MCSpec == MCInit /\ [][MCNext]_vars

\* The slots of the slabs, smallest class first.
MCmemSlots == <<1, 3>>

-----------------------------------------------------------------------------
TypesOK ==
  CASE part = "epochs"   -> TypeOK
    [] part = "hazard"   -> Pointers!TypeOK
    [] part = "registry" -> Registry!TypeOK
    [] part = "slab"     -> Slab!TypeOK

\* Hazard: what Protect has returned is not freed before its cell is cleared,
\* whatever the scanners did between its two loads, for pointers whose retiring
\* thread lives.
ProtectedIsNotFreed == Pointers!ProtectedIsNotFreed

\* EpochManager, Hazard: a retired pointer is in one bag or among the orphans
\* until it is freed, and is freed once: a thread's exit neither loses it nor
\* leaves it twice.  (The state of whichever part runs is of its type besides.)
RetiredOnce ==
  /\ TypesOK
  /\ RetiredInOnePlace
  /\ Pointers!RetiredOnce

\* FiberRegistry: a fiber is in the pool, in one cache, running, on one chain or
\* with one holder; a debt is released once, by the holder it names; a debt on
\* the stack has a sweep coming.  SlabPool: every slot that has left its slab
\* is in use or on exactly one list, and the counts of the lists are right.
FibersAndSlotsKept ==
  /\ Registry!FiberInOnePlace /\ Registry!DebtsReleasedByHolder /\ Registry!PendingIsSwept
  /\ Slab!SlotsAccounted

\* Hazard, the comment on Scan's sweep of the orphans: "Nothing is freed early:
\* an object still named by a live reader stays in the store".
NothingIsFreedEarly == Pointers!NothingIsFreedEarly
=============================================================================
