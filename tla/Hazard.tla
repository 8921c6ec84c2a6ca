------------------------------- MODULE Hazard -------------------------------
(***************************************************************************)
(* HazardDomain: hazard-pointer reclamation.  Every reader (a fiber, a     *)
(* worker, an external thread) owns a row of cells; a HazardGuard names in *)
(* them the pointers it has found, and Scan frees the retired pointers no  *)
(* cell names.  Retired pointers wait in their thread's bag, or, once the  *)
(* thread has exited, in the store of orphans.                             *)
(***************************************************************************)
EXTENDS Integers

CONSTANTS
  NumReaders,       \* readerCount
  kCellsPerReader,
  Threads,          \* threads that retire and scan
  Objects, Sources, \* nodes, and the atomic pointers that link them
  Null

VARIABLES
  src,          \* the pointer each source holds
  cell,         \* the table of cells, row by row
  protect,      \* a reader's Protect: its step, source, cell and loaded pointer
  held,         \* the pointer Protect has returned for a cell, or Null
  bag, orphans, \* retired pointers
  orphaned,     \* history: the pointers that have been orphans
  alive, freed,
  pc, scan      \* a thread's step; Scan's position and what it has seen named

hazardVars == <<src, cell, protect, held, bag, orphans, orphaned, alive, freed, pc, scan>>

Readers == 1..NumReaders
Cells == 1..(NumReaders * kCellsPerReader)
CellOf(r, k) == (r - 1) * kCellsPerReader + k
Idle == [pc |-> "idle", from |-> Null, cell |-> 0, ptr |-> Null]
NoScan == [at |-> 1, named |-> {}, node |-> Null]

\* Every object is linked, by one source.
Init ==
  /\ src \in [Sources -> Objects]
  /\ \A a, b \in Sources : src[a] = src[b] => a = b
  /\ \A o \in Objects : \E s \in Sources : src[s] = o
  /\ cell = [i \in Cells |-> Null]
  /\ protect = [r \in Readers |-> Idle]
  /\ held = [i \in Cells |-> Null]
  /\ bag = [t \in Threads |-> {}]
  /\ orphans = {} /\ orphaned = {}
  /\ alive = Threads
  /\ freed = [o \in Objects |-> 0]
  /\ pc = [t \in Threads |-> "idle"]
  /\ scan = [t \in Threads |-> NoScan]

Free(ptrs) == freed' = [o \in Objects |-> IF o \in ptrs THEN freed[o] + 1 ELSE freed[o]]

\* HazardGuard::Protect, load by store by load: load the source, name the
\* pointer in the cell, and load again.
ProtectLoads(r, k, s) ==
  /\ protect[r].pc = "idle"
  /\ protect' = [protect EXCEPT ![r] = [pc |-> "set", from |-> s, cell |-> CellOf(r, k),
                                        ptr |-> src[s]]]
  /\ held' = [held EXCEPT ![CellOf(r, k)] = Null]
  /\ UNCHANGED <<src, cell, bag, orphans, orphaned, alive, freed, pc, scan>>

Set(r) ==
  /\ protect[r].pc = "set"
  /\ cell' = [cell EXCEPT ![protect[r].cell] = protect[r].ptr]
  /\ protect' = [protect EXCEPT ![r].pc = "again"]
  /\ UNCHANGED <<src, held, bag, orphans, orphaned, alive, freed, pc, scan>>

\* A faulty build that trusts its first load.
ProtectBlindly(r) ==
  LET p == protect[r] IN
  /\ p.pc = "again"
  /\ protect' = [protect EXCEPT ![r] = Idle]
  /\ held' = [held EXCEPT ![p.cell] = p.ptr]
  /\ UNCHANGED <<src, cell, bag, orphans, orphaned, alive, freed, pc, scan>>

Protect(r) ==
  LET p == protect[r] IN
  /\ p.pc = "again"
  /\ IF src[p.from] = p.ptr
       THEN /\ protect' = [protect EXCEPT ![r] = Idle]
            /\ held' = [held EXCEPT ![p.cell] = p.ptr]
       ELSE /\ protect' = [protect EXCEPT ![r].pc = "set", ![r].ptr = src[p.from]]
            /\ UNCHANGED held
  /\ UNCHANGED <<src, cell, bag, orphans, orphaned, alive, freed, pc, scan>>

\* HazardGuard::Clear, and ~HazardGuard, which clears the row cell by cell; the
\* caller has done with the pointer.
Clear(r, k) ==
  /\ protect[r].pc = "idle" /\ cell[CellOf(r, k)] # Null
  /\ cell' = [cell EXCEPT ![CellOf(r, k)] = Null]
  /\ held' = [held EXCEPT ![CellOf(r, k)] = Null]
  /\ UNCHANGED <<src, protect, bag, orphans, orphaned, alive, freed, pc, scan>>

\* HazardGuard::Swap: two stores, the first of which leaves vb in both cells
\* and va in none; the reader still uses both.
SwapFirst(r, a, b) ==
  /\ protect[r].pc = "idle" /\ a # b
  /\ protect' = [protect EXCEPT ![r] = [pc |-> "swap", from |-> Null,
                                        cell |-> CellOf(r, b), ptr |-> cell[CellOf(r, a)]]]
  /\ cell' = [cell EXCEPT ![CellOf(r, a)] = cell[CellOf(r, b)]]
  /\ held' = [held EXCEPT ![CellOf(r, a)] = held[CellOf(r, b)],
                          ![CellOf(r, b)] = held[CellOf(r, a)]]
  /\ UNCHANGED <<src, bag, orphans, orphaned, alive, freed, pc, scan>>

SwapSecond(r) ==
  /\ protect[r].pc = "swap"
  /\ cell' = [cell EXCEPT ![protect[r].cell] = protect[r].ptr]
  /\ protect' = [protect EXCEPT ![r] = Idle]
  /\ UNCHANGED <<src, held, bag, orphans, orphaned, alive, freed, pc, scan>>

\* A writer unlinks what a source links and retires it.
Unlink(t, s) ==
  /\ t \in alive /\ pc[t] = "idle" /\ src[s] # Null
  /\ src' = [src EXCEPT ![s] = Null]
  /\ pc' = [pc EXCEPT ![t] = "retire"]
  /\ scan' = [scan EXCEPT ![t].node = src[s]]
  /\ UNCHANGED <<cell, protect, held, bag, orphans, orphaned, alive, freed>>

\* HazardDomain::Retire: into the bag, or among the orphans when a later
\* thread_local destructor retires after the bag has gone.
Retire(t) ==
  LET p == scan[t].node IN
  /\ pc[t] = "retire"
  /\ IF t \in alive
       THEN bag' = [bag EXCEPT ![t] = @ \cup {p}] /\ UNCHANGED <<orphans, orphaned>>
       ELSE /\ orphans' = orphans \cup {p} /\ orphaned' = orphaned \cup {p}
            /\ UNCHANGED bag
  /\ pc' = [pc EXCEPT ![t] = "idle"]
  /\ scan' = [scan EXCEPT ![t] = NoScan]
  /\ UNCHANGED <<src, cell, protect, held, alive, freed>>

\* HazardDomain::Scan, at the retire threshold and before a park: nothing to do
\* when the bag and the store are both empty.
Scan(t) ==
  /\ t \in alive /\ pc[t] = "idle"
  /\ bag[t] # {} \/ orphans # {}
  /\ pc' = [pc EXCEPT ![t] = "scan"]
  /\ UNCHANGED <<src, cell, protect, held, bag, orphans, orphaned, alive, freed, scan>>

\* The walk of the whole table, cell by cell.
Sees(t) ==
  LET i == scan[t].at IN
  /\ pc[t] = "scan" /\ i \in Cells
  /\ scan' = [scan EXCEPT ![t].at = i + 1,
                          ![t].named = IF cell[i] = Null THEN @ ELSE @ \cup {cell[i]}]
  /\ UNCHANGED <<src, cell, protect, held, bag, orphans, orphaned, alive, freed, pc>>

\* What the walk has not seen named is freed, from the own bag first ...
SweepBag(t) ==
  /\ pc[t] = "scan" /\ scan[t].at \notin Cells
  /\ Free(bag[t] \ scan[t].named)
  /\ bag' = [bag EXCEPT ![t] = @ \cap scan[t].named]
  /\ pc' = [pc EXCEPT ![t] = "orphans"]
  /\ UNCHANGED <<src, cell, protect, held, orphans, orphaned, alive, scan>>

\* ... and then, under the lock, from the store, by the same walk.
SweepOrphans(t) ==
  /\ pc[t] = "orphans"
  /\ Free(orphans \ scan[t].named)
  /\ orphans' = orphans \cap scan[t].named
  /\ pc' = [pc EXCEPT ![t] = "idle"]
  /\ scan' = [scan EXCEPT ![t] = NoScan]
  /\ UNCHANGED <<src, cell, protect, held, bag, orphaned, alive>>

\* ~RetireBatch, as its thread exits, and AdoptOrphans.
AdoptOrphans(t) ==
  /\ t \in alive /\ pc[t] \in {"idle", "retire"}
  /\ alive' = alive \ {t}
  /\ orphans' = orphans \cup bag[t]
  /\ orphaned' = orphaned \cup bag[t]
  /\ bag' = [bag EXCEPT ![t] = {}]
  /\ UNCHANGED <<src, cell, protect, held, freed, pc, scan>>

ReaderNext ==
  \E r \in Readers :
    \/ Set(r) \/ Protect(r)
    \/ \E k \in 1..kCellsPerReader :
         Clear(r, k) \/ \E s \in Sources : ProtectLoads(r, k, s)

ThreadNext ==
  \E t \in Threads :
    \/ Retire(t) \/ Scan(t) \/ Sees(t) \/ SweepBag(t) \/ SweepOrphans(t)
    \/ AdoptOrphans(t)
    \/ \E s \in Sources : Unlink(t, s)

Next == ReaderNext \/ ThreadNext

Spec == Init /\ [][Next]_hazardVars

\* With readers that also swap two of their cells.
SwapNext ==
  \E r \in Readers : \/ SwapSecond(r)
                     \/ \E a, b \in 1..kCellsPerReader : SwapFirst(r, a, b)

SpecSwapping == Init /\ [][Next \/ SwapNext]_hazardVars

-----------------------------------------------------------------------------
\* The state is of its type.
TypeOK ==
  /\ src \in [Sources -> Objects \cup {Null}]
  /\ cell \in [Cells -> Objects \cup {Null}] /\ held \in [Cells -> Objects \cup {Null}]
  /\ protect \in [Readers -> [pc : {"idle", "set", "again", "swap"},
                              from : Sources \cup {Null}, cell : Cells \cup {0},
                              ptr : Objects \cup {Null}]]
  /\ bag \in [Threads -> SUBSET Objects]
  /\ orphans \subseteq orphaned /\ orphaned \subseteq Objects
  /\ alive \subseteq Threads /\ freed \in [Objects -> Nat]
  /\ pc \in [Threads -> {"idle", "retire", "scan", "orphans"}]
  /\ scan \in [Threads -> [at : 1..(NumReaders * kCellsPerReader + 1),
                           named : SUBSET Objects, node : Objects \cup {Null}]]

Freed == {o \in Objects : freed[o] > 0}
Held == {held[i] : i \in Cells} \ {Null}

\* What Protect has returned is not freed before its cell is cleared, whatever
\* the scanners did between its two loads, for pointers whose retiring thread
\* lives.
ProtectedIsNotFreed == Held \cap Freed \subseteq orphaned

\* Where an object is: linked, unlinked by a thread that is about to retire it,
\* in a bag, in the store, or freed.
Places(o) ==
  LET by(kind, S) == {<<kind, x>> : x \in S}
      here(b) == {y \in {Null} : b}
  IN UNION {by("source", {s \in Sources : src[s] = o}),
            by("node", {t \in Threads : scan[t].node = o}),
            by("bag", {t \in Threads : o \in bag[t]}),
            by("store", here(o \in orphans)), by("freed", here(freed[o] > 0))}

\* A retired pointer is in one bag or in the store until it is freed, and is
\* freed once.
RetiredOnce ==
  \A o \in Objects : freed[o] <= 1 /\ LET at == Places(o) IN \E p \in at : at = {p}

\* The comment on Scan's sweep of the orphans: "Nothing is freed early: an
\* object still named by a live reader stays in the store".
NothingIsFreedEarly == Held \cap Freed = {}
=============================================================================
