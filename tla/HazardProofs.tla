---------------------------- MODULE HazardProofs ----------------------------
(***************************************************************************)
(* Hazard pointers for any number of readers, cells, threads and objects:  *)
(* what a Protect has returned is not freed, and an object is freed once.  *)
(*                                                                         *)
(* A walk that has passed a reader's cell does not see what the reader     *)
(* names in it afterwards.  It need not: Protect returns a pointer only    *)
(* after loading it a second time, so the object was still linked then,    *)
(* and what is linked is in nobody's bag.  ScanIsSafe says so for the bag  *)
(* of the thread that walks; nothing of the kind holds for the orphans.    *)
(***************************************************************************)
EXTENDS Hazard, TLAPS

\* What the declarations of HazardDomain say of the constants.
Declared ==
  /\ NumReaders \in Nat /\ kCellsPerReader \in Nat
  /\ Null \notin Objects

Row(r) == {CellOf(r, k) : k \in 1..kCellsPerReader}
Protecting(r) == protect[r].pc \in {"set", "again"}

Typed ==
  /\ src \in [Sources -> Objects \cup {Null}]
  /\ cell \in [Cells -> Objects \cup {Null}] /\ held \in [Cells -> Objects \cup {Null}]
  /\ protect \in [Readers -> [pc : {"idle", "set", "again"}, from : Sources \cup {Null},
                              cell : Nat, ptr : Objects \cup {Null}]]
  /\ \A r \in Readers :
       Protecting(r) => protect[r].from \in Sources /\ protect[r].cell \in Row(r)
  /\ bag \in [Threads -> SUBSET Objects]
  /\ orphans \subseteq orphaned /\ orphaned \subseteq Objects
  /\ alive \subseteq Threads /\ freed \in [Objects -> Nat]
  /\ pc \in [Threads -> {"idle", "retire", "scan", "orphans"}]
  /\ scan \in [Threads -> [at : Nat, named : SUBSET Objects, node : Objects \cup {Null}]]
  /\ \A t \in Threads : /\ scan[t].at \in 1..(NumReaders * kCellsPerReader + 1)
                        /\ pc[t] \in {"idle", "retire"} => scan[t].at = 1
                        /\ pc[t] = "retire" <=> scan[t].node # Null

\* What a Protect has returned is in its cell, and a Protect that is under way
\* has returned nothing yet.
HeldIsNamed ==
  /\ \A i \in Cells : held[i] # Null => cell[i] = held[i]
  /\ \A r \in Readers :
       /\ Protecting(r) => held[protect[r].cell] = Null
       /\ protect[r].pc = "again" => cell[protect[r].cell] = protect[r].ptr

\* <<kind, x>> is one of Places(o).
IsAt(o, kind, x) ==
  \/ kind = "source" /\ x \in Sources /\ src[x] = o
  \/ kind = "node" /\ x \in Threads /\ scan[x].node = o
  \/ kind = "bag" /\ x \in Threads /\ o \in bag[x]
  \/ kind = "store" /\ x = Null /\ o \in orphans
  \/ kind = "freed" /\ x = Null /\ freed[o] > 0

OnlyAt(o, kind, x) == \A k, y : IsAt(o, k, y) <=> k = kind /\ y = x

OnePlace(o) == \E kind, x : OnlyAt(o, kind, x)

PlaceInv == \A o \in Objects : OnePlace(o) /\ freed[o] <= 1

\* A walk has seen named what is held in the cells behind it and is in the bag it
\* is for.
ScanIsSafe ==
  \A t \in Threads : pc[t] = "scan" =>
    \A i \in Cells : i < scan[t].at /\ held[i] \in bag[t] => held[i] \in scan[t].named

HeldIsKept ==
  \A i \in Cells : held[i] # Null => freed[held[i]] = 0 \/ held[i] \in orphaned

IInv == Typed /\ HeldIsNamed /\ PlaceInv /\ ScanIsSafe /\ HeldIsKept

-----------------------------------------------------------------------------
(* The table of cells *)

\* The row of a reader lies within the table.
LEMMA RowsAreCells ==
  ASSUME Declared, NEW r \in Readers
  PROVE  Row(r) \subseteq Cells
<1> SUFFICES ASSUME NEW k \in 1..kCellsPerReader
             PROVE  CellOf(r, k) \in Cells
  BY DEF Row
<1> DEFINE N == NumReaders
           K == kCellsPerReader
<1>1. N \in Nat /\ K \in Nat /\ r \in 1..N /\ k \in 1..K
  BY DEF Declared, Readers
<1> HIDE DEF N, K
<1>2. (r - 1) * K \in Nat /\ (r - 1) * K + K = r * K
  BY <1>1
<1>3. r * K <= N * K
  <2>1. (N - r) * K \in Nat /\ N * K = r * K + (N - r) * K
    BY <1>1
  <2> QED BY <1>1, <2>1
<1>4. (r - 1) * K + k \in 1..(N * K)
  BY <1>1, <1>2, <1>3
<1> QED BY <1>4 DEF CellOf, Cells, N, K

\* No cell is in the rows of two readers.
LEMMA RowsApart ==
  ASSUME Declared, NEW r \in Readers, NEW q \in Readers, r # q
  PROVE  Row(r) \cap Row(q) = {}
<1> DEFINE K == kCellsPerReader
<1>1. K \in Nat /\ r \in Int /\ q \in Int
  BY DEF Declared, Readers
<1> HIDE DEF K
<1>2. ASSUME NEW a \in Int, NEW b \in Int, a < b, NEW k \in 1..K, NEW m \in 1..K
      PROVE  (a - 1) * K + k # (b - 1) * K + m
  <2>1. (b - 1) * K = (a - 1) * K + (b - a) * K
    BY <1>1
  <2>2. (b - a) * K = K + (b - a - 1) * K /\ (b - a - 1) * K \in Nat
    BY <1>1, <1>2
  <2>3. (a - 1) * K \in Int
    BY <1>1
  <2> QED BY <1>1, <2>1, <2>2, <2>3
<1>3. \A k \in 1..K, m \in 1..K : (r - 1) * K + k # (q - 1) * K + m
  <2>1. CASE r < q
    BY <1>1, <1>2, <2>1
  <2>2. CASE q < r
    BY <1>1, <1>2, <2>2
  <2> QED BY <1>1, <2>1, <2>2
<1> QED BY <1>3 DEF Row, CellOf, K

-----------------------------------------------------------------------------
(* Where objects are *)

\* A place that is known is the only one.
LEMMA OnlyThere ==
  ASSUME NEW o, OnePlace(o), NEW kind, NEW x, IsAt(o, kind, x)
  PROVE  OnlyAt(o, kind, x)
<1>1. PICK k0, y0 : OnlyAt(o, k0, y0)
  BY DEF OnePlace
<1> QED BY <1>1 DEF OnlyAt

\* An object that a step does not move keeps its one place.
LEMMA Stays ==
  ASSUME NEW o, OnePlace(o), \A k, y : IsAt(o, k, y)' <=> IsAt(o, k, y)
  PROVE  OnePlace(o)'
<1>1. PICK kind, x : OnlyAt(o, kind, x)
  BY DEF OnePlace
<1>2. OnlyAt(o, kind, x)'
  BY <1>1 DEF OnlyAt
<1> QED BY <1>2 DEF OnePlace

\* Where an object is not, when its place is known.
LEMMA OnlyLinked ==
  ASSUME NEW o, OnePlace(o), NEW s, IsAt(o, "source", s)
  PROVE  /\ \A y \in Sources : src[y] = o => y = s
         /\ \A y \in Threads : scan[y].node # o /\ o \notin bag[y]
         /\ o \notin orphans /\ ~(freed[o] > 0)
<1>1. OnlyAt(o, "source", s)
  BY OnlyThere
<1>2. \A y \in Sources : IsAt(o, "source", y) => y = s
  BY <1>1 DEF OnlyAt
<1>3. \A y \in Threads : ~IsAt(o, "node", y) /\ ~IsAt(o, "bag", y)
  BY <1>1 DEF OnlyAt
<1>4. ~IsAt(o, "store", Null) /\ ~IsAt(o, "freed", Null)
  BY <1>1 DEF OnlyAt
<1> QED BY <1>2, <1>3, <1>4 DEF IsAt

\* The same of an object in the hand of the thread that unlinked it.
LEMMA OnlyUnlinked ==
  ASSUME NEW o, OnePlace(o), NEW t, IsAt(o, "node", t)
  PROVE  /\ \A y \in Sources : src[y] # o
         /\ \A y \in Threads : (scan[y].node = o => y = t) /\ o \notin bag[y]
         /\ o \notin orphans /\ ~(freed[o] > 0)
<1>1. OnlyAt(o, "node", t)
  BY OnlyThere
<1>2. \A y \in Sources : ~IsAt(o, "source", y)
  BY <1>1 DEF OnlyAt
<1>3. \A y \in Threads : (IsAt(o, "node", y) => y = t) /\ ~IsAt(o, "bag", y)
  BY <1>1 DEF OnlyAt
<1>4. ~IsAt(o, "store", Null) /\ ~IsAt(o, "freed", Null)
  BY <1>1 DEF OnlyAt
<1> QED BY <1>2, <1>3, <1>4 DEF IsAt

\* The same of an object in a bag.
LEMMA OnlyInBag ==
  ASSUME NEW o, OnePlace(o), NEW t, IsAt(o, "bag", t)
  PROVE  /\ \A y \in Sources : src[y] # o
         /\ \A y \in Threads : scan[y].node # o /\ (o \in bag[y] => y = t)
         /\ o \notin orphans /\ ~(freed[o] > 0)
<1>1. OnlyAt(o, "bag", t)
  BY OnlyThere
<1>2. \A y \in Sources : ~IsAt(o, "source", y)
  BY <1>1 DEF OnlyAt
<1>3. \A y \in Threads : ~IsAt(o, "node", y) /\ (IsAt(o, "bag", y) => y = t)
  BY <1>1 DEF OnlyAt
<1>4. ~IsAt(o, "store", Null) /\ ~IsAt(o, "freed", Null)
  BY <1>1 DEF OnlyAt
<1> QED BY <1>2, <1>3, <1>4 DEF IsAt

\* The same of an orphan.
LEMMA OnlyInStore ==
  ASSUME NEW o, OnePlace(o), IsAt(o, "store", Null)
  PROVE  /\ \A y \in Sources : src[y] # o
         /\ \A y \in Threads : scan[y].node # o /\ o \notin bag[y]
         /\ ~(freed[o] > 0)
<1>1. OnlyAt(o, "store", Null)
  BY OnlyThere
<1>2. \A y \in Sources : ~IsAt(o, "source", y)
  BY <1>1 DEF OnlyAt
<1>3. \A y \in Threads : ~IsAt(o, "node", y) /\ ~IsAt(o, "bag", y)
  BY <1>1 DEF OnlyAt
<1>4. ~IsAt(o, "freed", Null)
  BY <1>1 DEF OnlyAt
<1> QED BY <1>2, <1>3, <1>4 DEF IsAt

\* A reader's step moves no object.
LEMMA StillPlaces ==
  ASSUME PlaceInv, UNCHANGED <<src, bag, orphans, freed, scan>>
  PROVE  PlaceInv'
<1> SUFFICES ASSUME NEW o \in Objects
             PROVE  OnePlace(o)' /\ freed'[o] <= 1
  BY DEF PlaceInv
<1>1. \A k, x : IsAt(o, k, x)' <=> IsAt(o, k, x)
  BY DEF IsAt
<1> QED BY <1>1, Stays DEF PlaceInv

\* What a source links is nowhere else.
LEMMA LinkedIsWhole ==
  ASSUME PlaceInv, NEW s \in Sources, src[s] \in Objects
  PROVE  /\ freed[src[s]] = 0 \/ freed[src[s]] \notin Nat
         /\ src[s] \notin orphans
         /\ \A t \in Threads : src[s] \notin bag[t] /\ scan[t].node # src[s]
         /\ \A q \in Sources : src[q] = src[s] => q = s
<1> DEFINE o == src[s]
<1>1. OnePlace(o) /\ IsAt(o, "source", s)
  BY DEF PlaceInv, IsAt
<1> QED BY <1>1, OnlyLinked

-----------------------------------------------------------------------------
(* Readers *)

\* Protect's first load gives up what the cell held.
LEMMA ProtectLoadsStep ==
  ASSUME Declared, IInv, NEW r \in Readers, NEW k \in 1..kCellsPerReader, NEW s \in Sources,
         ProtectLoads(r, k, s)
  PROVE  IInv'
<1> DEFINE c == CellOf(r, k)
           p == [pc |-> "set", from |-> s, cell |-> c, ptr |-> src[s]]
<1>1. c \in Row(r) /\ c \in Cells /\ c \in Nat
  BY RowsAreCells DEF Row, Cells
<1> HIDE DEF c
<1>2. /\ protect' = [protect EXCEPT ![r] = p] /\ held' = [held EXCEPT ![c] = Null]
      /\ UNCHANGED <<src, cell, bag, orphans, orphaned, alive, freed, pc, scan>>
  BY DEF ProtectLoads, c
<1>3. /\ protect'[r] = p /\ \A q \in Readers \ {r} : protect'[q] = protect[q]
      /\ held'[c] = Null /\ \A i \in Cells \ {c} : held'[i] = held[i]
      /\ held' \in [Cells -> Objects \cup {Null}]
  BY <1>1, <1>2 DEF IInv, Typed
<1>4. protect' \in [Readers -> [pc : {"idle", "set", "again"}, from : Sources \cup {Null},
                                cell : Nat, ptr : Objects \cup {Null}]]
  BY <1>1, <1>2 DEF IInv, Typed
<1>5. Typed'
  <2>1. \A q \in Readers : Protecting(q)' => protect'[q].from \in Sources /\ protect'[q].cell \in Row(q)
    BY <1>1, <1>3 DEF IInv, Typed, Protecting
  <2> QED BY <1>2, <1>3, <1>4, <2>1 DEF IInv, Typed, Row, CellOf
<1>6. HeldIsNamed'
  <2>1. \A i \in Cells : held'[i] # Null => cell'[i] = held'[i]
    BY <1>2, <1>3 DEF IInv, HeldIsNamed
  <2>2. ASSUME NEW q \in Readers
        PROVE  /\ Protecting(q)' => held'[protect'[q].cell] = Null
               /\ protect'[q].pc = "again" => cell'[protect'[q].cell] = protect'[q].ptr
    <3>1. CASE q = r
      BY <1>3, <3>1
    <3>2. CASE q # r
      <4>1. Protecting(q) => protect[q].cell \in Cells
        BY RowsAreCells DEF IInv, Typed
      <4> QED BY <1>2, <1>3, <3>2, <4>1 DEF IInv, HeldIsNamed, Protecting
    <3> QED BY <3>1, <3>2
  <2> QED BY <2>1, <2>2 DEF HeldIsNamed
<1>7. PlaceInv'
  BY <1>2, StillPlaces DEF IInv
<1>8. ScanIsSafe'
  <2>1. \A t \in Threads : bag[t] \subseteq Objects
    BY DEF IInv, Typed
  <2>2. Null \notin Objects
    BY DEF Declared
  <2> QED BY <1>2, <1>3, <2>1, <2>2 DEF IInv, ScanIsSafe
<1>9. HeldIsKept'
  BY <1>2, <1>3 DEF IInv, HeldIsKept
<1> QED BY <1>5, <1>6, <1>7, <1>8, <1>9 DEF IInv

\* The pointer is named before it is held.
LEMMA SetStep ==
  ASSUME Declared, IInv, NEW r \in Readers, Set(r)
  PROVE  IInv'
<1> DEFINE c == protect[r].cell
<1>1. /\ c \in Row(r) /\ c \in Cells /\ protect[r].pc = "set" /\ held[c] = Null
      /\ protect[r].ptr \in Objects \cup {Null}
  BY RowsAreCells DEF Set, IInv, Typed, HeldIsNamed, Protecting
<1>2. /\ protect' = [protect EXCEPT ![r].pc = "again"]
      /\ cell' = [cell EXCEPT ![c] = protect[r].ptr]
      /\ UNCHANGED <<src, held, bag, orphans, orphaned, alive, freed, pc, scan>>
  BY DEF Set
<1>3. /\ protect' \in [Readers -> [pc : {"idle", "set", "again"}, from : Sources \cup {Null},
                                   cell : Nat, ptr : Objects \cup {Null}]]
      /\ protect'[r].pc = "again" /\ protect'[r].from = protect[r].from
      /\ protect'[r].cell = c /\ protect'[r].ptr = protect[r].ptr
      /\ \A q \in Readers \ {r} : protect'[q] = protect[q]
  <2> DEFINE P == [pc : {"idle", "set", "again"}, from : Sources \cup {Null},
                   cell : Nat, ptr : Objects \cup {Null}]
             now == [protect[r] EXCEPT !.pc = "again"]
  <2>1. protect \in [Readers -> P] /\ protect[r] \in P /\ protect' = [protect EXCEPT ![r] = now]
    BY <1>2 DEF IInv, Typed
  <2>2. now \in P /\ now.pc = "again" /\ now.from = protect[r].from /\ now.cell = c
        /\ now.ptr = protect[r].ptr
    BY <2>1
  <2> HIDE DEF now, P
  <2>3. protect' \in [Readers -> P] /\ protect'[r] = now
        /\ \A q \in Readers \ {r} : protect'[q] = protect[q]
    BY <2>1, <2>2
  <2> QED BY <2>2, <2>3 DEF P
<1> HIDE DEF c
<1>4. /\ cell'[c] = protect[r].ptr /\ \A i \in Cells \ {c} : cell'[i] = cell[i]
      /\ cell' \in [Cells -> Objects \cup {Null}]
  BY <1>1, <1>2 DEF IInv, Typed
<1>5. Typed'
  <2>1. \A q \in Readers : Protecting(q)' => protect'[q].from \in Sources /\ protect'[q].cell \in Row(q)
    BY <1>1, <1>3 DEF IInv, Typed, Protecting
  <2> QED BY <1>2, <1>3, <1>4, <2>1 DEF IInv, Typed, Row, CellOf
<1>6. HeldIsNamed'
  <2>1. \A i \in Cells : held'[i] # Null => cell'[i] = held'[i]
    BY <1>1, <1>2, <1>4 DEF IInv, HeldIsNamed
  <2>2. ASSUME NEW q \in Readers
        PROVE  /\ Protecting(q)' => held'[protect'[q].cell] = Null
               /\ protect'[q].pc = "again" => cell'[protect'[q].cell] = protect'[q].ptr
    <3>1. CASE q = r
      BY <1>1, <1>2, <1>3, <1>4, <3>1
    <3>2. CASE q # r
      <4>1. Protecting(q) => protect[q].cell \in Cells \ {c}
        BY <1>1, <3>2, RowsAreCells, RowsApart DEF IInv, Typed
      <4> QED BY <1>2, <1>3, <1>4, <3>2, <4>1 DEF IInv, HeldIsNamed, Protecting
    <3> QED BY <3>1, <3>2
  <2> QED BY <2>1, <2>2 DEF HeldIsNamed
<1>7. PlaceInv'
  BY <1>2, StillPlaces DEF IInv
<1>8. ScanIsSafe' /\ HeldIsKept'
  BY <1>2 DEF IInv, ScanIsSafe, HeldIsKept
<1> QED BY <1>5, <1>6, <1>7, <1>8 DEF IInv

\* Protect returns a pointer only if its source still links it.
LEMMA ProtectStep ==
  ASSUME Declared, IInv, NEW r \in Readers, Protect(r)
  PROVE  IInv'
<1> DEFINE c == protect[r].cell
           s == protect[r].from
           p == protect[r].ptr
<1>1. /\ c \in Row(r) /\ c \in Cells /\ protect[r].pc = "again" /\ s \in Sources
      /\ held[c] = Null /\ cell[c] = p
      /\ p \in Objects \cup {Null} /\ src[s] \in Objects \cup {Null}
  BY RowsAreCells DEF Protect, IInv, Typed, HeldIsNamed, Protecting
<1>2. /\ \/ src[s] = p /\ protect' = [protect EXCEPT ![r] = Idle] /\ held' = [held EXCEPT ![c] = p]
         \/ /\ protect' = [protect EXCEPT ![r].pc = "set", ![r].ptr = src[s]]
            /\ held' = held
      /\ UNCHANGED <<src, cell, bag, orphans, orphaned, alive, freed, pc, scan>>
  BY DEF Protect
<1>3. /\ protect' \in [Readers -> [pc : {"idle", "set", "again"}, from : Sources \cup {Null},
                                   cell : Nat, ptr : Objects \cup {Null}]]
      /\ \A q \in Readers \ {r} : protect'[q] = protect[q]
      /\ \/ protect'[r].pc = "idle"
         \/ /\ protect'[r].pc = "set" /\ protect'[r].from = s /\ protect'[r].cell = c
            /\ held' = held
  <2> DEFINE P == [pc : {"idle", "set", "again"}, from : Sources \cup {Null},
                   cell : Nat, ptr : Objects \cup {Null}]
             now == [protect[r] EXCEPT !.pc = "set", !.ptr = src[s]]
  <2>1. protect \in [Readers -> P] /\ protect[r] \in P
    BY DEF IInv, Typed
  <2>2. now \in P /\ now.pc = "set" /\ now.from = s /\ now.cell = c
    BY <1>1, <2>1
  <2>3. Idle \in P /\ Idle.pc = "idle"
    BY DEF Idle
  <2>4. protect' = [protect EXCEPT ![r] = Idle] \/ (protect' = [protect EXCEPT ![r] = now] /\ held' = held)
    BY <1>2
  <2> HIDE DEF now, P
  <2>5. /\ protect' \in [Readers -> P] /\ \A q \in Readers \ {r} : protect'[q] = protect[q]
        /\ protect'[r] = Idle \/ (protect'[r] = now /\ held' = held)
    BY <2>1, <2>2, <2>3, <2>4
  <2> QED BY <2>2, <2>3, <2>5 DEF P
<1>4. /\ held' \in [Cells -> Objects \cup {Null}]
      /\ \A i \in Cells : held'[i] = held[i] \/ (i = c /\ held'[i] = p /\ src[s] = p)
  BY <1>1, <1>2 DEF IInv, Typed
<1> HIDE DEF c, s, p
<1>5. Typed'
  <2>1. \A q \in Readers : Protecting(q)' => protect'[q].from \in Sources /\ protect'[q].cell \in Row(q)
    BY <1>1, <1>3 DEF IInv, Typed, Protecting
  <2> QED BY <1>2, <1>3, <1>4, <2>1 DEF IInv, Typed, Row, CellOf
<1>6. HeldIsNamed'
  <2>1. \A i \in Cells : held'[i] # Null => cell'[i] = held'[i]
    BY <1>1, <1>2, <1>4 DEF IInv, HeldIsNamed
  <2>2. ASSUME NEW q \in Readers
        PROVE  /\ Protecting(q)' => held'[protect'[q].cell] = Null
               /\ protect'[q].pc = "again" => cell'[protect'[q].cell] = protect'[q].ptr
    <3>1. CASE q = r
      BY <1>1, <1>3, <3>1 DEF Protecting
    <3>2. CASE q # r
      <4>1. Protecting(q) => protect[q].cell \in Cells /\ protect[q].cell # c
        BY <1>1, <3>2, RowsAreCells, RowsApart DEF IInv, Typed
      <4> QED BY <1>2, <1>3, <1>4, <3>2, <4>1 DEF IInv, HeldIsNamed, Protecting
    <3> QED BY <3>1, <3>2
  <2> QED BY <2>1, <2>2 DEF HeldIsNamed
<1>7. PlaceInv'
  BY <1>2, StillPlaces DEF IInv
<1>8. ASSUME src[s] = p, p # Null
      PROVE  freed[p] = 0 /\ \A t \in Threads : p \notin bag[t]
  <2>1. src[s] \in Objects /\ freed[p] \in Nat
    BY <1>1, <1>8 DEF IInv, Typed
  <2> QED BY <1>1, <1>8, <2>1, LinkedIsWhole DEF IInv
<1>9. ScanIsSafe'
  <2>1. Null \notin Objects /\ \A t \in Threads : bag[t] \subseteq Objects
    BY DEF Declared, IInv, Typed
  <2> QED BY <1>2, <1>4, <1>8, <2>1 DEF IInv, ScanIsSafe
<1>10. HeldIsKept'
  BY <1>2, <1>4, <1>8 DEF IInv, HeldIsKept
<1> QED BY <1>5, <1>6, <1>7, <1>9, <1>10 DEF IInv

\* Clear gives the pointer up and empties the cell in one step.
LEMMA ClearStep ==
  ASSUME Declared, IInv, NEW r \in Readers, NEW k \in 1..kCellsPerReader, Clear(r, k)
  PROVE  IInv'
<1> DEFINE c == CellOf(r, k)
<1>1. c \in Row(r) /\ c \in Cells /\ protect[r].pc = "idle"
  BY RowsAreCells DEF Row, Clear
<1> HIDE DEF c
<1>2. /\ cell' = [cell EXCEPT ![c] = Null] /\ held' = [held EXCEPT ![c] = Null]
      /\ UNCHANGED <<src, protect, bag, orphans, orphaned, alive, freed, pc, scan>>
  BY DEF Clear, c
<1>3. /\ held'[c] = Null /\ \A i \in Cells \ {c} : held'[i] = held[i] /\ cell'[i] = cell[i]
      /\ cell' \in [Cells -> Objects \cup {Null}] /\ held' \in [Cells -> Objects \cup {Null}]
  BY <1>1, <1>2 DEF IInv, Typed
<1>4. Typed'
  BY <1>2, <1>3 DEF IInv, Typed, Row, CellOf, Protecting
<1>5. HeldIsNamed'
  <2>1. \A q \in Readers : Protecting(q) => protect[q].cell \in Cells /\ protect[q].cell # c
    BY <1>1, RowsAreCells, RowsApart DEF IInv, Typed, Protecting
  <2> QED BY <1>2, <1>3, <2>1 DEF IInv, HeldIsNamed, Protecting
<1>6. PlaceInv'
  BY <1>2, StillPlaces DEF IInv
<1>7. ScanIsSafe'
  <2>1. Null \notin Objects /\ \A t \in Threads : bag[t] \subseteq Objects
    BY DEF Declared, IInv, Typed
  <2> QED BY <1>2, <1>3, <2>1 DEF IInv, ScanIsSafe
<1>8. HeldIsKept'
  BY <1>2, <1>3 DEF IInv, HeldIsKept
<1> QED BY <1>4, <1>5, <1>6, <1>7, <1>8 DEF IInv

-----------------------------------------------------------------------------
(* Threads *)

\* What HazardProofs says of a thread's locals.
Scans == [at : Nat, named : SUBSET Objects, node : Objects \cup {Null}]

\* A thread's step changes no cell.
LEMMA ReadersKept ==
  ASSUME IInv, UNCHANGED <<cell, protect, held>>
  PROVE  HeldIsNamed'
BY DEF IInv, HeldIsNamed, Protecting

\* The types of what a thread's step leaves alone.
LEMMA ThreadTyped ==
  ASSUME IInv, NEW t \in Threads, UNCHANGED <<cell, protect, held>>,
         src' \in [Sources -> Objects \cup {Null}], bag' \in [Threads -> SUBSET Objects],
         orphans' \subseteq orphaned', orphaned' \subseteq Objects, alive' \subseteq Threads,
         freed' \in [Objects -> Nat],
         pc' \in [Threads -> {"idle", "retire", "scan", "orphans"}],
         scan' \in [Threads -> Scans],
         \A q \in Threads \ {t} : pc'[q] = pc[q] /\ scan'[q] = scan[q],
         scan'[t].at \in 1..(NumReaders * kCellsPerReader + 1),
         pc'[t] \in {"idle", "retire"} => scan'[t].at = 1,
         pc'[t] = "retire" <=> scan'[t].node # Null
  PROVE  Typed'
<1>1. /\ cell' \in [Cells -> Objects \cup {Null}] /\ held' \in [Cells -> Objects \cup {Null}]
      /\ protect' \in [Readers -> [pc : {"idle", "set", "again"}, from : Sources \cup {Null},
                                   cell : Nat, ptr : Objects \cup {Null}]]
      /\ \A r \in Readers :
           Protecting(r)' => protect'[r].from \in Sources /\ protect'[r].cell \in Row(r)
  BY DEF IInv, Typed, Protecting
<1>2. ASSUME NEW q \in Threads
      PROVE  /\ scan'[q].at \in 1..(NumReaders * kCellsPerReader + 1)
             /\ pc'[q] \in {"idle", "retire"} => scan'[q].at = 1
             /\ pc'[q] = "retire" <=> scan'[q].node # Null
  BY DEF IInv, Typed
<1> QED BY <1>1, <1>2 DEF Typed, Scans, Row, CellOf

\* From the source into the thread's hand.
LEMMA UnlinkStep ==
  ASSUME Declared, IInv, NEW t \in Threads, NEW s \in Sources, Unlink(t, s)
  PROVE  IInv'
<1> DEFINE o == src[s]
           now == [scan[t] EXCEPT !.node = o]
<1>1. /\ pc[t] = "idle" /\ o \in Objects /\ scan[t] \in Scans /\ scan[t].node = Null
      /\ scan[t].at = 1 /\ Null \notin Objects /\ scan \in [Threads -> Scans]
  BY DEF Unlink, IInv, Typed, Scans, Declared
<1>2. /\ src' = [src EXCEPT ![s] = Null] /\ pc' = [pc EXCEPT ![t] = "retire"]
      /\ scan' = [scan EXCEPT ![t] = now]
      /\ UNCHANGED <<cell, protect, held, bag, orphans, orphaned, alive, freed>>
  BY DEF Unlink
<1>3. now \in Scans /\ now.at = scan[t].at /\ now.node = o
  BY <1>1 DEF Scans
<1> HIDE DEF now, o
<1>4. /\ src' \in [Sources -> Objects \cup {Null}] /\ scan' \in [Threads -> Scans]
      /\ pc' \in [Threads -> {"idle", "retire", "scan", "orphans"}]
      /\ src'[s] = Null /\ \A q \in Sources \ {s} : src'[q] = src[q]
      /\ pc'[t] = "retire" /\ scan'[t] = now
      /\ \A q \in Threads \ {t} : pc'[q] = pc[q] /\ scan'[q] = scan[q]
  BY <1>1, <1>2, <1>3 DEF IInv, Typed
<1>5. Typed'
  <2>1. scan'[t].at \in 1..(NumReaders * kCellsPerReader + 1) /\ scan'[t].at = 1
        /\ scan'[t].node # Null
    BY <1>1, <1>3, <1>4 DEF IInv, Typed
  <2> QED BY <1>2, <1>4, <2>1, ThreadTyped DEF IInv, Typed
<1>6. HeldIsNamed'
  BY <1>2, ReadersKept
<1>7. ASSUME NEW p \in Objects
      PROVE  OnePlace(p)' /\ freed'[p] <= 1
  <2>1. OnePlace(p) /\ freed'[p] <= 1
    BY <1>2 DEF IInv, PlaceInv
  <2>2. CASE p = o
    <3>1. IsAt(p, "source", s)
      BY <2>2 DEF IsAt, o
    <3>2. /\ \A y \in Sources : src[y] = p => y = s
          /\ \A y \in Threads : scan[y].node # p /\ p \notin bag[y]
          /\ p \notin orphans /\ ~(freed[p] > 0)
      BY <2>1, <3>1, OnlyLinked
    <3>3. OnlyAt(p, "node", t)'
      BY <1>1, <1>2, <1>3, <1>4, <2>2, <3>2 DEF IsAt, OnlyAt
    <3> QED BY <2>1, <3>3 DEF OnePlace
  <2>3. CASE p # o
    <3>1. \A k, y : IsAt(p, k, y)' <=> IsAt(p, k, y)
      BY <1>1, <1>2, <1>3, <1>4, <2>3 DEF IsAt, o
    <3> QED BY <2>1, <3>1, Stays
  <2> QED BY <2>2, <2>3
<1>8. ScanIsSafe'
  BY <1>2, <1>4 DEF IInv, ScanIsSafe
<1>9. HeldIsKept'
  BY <1>2 DEF IInv, HeldIsKept
<1> QED BY <1>5, <1>6, <1>7, <1>8, <1>9 DEF IInv, PlaceInv

\* From the hand into the bag, or into the store when the thread has exited.
LEMMA RetireStep ==
  ASSUME Declared, IInv, NEW t \in Threads, Retire(t)
  PROVE  IInv'
<1> DEFINE o == scan[t].node
<1>1. /\ pc[t] = "retire" /\ o \in Objects /\ Null \notin Objects
      /\ scan \in [Threads -> Scans]
  BY DEF Retire, IInv, Typed, Scans, Declared
<1>2. NoScan \in Scans /\ NoScan.at = 1 /\ NoScan.node = Null
  BY DEF NoScan, Scans
<1>3. /\ \/ bag' = [bag EXCEPT ![t] = @ \cup {o}] /\ UNCHANGED <<orphans, orphaned>>
         \/ orphans' = orphans \cup {o} /\ orphaned' = orphaned \cup {o} /\ bag' = bag
      /\ pc' = [pc EXCEPT ![t] = "idle"] /\ scan' = [scan EXCEPT ![t] = NoScan]
      /\ UNCHANGED <<src, cell, protect, held, alive, freed>>
  BY DEF Retire
<1>4. /\ scan' \in [Threads -> Scans]
      /\ pc' \in [Threads -> {"idle", "retire", "scan", "orphans"}]
      /\ pc'[t] = "idle" /\ scan'[t] = NoScan
      /\ \A q \in Threads \ {t} : pc'[q] = pc[q] /\ scan'[q] = scan[q]
      /\ bag' \in [Threads -> SUBSET Objects] /\ \A q \in Threads \ {t} : bag'[q] = bag[q]
      /\ orphans' \subseteq orphaned' /\ orphaned \subseteq orphaned' /\ orphaned' \subseteq Objects
      /\ \/ bag'[t] = bag[t] \cup {o} /\ orphans' = orphans
         \/ bag'[t] = bag[t] /\ orphans' = orphans \cup {o}
  BY <1>1, <1>2, <1>3 DEF IInv, Typed
<1> HIDE DEF o
<1>5. Typed'
  <2>1. scan'[t].at \in 1..(NumReaders * kCellsPerReader + 1)
    BY <1>1, <1>2, <1>4 DEF IInv, Typed, Declared
  <2>2. /\ src' \in [Sources -> Objects \cup {Null}] /\ alive' \subseteq Threads
        /\ freed' \in [Objects -> Nat]
    BY <1>3 DEF IInv, Typed
  <2>3. /\ pc'[t] \in {"idle", "retire"} => scan'[t].at = 1
        /\ pc'[t] = "retire" <=> scan'[t].node # Null
    BY <1>2, <1>4
  <2>4. orphans' \subseteq orphaned' /\ orphaned' \subseteq Objects
    BY <1>4
  <2> QED BY <1>3, <1>4, <2>1, <2>2, <2>3, <2>4, ThreadTyped
<1>6. HeldIsNamed'
  BY <1>3, ReadersKept
<1>7. ASSUME NEW p \in Objects
      PROVE  OnePlace(p)' /\ freed'[p] <= 1
  <2>1. OnePlace(p) /\ freed'[p] <= 1
    BY <1>3 DEF IInv, PlaceInv
  <2>2. CASE p = o
    <3>1. IsAt(p, "node", t)
      BY <2>2 DEF IsAt, o
    <3>2. /\ \A y \in Sources : src[y] # p
          /\ \A y \in Threads : (scan[y].node = p => y = t) /\ p \notin bag[y]
          /\ p \notin orphans /\ ~(freed[p] > 0)
      BY <2>1, <3>1, OnlyUnlinked
    <3>3. CASE bag'[t] = bag[t] \cup {o} /\ orphans' = orphans
      <4>1. OnlyAt(p, "bag", t)'
        BY <1>1, <1>2, <1>3, <1>4, <2>2, <3>2, <3>3 DEF IsAt, OnlyAt
      <4> QED BY <2>1, <4>1 DEF OnePlace
    <3>4. CASE bag'[t] = bag[t] /\ orphans' = orphans \cup {o}
      <4>1. OnlyAt(p, "store", Null)'
        BY <1>1, <1>2, <1>3, <1>4, <2>2, <3>2, <3>4 DEF IsAt, OnlyAt
      <4> QED BY <2>1, <4>1 DEF OnePlace
    <3> QED BY <1>4, <3>3, <3>4
  <2>3. CASE p # o
    <3>1. \A k, y : IsAt(p, k, y)' <=> IsAt(p, k, y)
      BY <1>1, <1>2, <1>3, <1>4, <2>3 DEF IsAt, o
    <3> QED BY <2>1, <3>1, Stays
  <2> QED BY <2>2, <2>3
<1>8. ScanIsSafe'
  BY <1>3, <1>4 DEF IInv, ScanIsSafe
<1>9. HeldIsKept'
  BY <1>3, <1>4 DEF IInv, HeldIsKept
<1> QED BY <1>5, <1>6, <1>7, <1>8, <1>9 DEF IInv, PlaceInv

\* A walk begins before the first cell, and has nothing to have seen.
LEMMA ScanStep ==
  ASSUME Declared, IInv, NEW t \in Threads, Scan(t)
  PROVE  IInv'
<1>1. /\ pc[t] = "idle" /\ pc' = [pc EXCEPT ![t] = "scan"]
      /\ UNCHANGED <<src, cell, protect, held, bag, orphans, orphaned, alive, freed, scan>>
  BY DEF Scan
<1>2. /\ pc' \in [Threads -> {"idle", "retire", "scan", "orphans"}]
      /\ pc'[t] = "scan" /\ \A q \in Threads \ {t} : pc'[q] = pc[q]
      /\ scan[t].at = 1 /\ scan[t].node = Null
  BY <1>1 DEF IInv, Typed
<1>3. Typed'
  BY <1>1, <1>2, ThreadTyped DEF IInv, Typed, Scans
<1>4. HeldIsNamed' /\ PlaceInv' /\ HeldIsKept'
  BY <1>1, ReadersKept, StillPlaces DEF IInv, HeldIsKept
<1>5. ScanIsSafe'
  <2>1. \A i \in Cells : ~(i < 1)
    BY DEF Cells
  <2> QED BY <1>1, <1>2, <2>1 DEF IInv, ScanIsSafe
<1> QED BY <1>3, <1>4, <1>5 DEF IInv

\* The walk adds what the next cell names.
LEMMA SeesStep ==
  ASSUME Declared, IInv, NEW t \in Threads, Sees(t)
  PROVE  IInv'
<1> DEFINE i == scan[t].at
           seen == IF cell[i] = Null THEN scan[t].named ELSE scan[t].named \cup {cell[i]}
           now == [scan[t] EXCEPT !.at = i + 1, !.named = seen]
<1>1. /\ pc[t] = "scan" /\ i \in Cells /\ i \in Nat /\ cell[i] \in Objects \cup {Null}
      /\ scan[t] \in Scans /\ scan \in [Threads -> Scans] /\ scan[t].node = Null
      /\ NumReaders * kCellsPerReader \in Nat
  BY DEF Sees, IInv, Typed, Scans, Cells, Declared
<1>2. /\ scan' = [scan EXCEPT ![t] = now]
      /\ UNCHANGED <<src, cell, protect, held, bag, orphans, orphaned, alive, freed, pc>>
  BY DEF Sees
<1>3. now \in Scans /\ now.at = i + 1 /\ now.named = seen /\ now.node = scan[t].node
  <2>1. seen \subseteq Objects
    BY <1>1 DEF Scans
  <2> DEFINE j == i + 1
  <2>2. j \in Nat /\ now = [scan[t] EXCEPT !.at = j, !.named = seen]
    BY <1>1
  <2> HIDE DEF seen, now, j
  <2>3. now \in Scans /\ now.at = j /\ now.named = seen /\ now.node = scan[t].node
    BY <1>1, <2>1, <2>2 DEF Scans
  <2> QED BY <2>3 DEF j
<1>4. scan[t].named \subseteq seen /\ (cell[i] # Null => cell[i] \in seen)
  OBVIOUS
<1> HIDE DEF now, seen
<1>5. /\ scan' \in [Threads -> Scans] /\ scan'[t] = now
      /\ \A q \in Threads \ {t} : scan'[q] = scan[q]
      /\ \A q \in Threads : scan'[q].node = scan[q].node
  BY <1>1, <1>2, <1>3
<1>6. Typed'
  <2>1. i + 1 \in 1..(NumReaders * kCellsPerReader + 1)
    BY <1>1 DEF Cells
  <2>2. /\ scan'[t].at \in 1..(NumReaders * kCellsPerReader + 1)
        /\ pc'[t] = "scan" /\ scan'[t].node = Null
        /\ \A q \in Threads \ {t} : pc'[q] = pc[q] /\ scan'[q] = scan[q]
    BY <1>1, <1>2, <1>3, <1>5, <2>1
  <2> QED BY <1>2, <1>5, <2>2, ThreadTyped DEF IInv, Typed
<1>7. HeldIsNamed' /\ HeldIsKept'
  BY <1>2, ReadersKept DEF IInv, HeldIsKept
<1>8. PlaceInv'
  <2> SUFFICES ASSUME NEW o \in Objects
               PROVE  OnePlace(o)' /\ freed'[o] <= 1
    BY DEF PlaceInv
  <2>1. ASSUME NEW k, NEW y
        PROVE  IsAt(o, k, y)' <=> IsAt(o, k, y)
    <3>1. y \in Threads => (scan'[y].node = o <=> scan[y].node = o)
      BY <1>5
    <3> QED BY <1>2, <3>1 DEF IsAt
  <2> QED BY <1>2, <2>1, Stays DEF IInv, PlaceInv
<1>9. ASSUME NEW j \in Cells, j < i + 1, held[j] \in bag[t]
      PROVE  held[j] \in seen
  <2>1. CASE j = i
    <3>1. held[j] # Null
      BY <1>9 DEF IInv, Typed, Declared
    <3> QED BY <1>4, <2>1, <3>1 DEF IInv, HeldIsNamed
  <2>2. CASE j # i
    <3>1. j < i
      BY <1>1, <1>9, <2>2 DEF Cells
    <3> QED BY <1>1, <1>4, <1>9, <3>1 DEF IInv, ScanIsSafe
  <2> QED BY <2>1, <2>2
<1>10. ScanIsSafe'
  BY <1>2, <1>3, <1>5, <1>9 DEF IInv, ScanIsSafe
<1> QED BY <1>6, <1>7, <1>8, <1>10 DEF IInv

\* What Free does to the count of one object.
LEMMA FreesEach ==
  ASSUME IInv, NEW S, Free(S)
  PROVE  /\ freed' \in [Objects -> Nat]
         /\ \A o \in Objects : freed'[o] = IF o \in S THEN freed[o] + 1 ELSE freed[o]
BY DEF Free, IInv, Typed

\* The walk is over: it has seen named what is held and in the bag.
LEMMA SweepBagStep ==
  ASSUME Declared, IInv, NEW t \in Threads, SweepBag(t)
  PROVE  IInv'
<1> DEFINE gone == bag[t] \ scan[t].named
<1>1. /\ pc[t] = "scan" /\ scan[t].node = Null /\ scan[t].at \notin Cells
      /\ bag \in [Threads -> SUBSET Objects] /\ Null \notin Objects
  BY DEF SweepBag, IInv, Typed, Declared
<1>2. /\ Free(gone) /\ bag' = [bag EXCEPT ![t] = @ \cap scan[t].named]
      /\ pc' = [pc EXCEPT ![t] = "orphans"]
      /\ UNCHANGED <<src, cell, protect, held, orphans, orphaned, alive, scan>>
  BY DEF SweepBag
<1>3. /\ pc' \in [Threads -> {"idle", "retire", "scan", "orphans"}]
      /\ pc'[t] = "orphans" /\ \A q \in Threads \ {t} : pc'[q] = pc[q]
      /\ bag' \in [Threads -> SUBSET Objects]
      /\ bag'[t] = bag[t] \ gone /\ \A q \in Threads \ {t} : bag'[q] = bag[q]
  BY <1>1, <1>2 DEF IInv, Typed
<1>4. /\ freed' \in [Objects -> Nat] /\ freed \in [Objects -> Nat]
      /\ \A o \in Objects : freed'[o] = IF o \in gone THEN freed[o] + 1 ELSE freed[o]
  BY <1>2, FreesEach DEF IInv, Typed
<1>5. \A i \in Cells : held[i] \notin gone
  <2>1. \A i \in Cells : i < scan[t].at
    BY <1>1 DEF IInv, Typed, Cells, Declared
  <2> QED BY <1>1, <2>1 DEF IInv, ScanIsSafe
<1>6. gone \subseteq bag[t]
  OBVIOUS
<1> HIDE DEF gone
<1>7. Typed'
  BY <1>1, <1>2, <1>3, <1>4, ThreadTyped DEF IInv, Typed, Scans
<1>8. HeldIsNamed'
  BY <1>2, ReadersKept
<1>9. ASSUME NEW p \in Objects
      PROVE  OnePlace(p)' /\ freed'[p] <= 1
  <2>1. OnePlace(p) /\ freed[p] <= 1 /\ freed[p] \in Nat
    BY <1>4 DEF IInv, PlaceInv
  <2>2. CASE p \in gone
    <3>1. IsAt(p, "bag", t)
      BY <1>6, <2>2 DEF IsAt
    <3>2. /\ \A y \in Sources : src[y] # p
          /\ \A y \in Threads : scan[y].node # p /\ (p \in bag[y] => y = t)
          /\ p \notin orphans /\ ~(freed[p] > 0)
      BY <2>1, <3>1, OnlyInBag
    <3>3. freed'[p] = 1
      BY <1>4, <2>1, <2>2, <3>2
    <3>4. OnlyAt(p, "freed", Null)'
      BY <1>2, <1>3, <2>2, <3>2, <3>3 DEF IsAt, OnlyAt
    <3> QED BY <3>3, <3>4 DEF OnePlace
  <2>3. CASE p \notin gone
    <3>1. freed'[p] = freed[p] /\ \A y \in Threads : p \in bag'[y] <=> p \in bag[y]
      BY <1>3, <1>4, <2>3
    <3>2. \A k, y : IsAt(p, k, y)' <=> IsAt(p, k, y)
      BY <1>2, <3>1 DEF IsAt
    <3> QED BY <2>1, <3>1, <3>2, Stays
  <2> QED BY <2>2, <2>3
<1>10. ScanIsSafe'
  BY <1>2, <1>3 DEF IInv, ScanIsSafe
<1>11. HeldIsKept'
  BY <1>2, <1>4, <1>5 DEF IInv, HeldIsKept, Typed
<1> QED BY <1>7, <1>8, <1>9, <1>10, <1>11 DEF IInv, PlaceInv

\* Only orphans are freed without regard to who holds them.
LEMMA SweepOrphansStep ==
  ASSUME Declared, IInv, NEW t \in Threads, SweepOrphans(t)
  PROVE  IInv'
<1> DEFINE gone == orphans \ scan[t].named
<1>1. /\ pc[t] = "orphans" /\ scan[t].node = Null /\ Null \notin Objects
      /\ scan \in [Threads -> Scans] /\ NumReaders * kCellsPerReader \in Nat
  BY DEF SweepOrphans, IInv, Typed, Scans, Declared
<1>2. NoScan \in Scans /\ NoScan.at = 1 /\ NoScan.node = Null
  BY DEF NoScan, Scans
<1>3. /\ Free(gone) /\ orphans' = orphans \ gone
      /\ pc' = [pc EXCEPT ![t] = "idle"] /\ scan' = [scan EXCEPT ![t] = NoScan]
      /\ UNCHANGED <<src, cell, protect, held, bag, orphaned, alive>>
  BY DEF SweepOrphans
<1>4. gone \subseteq orphaned /\ gone \subseteq orphans
  BY DEF IInv, Typed
<1> HIDE DEF gone
<1>5. /\ pc' \in [Threads -> {"idle", "retire", "scan", "orphans"}]
      /\ pc'[t] = "idle" /\ scan' \in [Threads -> Scans] /\ scan'[t] = NoScan
      /\ \A q \in Threads \ {t} : pc'[q] = pc[q] /\ scan'[q] = scan[q]
      /\ \A q \in Threads : scan'[q].node = scan[q].node
  BY <1>1, <1>2, <1>3 DEF IInv, Typed
<1>6. /\ freed' \in [Objects -> Nat] /\ freed \in [Objects -> Nat]
      /\ \A o \in Objects : freed'[o] = IF o \in gone THEN freed[o] + 1 ELSE freed[o]
  BY <1>3, FreesEach DEF IInv, Typed
<1>7. Typed'
  <2>1. scan'[t].at \in 1..(NumReaders * kCellsPerReader + 1)
    BY <1>1, <1>2, <1>5
  <2> QED BY <1>2, <1>3, <1>5, <1>6, <2>1, ThreadTyped DEF IInv, Typed
<1>8. HeldIsNamed'
  BY <1>3, ReadersKept
<1>9. ASSUME NEW p \in Objects
      PROVE  OnePlace(p)' /\ freed'[p] <= 1
  <2>1. OnePlace(p) /\ freed[p] <= 1 /\ freed[p] \in Nat
    BY <1>6 DEF IInv, PlaceInv
  <2>2. CASE p \in gone
    <3>1. IsAt(p, "store", Null)
      BY <1>4, <2>2 DEF IsAt
    <3>2. /\ \A y \in Sources : src[y] # p
          /\ \A y \in Threads : scan[y].node # p /\ p \notin bag[y]
          /\ ~(freed[p] > 0)
      BY <2>1, <3>1, OnlyInStore
    <3>3. freed'[p] = 1 /\ p \notin orphans'
      BY <1>3, <1>6, <2>1, <2>2, <3>2
    <3>4. OnlyAt(p, "freed", Null)'
      BY <1>3, <1>5, <3>2, <3>3 DEF IsAt, OnlyAt
    <3> QED BY <3>3, <3>4 DEF OnePlace
  <2>3. CASE p \notin gone
    <3>1. freed'[p] = freed[p] /\ (p \in orphans' <=> p \in orphans)
      BY <1>3, <1>6, <2>3
    <3>2. \A k, y : IsAt(p, k, y)' <=> IsAt(p, k, y)
      BY <1>3, <1>5, <3>1 DEF IsAt
    <3> QED BY <2>1, <3>1, <3>2, Stays
  <2> QED BY <2>2, <2>3
<1>10. ScanIsSafe'
  BY <1>3, <1>5 DEF IInv, ScanIsSafe
<1>11. HeldIsKept'
  BY <1>3, <1>4, <1>6 DEF IInv, HeldIsKept, Typed
<1> QED BY <1>7, <1>8, <1>9, <1>10, <1>11 DEF IInv, PlaceInv

\* From the bag of a thread that exits into the store.
LEMMA AdoptOrphansStep ==
  ASSUME Declared, IInv, NEW t \in Threads, AdoptOrphans(t)
  PROVE  IInv'
<1>1. pc[t] \in {"idle", "retire"} /\ bag[t] \subseteq Objects
  BY DEF AdoptOrphans, IInv, Typed
<1>2. /\ alive' = alive \ {t} /\ bag' = [bag EXCEPT ![t] = {}]
      /\ orphans' = orphans \cup bag[t] /\ orphaned' = orphaned \cup bag[t]
      /\ UNCHANGED <<src, cell, protect, held, freed, pc, scan>>
  BY DEF AdoptOrphans
<1>3. /\ bag' \in [Threads -> SUBSET Objects]
      /\ bag'[t] = {} /\ \A q \in Threads \ {t} : bag'[q] = bag[q]
  BY <1>2 DEF IInv, Typed
<1>4. Typed'
  BY <1>1, <1>2, <1>3, ThreadTyped DEF IInv, Typed, Scans
<1>5. HeldIsNamed'
  BY <1>2, ReadersKept
<1>6. ASSUME NEW p \in Objects
      PROVE  OnePlace(p)' /\ freed'[p] <= 1
  <2>1. OnePlace(p) /\ freed'[p] <= 1
    BY <1>2 DEF IInv, PlaceInv
  <2>2. CASE p \in bag[t]
    <3>1. IsAt(p, "bag", t)
      BY <2>2 DEF IsAt
    <3>2. /\ \A y \in Sources : src[y] # p
          /\ \A y \in Threads : scan[y].node # p /\ (p \in bag[y] => y = t)
          /\ p \notin orphans /\ ~(freed[p] > 0)
      BY <2>1, <3>1, OnlyInBag
    <3>3. OnlyAt(p, "store", Null)'
      BY <1>2, <1>3, <2>2, <3>2 DEF IsAt, OnlyAt
    <3> QED BY <2>1, <3>3 DEF OnePlace
  <2>3. CASE p \notin bag[t]
    <3>1. (p \in orphans' <=> p \in orphans) /\ \A y \in Threads : p \in bag'[y] <=> p \in bag[y]
      BY <1>2, <1>3, <2>3
    <3>2. \A k, y : IsAt(p, k, y)' <=> IsAt(p, k, y)
      BY <1>2, <3>1 DEF IsAt
    <3> QED BY <2>1, <3>2, Stays
  <2> QED BY <2>2, <2>3
<1>7. ScanIsSafe'
  BY <1>1, <1>2, <1>3 DEF IInv, ScanIsSafe
<1>8. HeldIsKept'
  BY <1>2 DEF IInv, HeldIsKept
<1> QED BY <1>4, <1>5, <1>6, <1>7, <1>8 DEF IInv, PlaceInv

-----------------------------------------------------------------------------
(* The invariant *)

\* At first every object is linked and nobody holds one.
LEMMA InitInv ==
  ASSUME Declared, Init
  PROVE  IInv
<1>1. Null \notin Objects /\ NumReaders * kCellsPerReader \in Nat
  BY DEF Declared
<1>2. NoScan \in [at : Nat, named : SUBSET Objects, node : Objects \cup {Null}]
      /\ NoScan.at = 1 /\ NoScan.node = Null
  BY DEF NoScan
<1>3. Idle \in [pc : {"idle", "set", "again"}, from : Sources \cup {Null},
                cell : Nat, ptr : Objects \cup {Null}] /\ Idle.pc = "idle"
  BY DEF Idle
<1>4. /\ \A t \in Threads : scan[t] = NoScan /\ pc[t] = "idle" /\ bag[t] = {}
      /\ \A r \in Readers : protect[r] = Idle
      /\ \A i \in Cells : held[i] = Null
      /\ \A o \in Objects : freed[o] = 0
      /\ orphans = {}
  BY DEF Init
<1>5. Typed
  <2>1. /\ \A r \in Readers : ~Protecting(r)
        /\ \A t \in Threads : /\ scan[t].at \in 1..(NumReaders * kCellsPerReader + 1)
                              /\ scan[t].at = 1 /\ scan[t].node = Null
    BY <1>1, <1>2, <1>3, <1>4 DEF Protecting
  <2>2. /\ src \in [Sources -> Objects \cup {Null}]
        /\ cell \in [Cells -> Objects \cup {Null}] /\ held \in [Cells -> Objects \cup {Null}]
        /\ bag \in [Threads -> SUBSET Objects] /\ freed \in [Objects -> Nat]
        /\ orphans \subseteq orphaned /\ orphaned \subseteq Objects /\ alive \subseteq Threads
        /\ pc \in [Threads -> {"idle", "retire", "scan", "orphans"}]
    BY DEF Init
  <2>3. scan \in [Threads -> [at : Nat, named : SUBSET Objects, node : Objects \cup {Null}]]
    BY <1>2 DEF Init
  <2>4. protect \in [Readers -> [pc : {"idle", "set", "again"}, from : Sources \cup {Null},
                                 cell : Nat, ptr : Objects \cup {Null}]]
    BY <1>3 DEF Init
  <2> QED BY <1>4, <2>1, <2>2, <2>3, <2>4 DEF Typed
<1>6. HeldIsNamed /\ ScanIsSafe /\ HeldIsKept
  BY <1>3, <1>4 DEF HeldIsNamed, ScanIsSafe, HeldIsKept, Protecting
<1>7. ASSUME NEW o \in Objects
      PROVE  OnePlace(o) /\ freed[o] <= 1
  <2>1. PICK s \in Sources : src[s] = o
    BY DEF Init
  <2>2. \A y \in Sources : src[y] = o => y = s
    BY <2>1 DEF Init
  <2>3. \A y \in Threads : scan[y].node # o /\ o \notin bag[y]
    BY <1>1, <1>2, <1>4
  <2>4. OnlyAt(o, "source", s)
    BY <1>4, <2>1, <2>2, <2>3 DEF IsAt, OnlyAt
  <2> QED BY <1>4, <2>4 DEF OnePlace
<1> QED BY <1>5, <1>6, <1>7 DEF IInv, PlaceInv

\* Every step keeps the invariant.
LEMMA NextInv ==
  ASSUME Declared, IInv, [Next]_hazardVars
  PROVE  IInv'
<1>1. ASSUME NEW r \in Readers,
             \/ Set(r) \/ Protect(r)
             \/ \E k \in 1..kCellsPerReader :
                  Clear(r, k) \/ \E s \in Sources : ProtectLoads(r, k, s)
      PROVE  IInv'
  BY <1>1, SetStep, ProtectStep, ClearStep, ProtectLoadsStep
<1>2. ASSUME NEW t \in Threads,
             \/ Retire(t) \/ Scan(t) \/ Sees(t) \/ SweepBag(t) \/ SweepOrphans(t)
             \/ AdoptOrphans(t)
             \/ \E s \in Sources : Unlink(t, s)
      PROVE  IInv'
  BY <1>2, RetireStep, ScanStep, SeesStep, SweepBagStep, SweepOrphansStep,
     AdoptOrphansStep, UnlinkStep
<1>3. CASE UNCHANGED hazardVars
  <2> USE <1>3 DEF hazardVars
  <2>1. Typed' /\ HeldIsNamed'
    BY DEF IInv, Typed, HeldIsNamed, Protecting, Row, CellOf
  <2>2. PlaceInv'
    <3> SUFFICES ASSUME NEW o \in Objects
                 PROVE  OnePlace(o)' /\ freed'[o] <= 1
      BY DEF PlaceInv
    <3>1. \A k, y : IsAt(o, k, y)' <=> IsAt(o, k, y)
      BY DEF IsAt
    <3> QED BY <3>1, Stays DEF IInv, PlaceInv
  <2>3. HeldIsKept' /\ ScanIsSafe'
    BY DEF IInv, HeldIsKept, ScanIsSafe
  <2> QED BY <2>1, <2>2, <2>3 DEF IInv
<1> QED BY <1>1, <1>2, <1>3 DEF Next, ReaderNext, ThreadNext

\* Scan's argument is an invariant: whatever its walk has passed and a reader
\* holds is seen named or is not in the bag the walk is for.
THEOREM ScansAreSafe == ASSUME Declared PROVE Spec => []IInv
<1>1. Init => IInv
  BY InitInv
<1>2. IInv /\ [Next]_hazardVars => IInv'
  BY NextInv
<1> QED BY <1>1, <1>2, PTL DEF Spec

\* What Protect has returned is not freed while the cell names it, by any Scan
\* of any thread that interleaves with Protect's loads and stores; the one
\* exception is a pointer that an exiting thread left to the store of orphans.
THEOREM ProtectedIsKept == ASSUME Declared PROVE Spec => []ProtectedIsNotFreed
<1>1. IInv => ProtectedIsNotFreed
  BY DEF IInv, Typed, HeldIsKept, ProtectedIsNotFreed, Held, Freed
<1> QED BY <1>1, ScansAreSafe, PTL

\* Places(o), kind by kind, is what IsAt says.
LEMMA PlacesAre ==
  ASSUME NEW o \in Objects, NEW kind, NEW x, OnlyAt(o, kind, x)
  PROVE  Places(o) = {<<kind, x>>}
<1>1. \A k, y : <<k, y>> \in Places(o) <=> IsAt(o, k, y)
  BY DEF Places, IsAt
<1>2. \A p \in Places(o) : \E k, y : p = <<k, y>>
  BY DEF Places
<1> QED BY <1>1, <1>2 DEF OnlyAt

\* An object is linked by one source, or unlinked by the one thread that is
\* about to retire it, or in one bag, or in the store, or freed, and it is freed
\* once: no interleaving of Retire, Scan and a thread's exit loses or doubles it.
THEOREM RetiredIsFreedOnce == ASSUME Declared PROVE Spec => []RetiredOnce
<1>1. ASSUME IInv PROVE RetiredOnce
  <2> SUFFICES ASSUME NEW o \in Objects
               PROVE  freed[o] <= 1 /\ \E p \in Places(o) : Places(o) = {p}
    BY DEF RetiredOnce
  <2>1. PICK kind, x : OnlyAt(o, kind, x)
    BY <1>1 DEF IInv, PlaceInv, OnePlace
  <2>2. Places(o) = {<<kind, x>>}
    BY <2>1, PlacesAre
  <2> QED BY <1>1, <2>2 DEF IInv, PlaceInv
<1> QED BY <1>1, ScansAreSafe, PTL

=============================================================================
