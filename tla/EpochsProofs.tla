---------------------------- MODULE EpochsProofs ----------------------------
(***************************************************************************)
(* GuardedIsNotFreed for any number of threads and objects and any number  *)
(* of epochs.                                                              *)
(*                                                                         *)
(* A guard's epoch was read before it reached anything, so whatever it     *)
(* holds was linked later and is stamped, if at all, with an epoch at      *)
(* least as large: HeldIsKept.  That alone does not stop a reclaimer that  *)
(* has already walked past the guard's slot.  ScanIsSafe says why it need  *)
(* not: the reclaimer's epoch never exceeds the global one it started      *)
(* from, and what a thread it has passed reaches from then on is stamped   *)
(* with a global epoch read after that.                                    *)
(***************************************************************************)
EXTENDS Epochs, FiniteSetTheorems, TLAPS

Entries == [ptr : Objects, epoch : Nat]
Ticks == [epoch : Nat, ptr : Objects \cup {None}, left : SUBSET Threads]

Typed ==
  /\ globalEpoch \in Nat
  /\ localEpoch \in [Threads -> Nat \cup {None}]
  /\ guard \in [Threads -> {"out", "loaded", "in"}]
  /\ seen \in [Threads -> Nat]
  /\ held \in [Threads -> SUBSET Objects]
  /\ linked \subseteq Objects
  /\ bag \in [Threads -> SUBSET Entries] /\ orphans \subseteq Entries
  /\ pc \in [Threads -> {"idle", "retire", "retirePtr", "advance", "tryReclaim",
                         "scan", "orphans"}]
  /\ tick \in [Threads -> Ticks]
  /\ \A t \in Threads : pc[t] \in {"retire", "retirePtr"} => tick[t].ptr \in Objects

\* A guard holds objects only between its store and its end, and its slot says
\* the epoch it has read.
Announced ==
  \A t \in Threads :
    /\ seen[t] <= globalEpoch
    /\ guard[t] = "in" => localEpoch[t] = seen[t]
    /\ guard[t] # "in" => held[t] = {}

\* What is linked is neither retired, nor about to be, nor freed.
LinkedIsWhole ==
  \A o \in linked :
    /\ freed[o] = 0
    /\ \A e \in orphans : e.ptr # o
    /\ \A u \in Threads :
         /\ \A e \in bag[u] : e.ptr # o
         /\ pc[u] \in {"retire", "retirePtr"} => tick[u].ptr # o

\* Whatever stamp o has, in a bag, among the orphans or about to go there, is
\* x or later.
StampedSince(o, x) ==
  /\ \A e \in orphans : e.ptr = o => x <= e.epoch
  /\ \A u \in Threads :
       /\ \A e \in bag[u] : e.ptr = o => x <= e.epoch
       /\ pc[u] = "retirePtr" /\ tick[u].ptr = o => x <= tick[u].epoch

HeldIsKept ==
  \A t \in Threads : \A o \in held[t] : freed[o] = 0 /\ StampedSince(o, seen[t])

ScanIsSafe ==
  \A u \in Threads :
    /\ pc[u] \in {"scan", "orphans"} =>
         /\ tick[u].epoch <= globalEpoch
         /\ \A t \in Threads \ tick[u].left : \A o \in held[t] :
              StampedSince(o, tick[u].epoch)
    /\ pc[u] = "orphans" => tick[u].left = {}

IInv == Typed /\ Announced /\ LinkedIsWhole /\ HeldIsKept /\ ScanIsSafe

-----------------------------------------------------------------------------

\* The initial state: nothing is announced, reached or retired.
LEMMA InitInv == Init => IInv
<1> SUFFICES ASSUME Init PROVE IInv
  OBVIOUS
<1>1. Typed
  BY DEF Init, Typed, Ticks, Entries, NoTick, None
<1>2. Announced /\ LinkedIsWhole /\ HeldIsKept /\ ScanIsSafe
  BY DEF Init, Announced, LinkedIsWhole, HeldIsKept, ScanIsSafe
<1> QED BY <1>1, <1>2 DEF IInv

\* A reclaimer frees none of the objects that have no entry among those it
\* frees.
LEMMA FreeSpares ==
  ASSUME NEW entries, Free(entries), NEW o \in Objects, \A e \in entries : e.ptr # o,
         freed[o] = 0
  PROVE  freed'[o] = 0
<1>1. {e \in entries : e.ptr = o} = {}
  OBVIOUS
<1>2. Cardinality({}) = 0
  BY FS_EmptySet
<1> QED BY <1>1, <1>2 DEF Free

\* The locals of TryReclaim and RetirePtr, one field changed.
LEMMA TickFields ==
  ASSUME NEW r \in Ticks, NEW e \in Nat, NEW p \in Objects \cup {None},
         NEW S \in SUBSET Threads
  PROVE  /\ [r EXCEPT !.epoch = e] \in Ticks /\ [r EXCEPT !.epoch = e].ptr = r.ptr
         /\ [r EXCEPT !.ptr = p] \in Ticks /\ [r EXCEPT !.ptr = p].ptr = p
         /\ [r EXCEPT !.left = S, !.epoch = e] \in Ticks
         /\ [r EXCEPT !.left = S, !.epoch = e].ptr = r.ptr
BY DEF Ticks

\* The state stays of its type.
LEMMA StepTyped == Typed /\ [Next]_epochVars => Typed'
<1> SUFFICES ASSUME Typed, [Next]_epochVars PROVE Typed'
  OBVIOUS
<1> USE DEF Typed
<1>1. ASSUME NEW t \in Threads, EpochGuard(t) PROVE Typed'
  BY <1>1 DEF EpochGuard
<1>2. ASSUME NEW t \in Threads, Announce(t) PROVE Typed'
  BY <1>2 DEF Announce
<1>3. ASSUME NEW t \in Threads, Leave(t) PROVE Typed'
  BY <1>3 DEF Leave, None
<1>4. ASSUME NEW t \in Threads, NEW o \in Objects, Visit(t, o) PROVE Typed'
  BY <1>4 DEF Visit
<1>5. ASSUME NEW t \in Threads, NEW o \in Objects, Unlink(t, o) PROVE Typed'
  <2> DEFINE r == [tick[t] EXCEPT !.ptr = o]
  <2>1. r \in Ticks /\ r.ptr = o
    BY TickFields
  <2>2. tick' = [tick EXCEPT ![t] = r]
    BY <1>5 DEF Unlink
  <2> QED BY <1>5, <2>1, <2>2 DEF Unlink
<1>6. ASSUME NEW t \in Threads, CurrentEpoch(t) PROVE Typed'
  <2> DEFINE r == [tick[t] EXCEPT !.epoch = globalEpoch]
  <2>1. r \in Ticks /\ r.ptr = tick[t].ptr
    BY TickFields
  <2>2. tick' = [tick EXCEPT ![t] = r]
    BY <1>6 DEF CurrentEpoch
  <2> QED BY <1>6, <2>1, <2>2 DEF CurrentEpoch
<1>7. ASSUME NEW t \in Threads, RetirePtr(t) PROVE Typed'
  <2>1. [ptr |-> tick[t].ptr, epoch |-> tick[t].epoch] \in Entries
    BY <1>7 DEF RetirePtr, Entries, Ticks
  <2>2. tick' \in [Threads -> Ticks]
    BY <1>7 DEF RetirePtr, Ticks, NoTick
  <2> QED BY <1>7, <2>1, <2>2 DEF RetirePtr
<1>8. ASSUME NEW t \in Threads, Tick(t) PROVE Typed'
  <2> DEFINE r == [tick[t] EXCEPT !.epoch = globalEpoch]
  <2>1. r \in Ticks /\ r.ptr = tick[t].ptr
    BY TickFields
  <2>2. tick' = [tick EXCEPT ![t] = r]
    BY <1>8 DEF Tick
  <2> QED BY <1>8, <2>1, <2>2 DEF Tick
<1>9. ASSUME NEW t \in Threads, AdvanceEpoch(t) PROVE Typed'
  <2>1. tick' \in [Threads -> Ticks]
    BY <1>9 DEF AdvanceEpoch, Ticks, NoTick
  <2> QED BY <1>9, <2>1 DEF AdvanceEpoch
<1>10. ASSUME NEW t \in Threads, TryReclaim(t) PROVE Typed'
  <2>1. [NoTick EXCEPT !.epoch = globalEpoch, !.left = Threads] \in Ticks
    BY DEF Ticks, NoTick
  <2>2. tick' \in [Threads -> Ticks]
    BY <1>10, <2>1 DEF TryReclaim
  <2> QED BY <1>10, <2>2 DEF TryReclaim
<1>11. ASSUME NEW t \in Threads, MinActiveEpoch(t) PROVE Typed'
  <2>1. PICK u \in tick[t].left :
          tick' = [tick EXCEPT ![t].left = @ \ {u},
                               ![t].epoch = IF localEpoch[u] # None /\ localEpoch[u] < @
                                            THEN localEpoch[u] ELSE @]
    BY <1>11 DEF MinActiveEpoch
  <2>2. u \in Threads
    BY DEF Ticks
  <2> DEFINE m == IF localEpoch[u] # None /\ localEpoch[u] < tick[t].epoch
                  THEN localEpoch[u] ELSE tick[t].epoch
             r == [tick[t] EXCEPT !.left = @ \ {u}, !.epoch = m]
  <2>3. m \in Nat
    BY <2>2 DEF Ticks, None
  <2> HIDE DEF m
  <2>4. r \in Ticks /\ r.ptr = tick[t].ptr
    <3>1. tick[t] \in Ticks /\ tick[t].left \ {u} \in SUBSET Threads
      BY DEF Ticks
    <3> QED BY <2>3, <3>1, TickFields
  <2>5. tick' = [tick EXCEPT ![t] = r]
    BY <2>1 DEF m
  <2> QED BY <1>11, <2>4, <2>5 DEF MinActiveEpoch
<1>12. ASSUME NEW t \in Threads, SweepBag(t) PROVE Typed'
  BY <1>12 DEF SweepBag
<1>13. ASSUME NEW t \in Threads, SweepEpochOrphans(t) PROVE Typed'
  <2>1. tick' \in [Threads -> Ticks]
    BY <1>13 DEF SweepEpochOrphans, Ticks, NoTick
  <2> QED BY <1>13, <2>1 DEF SweepEpochOrphans
<1>14. ASSUME NEW t \in Threads, BagDies(t) PROVE Typed'
  BY <1>14 DEF BagDies
<1>15. CASE UNCHANGED epochVars
  BY <1>15 DEF epochVars
<1> QED BY <1>1, <1>2, <1>3, <1>4, <1>5, <1>6, <1>7, <1>8, <1>9, <1>10, <1>11, <1>12,
           <1>13, <1>14, <1>15 DEF Next

\* Stamps only ever grow: a new one is the global epoch.
LEMMA StampsKept ==
  ASSUME Typed, Next, NEW o \in Objects, NEW x \in Nat, x <= globalEpoch,
         StampedSince(o, x)
  PROVE  StampedSince(o, x)'
<1> USE DEF StampedSince
<1> PICK t \in Threads :
      \/ EpochGuard(t) \/ Announce(t) \/ Leave(t)
      \/ \E p \in Objects : Visit(t, p) \/ Unlink(t, p)
      \/ CurrentEpoch(t) \/ RetirePtr(t)
      \/ Tick(t) \/ AdvanceEpoch(t) \/ TryReclaim(t) \/ MinActiveEpoch(t)
      \/ SweepBag(t) \/ SweepEpochOrphans(t) \/ BagDies(t)
  BY DEF Next
<1>0. /\ bag \in [Threads -> SUBSET Entries] /\ tick \in [Threads -> Ticks]
      /\ pc \in [Threads -> {"idle", "retire", "retirePtr", "advance", "tryReclaim",
                             "scan", "orphans"}]
  BY DEF Typed
<1>1. CASE UNCHANGED <<bag, orphans, pc, tick>>
  BY <1>1
\* The bag and the orphans as they are, and t not about to retire.
<1>2. CASE /\ UNCHANGED <<bag, orphans>> /\ pc'[t] # "retirePtr"
           /\ \A u \in Threads \ {t} : pc'[u] = pc[u] /\ tick'[u] = tick[u]
  BY <1>2
<1>3. ASSUME NEW p \in Objects, Unlink(t, p) PROVE StampedSince(o, x)'
  BY <1>3, <1>2, <1>0 DEF Unlink
<1>4. CASE CurrentEpoch(t)
  <2>1. tick' = [tick EXCEPT ![t] = [tick[t] EXCEPT !.epoch = globalEpoch]]
    BY <1>4 DEF CurrentEpoch
  <2>2. tick'[t].epoch = globalEpoch /\ \A u \in Threads \ {t} : tick'[u] = tick[u]
    BY <2>1, <1>0 DEF Ticks
  <2> QED BY <1>4, <2>2, <1>0 DEF CurrentEpoch
<1>5. CASE RetirePtr(t)
  <2> DEFINE e == [ptr |-> tick[t].ptr, epoch |-> tick[t].epoch]
  <2>1. e.ptr = tick[t].ptr /\ e.epoch = tick[t].epoch /\ pc[t] = "retirePtr"
    BY <1>5 DEF RetirePtr
  <2>2. e.ptr = o => x <= e.epoch
    BY <2>1
  <2>3. orphans' \subseteq orphans \cup {e}
    BY <1>5 DEF RetirePtr
  <2>4. \A u \in Threads : bag'[u] \subseteq bag[u] \cup {e}
    BY <1>5, <1>0 DEF RetirePtr
  <2>5. \A u \in Threads : pc'[u] = "retirePtr" => pc[u] = "retirePtr" /\ tick'[u] = tick[u]
    BY <1>5, <1>0 DEF RetirePtr
  <2> HIDE DEF e
  <2> QED BY <2>2, <2>3, <2>4, <2>5
<1>6. CASE Tick(t)
  BY <1>6, <1>2, <1>0 DEF Tick
<1>7. CASE AdvanceEpoch(t)
  BY <1>7, <1>2, <1>0 DEF AdvanceEpoch
<1>8. CASE TryReclaim(t)
  BY <1>8, <1>2, <1>0 DEF TryReclaim
<1>9. CASE MinActiveEpoch(t)
  BY <1>9, <1>2, <1>0 DEF MinActiveEpoch
<1>10. CASE SweepBag(t)
  BY <1>10, <1>0 DEF SweepBag
<1>11. CASE SweepEpochOrphans(t)
  BY <1>11, <1>0 DEF SweepEpochOrphans
<1>12. CASE BagDies(t)
  BY <1>12, <1>0 DEF BagDies
<1> QED BY <1>1, <1>3, <1>4, <1>5, <1>6, <1>7, <1>8, <1>9, <1>10, <1>11, <1>12
        DEF EpochGuard, Announce, Leave, Visit

\* A reclaimer frees nothing that is linked or held.
LEMMA FreedKept ==
  ASSUME IInv, Next, NEW o \in Objects, o \in linked \/ \E t \in Threads : o \in held[t]
  PROVE  freed'[o] = 0
<1>0. freed[o] = 0
  BY DEF IInv, LinkedIsWhole, HeldIsKept
<1>1. ASSUME NEW u \in Threads, SweepBag(u) PROVE freed'[o] = 0
  <2> DEFINE safe == {e \in bag[u] : Safe(e, tick[u].epoch)}
  <2>1. ASSUME NEW e \in safe PROVE e.ptr # o
    <3>1. e \in bag[u] /\ e.epoch < tick[u].epoch
      BY DEF Safe
    <3>2. CASE o \in linked
      BY <3>1, <3>2 DEF IInv, LinkedIsWhole
    <3>3. CASE \E t \in Threads : o \in held[t]
      <4>1. StampedSince(o, tick[u].epoch)
        BY <3>3, <1>1 DEF IInv, ScanIsSafe, SweepBag
      <4>2. e.epoch \in Nat /\ tick[u].epoch \in Nat
        BY <3>1 DEF IInv, Typed, Entries, Ticks
      <4> QED BY <3>1, <4>1, <4>2 DEF StampedSince
    <3> QED BY <3>2, <3>3
  <2>2. Free(safe)
    BY <1>1 DEF SweepBag
  <2> HIDE DEF safe
  <2> QED BY <2>1, <2>2, <1>0, FreeSpares
<1>2. ASSUME NEW u \in Threads, SweepEpochOrphans(u) PROVE freed'[o] = 0
  <2> DEFINE safe == {e \in orphans : Safe(e, tick[u].epoch)}
  <2>1. ASSUME NEW e \in safe PROVE e.ptr # o
    <3>1. e \in orphans /\ e.epoch < tick[u].epoch
      BY DEF Safe
    <3>2. CASE o \in linked
      BY <3>1, <3>2 DEF IInv, LinkedIsWhole
    <3>3. CASE \E t \in Threads : o \in held[t]
      <4>1. StampedSince(o, tick[u].epoch)
        BY <3>3, <1>2 DEF IInv, ScanIsSafe, SweepEpochOrphans
      <4>2. e.epoch \in Nat /\ tick[u].epoch \in Nat
        BY <3>1 DEF IInv, Typed, Entries, Ticks
      <4> QED BY <3>1, <4>1, <4>2 DEF StampedSince
    <3> QED BY <3>2, <3>3
  <2>2. Free(safe)
    BY <1>2 DEF SweepEpochOrphans
  <2> HIDE DEF safe
  <2> QED BY <2>1, <2>2, <1>0, FreeSpares
<1>3. CASE UNCHANGED freed
  BY <1>3, <1>0
<1> QED BY <1>1, <1>2, <1>3 DEF Next, EpochGuard, Announce, Leave, Visit, Unlink,
           CurrentEpoch, RetirePtr, Tick, AdvanceEpoch, TryReclaim, MinActiveEpoch, BagDies

\* A guard's slot and its epoch.
LEMMA StepAnnounced == ASSUME IInv, Next PROVE Announced'
<1> USE DEF IInv, Typed, Announced
<1>1. ASSUME NEW t \in Threads, EpochGuard(t) PROVE Announced'
  BY <1>1 DEF EpochGuard
<1>2. ASSUME NEW t \in Threads, Announce(t) PROVE Announced'
  BY <1>2 DEF Announce
<1>3. ASSUME NEW t \in Threads, Leave(t) PROVE Announced'
  BY <1>3 DEF Leave
<1>4. ASSUME NEW t \in Threads, NEW o \in Objects, Visit(t, o) PROVE Announced'
  BY <1>4 DEF Visit
<1>5. ASSUME NEW t \in Threads, AdvanceEpoch(t) PROVE Announced'
  BY <1>5 DEF AdvanceEpoch
<1>6. CASE UNCHANGED <<globalEpoch, localEpoch, guard, seen, held>>
  BY <1>6
<1> QED BY <1>1, <1>2, <1>3, <1>4, <1>5, <1>6 DEF Next, Unlink, CurrentEpoch, RetirePtr,
           Tick, TryReclaim, MinActiveEpoch, SweepBag, SweepEpochOrphans, BagDies

\* What stays linked stays whole: an entry is made of what was unlinked.
LEMMA StepLinked == ASSUME IInv, Next PROVE LinkedIsWhole'
<1> SUFFICES ASSUME NEW o \in linked'
             PROVE  /\ freed'[o] = 0
                    /\ \A e \in orphans' : e.ptr # o
                    /\ \A u \in Threads :
                         /\ \A e \in bag'[u] : e.ptr # o
                         /\ pc'[u] \in {"retire", "retirePtr"} => tick'[u].ptr # o
  BY DEF LinkedIsWhole
<1>0. /\ bag \in [Threads -> SUBSET Entries] /\ tick \in [Threads -> Ticks]
      /\ pc \in [Threads -> {"idle", "retire", "retirePtr", "advance", "tryReclaim",
                             "scan", "orphans"}]
      /\ linked \subseteq Objects
  BY DEF IInv, Typed
<1>1. o \in linked
  BY DEF Next, EpochGuard, Announce, Leave, Visit, Unlink, CurrentEpoch, RetirePtr, Tick,
      AdvanceEpoch, TryReclaim, MinActiveEpoch, SweepBag, SweepEpochOrphans, BagDies
<1>2. freed'[o] = 0
  BY <1>0, <1>1, FreedKept
<1>3. /\ \A e \in orphans : e.ptr # o
      /\ \A u \in Threads : /\ \A e \in bag[u] : e.ptr # o
                            /\ pc[u] \in {"retire", "retirePtr"} => tick[u].ptr # o
  BY <1>1 DEF IInv, LinkedIsWhole
<1> PICK t \in Threads :
      \/ EpochGuard(t) \/ Announce(t) \/ Leave(t)
      \/ \E p \in Objects : Visit(t, p) \/ Unlink(t, p)
      \/ CurrentEpoch(t) \/ RetirePtr(t)
      \/ Tick(t) \/ AdvanceEpoch(t) \/ TryReclaim(t) \/ MinActiveEpoch(t)
      \/ SweepBag(t) \/ SweepEpochOrphans(t) \/ BagDies(t)
  BY DEF Next
<1>4. /\ \A e \in orphans' : e.ptr # o
      /\ \A u \in Threads : \A e \in bag'[u] : e.ptr # o
  <2>1. CASE RetirePtr(t)
    <3> DEFINE e == [ptr |-> tick[t].ptr, epoch |-> tick[t].epoch]
    <3>1. e.ptr # o
      BY <2>1, <1>3 DEF RetirePtr
    <3>2. orphans' \subseteq orphans \cup {e} /\ \A u \in Threads : bag'[u] \subseteq bag[u] \cup {e}
      BY <2>1, <1>0 DEF RetirePtr
    <3> HIDE DEF e
    <3> QED BY <3>1, <3>2, <1>3
  <2>2. CASE SweepBag(t)
    BY <2>2, <1>0, <1>3 DEF SweepBag
  <2>3. CASE SweepEpochOrphans(t)
    BY <2>3, <1>0, <1>3 DEF SweepEpochOrphans
  <2>4. CASE BagDies(t)
    BY <2>4, <1>0, <1>3 DEF BagDies
  <2>5. CASE UNCHANGED <<bag, orphans>>
    BY <2>5, <1>3
  <2> QED BY <2>1, <2>2, <2>3, <2>4, <2>5 DEF EpochGuard, Announce, Leave, Visit, Unlink,
             CurrentEpoch, Tick, AdvanceEpoch, TryReclaim, MinActiveEpoch
<1>5. ASSUME NEW u \in Threads, pc'[u] \in {"retire", "retirePtr"} PROVE tick'[u].ptr # o
  <2>1. ASSUME NEW p \in Objects, Unlink(t, p) PROVE tick'[u].ptr # o
    <3>1. CASE u = t
      <4>1. tick'[t] = [tick[t] EXCEPT !.ptr = p]
        BY <2>1, <1>0 DEF Unlink
      <4>2. tick'[t].ptr = p
        BY <4>1, <1>0, TickFields DEF Ticks
      <4> QED BY <3>1, <4>2, <2>1 DEF Unlink
    <3>2. CASE u # t
      BY <3>2, <2>1, <1>0, <1>3, <1>5 DEF Unlink
    <3> QED BY <3>1, <3>2
  <2>2. CASE CurrentEpoch(t)
    <3>1. tick'[u].ptr = tick[u].ptr /\ pc[u] \in {"retire", "retirePtr"}
      BY <2>2, <1>0, <1>5 DEF CurrentEpoch, Ticks
    <3> QED BY <3>1, <1>3
  <2>3. CASE pc[u] = pc'[u] /\ tick[u] = tick'[u]
    BY <2>3, <1>3, <1>5
  <2> QED BY <2>1, <2>2, <2>3, <1>0, <1>5 DEF EpochGuard, Announce, Leave, Visit, RetirePtr,
             Tick, AdvanceEpoch, TryReclaim, MinActiveEpoch, SweepBag, SweepEpochOrphans,
             BagDies
<1> QED BY <1>2, <1>4, <1>5

\* An object that is linked has no stamp at all.
LEMMA LinkedIsUnstamped ==
  ASSUME IInv, NEW o \in linked, NEW x PROVE StampedSince(o, x)
BY DEF IInv, LinkedIsWhole, StampedSince

\* What a guard holds after a step it held before, or has just reached while
\* it was linked; only an empty guard reads a new epoch.
LEMMA HeldBefore ==
  ASSUME IInv, Next, NEW t \in Threads, NEW o \in held'[t]
  PROVE  /\ o \in Objects /\ seen'[t] = seen[t]
         /\ \/ o \in held[t]
            \/ o \in linked /\ UNCHANGED <<globalEpoch, bag, orphans, pc, tick>>
<1>0. /\ held \in [Threads -> SUBSET Objects] /\ seen \in [Threads -> Nat]
      /\ linked \subseteq Objects
      /\ \A u \in Threads : guard[u] # "in" => held[u] = {}
  BY DEF IInv, Typed, Announced
<1>1. ASSUME NEW u \in Threads, NEW p \in Objects, Visit(u, p)
      PROVE  /\ o \in Objects /\ seen'[t] = seen[t]
             /\ \/ o \in held[t]
                \/ o \in linked /\ UNCHANGED <<globalEpoch, bag, orphans, pc, tick>>
  BY <1>0, <1>1 DEF Visit
<1>2. ASSUME NEW u \in Threads, EpochGuard(u)
      PROVE  o \in held[t] /\ seen'[t] = seen[t]
  BY <1>0, <1>2 DEF EpochGuard
<1>3. ASSUME NEW u \in Threads, Leave(u)
      PROVE  o \in held[t] /\ seen'[t] = seen[t]
  BY <1>0, <1>3 DEF Leave
<1>4. CASE UNCHANGED <<held, seen>>
  BY <1>0, <1>4
<1> QED BY <1>0, <1>1, <1>2, <1>3, <1>4 DEF Next, Announce, Unlink, CurrentEpoch, RetirePtr,
           Tick, AdvanceEpoch, TryReclaim, MinActiveEpoch, SweepBag, SweepEpochOrphans,
           BagDies

\* A stamp bound carries over to what a guard holds after the step.
LEMMA HeldStamps ==
  ASSUME IInv, Next, NEW t \in Threads, NEW o \in held'[t], NEW x \in Nat,
         x <= globalEpoch, o \in held[t] => StampedSince(o, x)
  PROVE  StampedSince(o, x)'
<1>1. o \in Objects /\ (o \in held[t] \/ o \in linked)
  BY HeldBefore
<1>2. StampedSince(o, x)
  BY <1>1, LinkedIsUnstamped
<1> QED BY <1>1, <1>2, StampsKept DEF IInv

\* What a guard holds is not freed, and is stamped no earlier than its epoch.
LEMMA StepHeld == ASSUME IInv, Next PROVE HeldIsKept'
<1> SUFFICES ASSUME NEW t \in Threads, NEW o \in held'[t]
             PROVE  freed'[o] = 0 /\ StampedSince(o, seen[t])'
  BY DEF HeldIsKept
<1>1. o \in Objects /\ seen'[t] = seen[t] /\ (o \in held[t] \/ o \in linked)
  BY HeldBefore
<1>2. freed'[o] = 0
  BY <1>1, FreedKept
<1>3. seen[t] \in Nat /\ seen[t] <= globalEpoch /\ (o \in held[t] => StampedSince(o, seen[t]))
  BY DEF IInv, Typed, Announced, HeldIsKept
<1> QED BY <1>1, <1>2, <1>3, HeldStamps DEF StampedSince

\* A lower bound is a weaker one.
LEMMA WeakerStamp ==
  ASSUME Typed, NEW o, NEW x \in Nat, NEW y \in Nat, y <= x, StampedSince(o, x)
  PROVE  StampedSince(o, y)
<1>1. /\ \A e \in orphans : e.epoch \in Nat
      /\ \A u \in Threads : tick[u].epoch \in Nat /\ \A e \in bag[u] : e.epoch \in Nat
  BY DEF Typed, Ticks, Entries
<1> QED BY <1>1 DEF StampedSince

\* What a reclaimer compares with: its own thread's locals after the step.
LEMMA ScanBefore ==
  ASSUME IInv, Next, NEW u \in Threads, pc'[u] \in {"scan", "orphans"}
  PROVE  \/ /\ pc[u] \in {"scan", "orphans"} /\ tick'[u] = tick[u]
            /\ pc'[u] = "orphans" => pc[u] = "orphans" \/ tick[u].left = {}
         \/ /\ pc'[u] = "scan" /\ tick'[u].epoch = globalEpoch /\ tick'[u].left = Threads
            /\ globalEpoch' = globalEpoch
         \/ /\ pc'[u] = "scan" /\ pc[u] = "scan"
            /\ UNCHANGED <<globalEpoch, held, bag, orphans, pc>>
            /\ \E v \in tick[u].left :
                 /\ tick'[u].left = tick[u].left \ {v}
                 /\ tick'[u].epoch = IF localEpoch[v] # None /\ localEpoch[v] < tick[u].epoch
                                       THEN localEpoch[v] ELSE tick[u].epoch
<1>0. /\ tick \in [Threads -> Ticks]
      /\ pc \in [Threads -> {"idle", "retire", "retirePtr", "advance", "tryReclaim",
                             "scan", "orphans"}]
  BY DEF IInv, Typed
<1> PICK t \in Threads :
      \/ EpochGuard(t) \/ Announce(t) \/ Leave(t)
      \/ \E p \in Objects : Visit(t, p) \/ Unlink(t, p)
      \/ CurrentEpoch(t) \/ RetirePtr(t)
      \/ Tick(t) \/ AdvanceEpoch(t) \/ TryReclaim(t) \/ MinActiveEpoch(t)
      \/ SweepBag(t) \/ SweepEpochOrphans(t) \/ BagDies(t)
  BY DEF Next
<1>1. CASE u = t /\ TryReclaim(t)
  BY <1>0, <1>1 DEF TryReclaim, NoTick
<1>2. CASE u = t /\ MinActiveEpoch(t)
  <2>1. PICK v \in tick[u].left :
          /\ pc[u] = "scan"
          /\ tick' = [tick EXCEPT ![u].left = @ \ {v},
                                  ![u].epoch = IF localEpoch[v] # None /\ localEpoch[v] < @
                                                 THEN localEpoch[v] ELSE @]
          /\ UNCHANGED <<globalEpoch, held, bag, orphans, pc>>
    BY <1>2 DEF MinActiveEpoch
  <2>2. /\ tick'[u].left = tick[u].left \ {v}
        /\ tick'[u].epoch = IF localEpoch[v] # None /\ localEpoch[v] < tick[u].epoch
                              THEN localEpoch[v] ELSE tick[u].epoch
    BY <1>0, <2>1 DEF Ticks
  <2> QED BY <2>1, <2>2
<1>3. CASE u = t /\ SweepBag(t)
  BY <1>0, <1>3 DEF SweepBag
<1>4. CASE u # t
  BY <1>0, <1>4 DEF EpochGuard, Announce, Leave, Visit, Unlink, CurrentEpoch, RetirePtr, Tick,
     AdvanceEpoch, TryReclaim, MinActiveEpoch, SweepBag, SweepEpochOrphans, BagDies
<1>5. CASE u = t /\ UNCHANGED <<pc, tick>>
  BY <1>5
<1> QED BY <1>0, <1>1, <1>2, <1>3, <1>4, <1>5 DEF EpochGuard, Announce, Leave, Visit, Unlink,
           CurrentEpoch, RetirePtr, Tick, AdvanceEpoch, SweepEpochOrphans, BagDies

\* The reclaimer's epoch bounds the stamps of everything held by the threads
\* it has passed.
LEMMA StepScan == ASSUME IInv, Next PROVE ScanIsSafe'
<1> SUFFICES ASSUME NEW u \in Threads, pc'[u] \in {"scan", "orphans"}
             PROVE  /\ tick'[u].epoch <= globalEpoch'
                    /\ \A t \in Threads \ tick'[u].left : \A o \in held'[t] :
                         StampedSince(o, tick[u].epoch)'
                    /\ pc'[u] = "orphans" => tick'[u].left = {}
  BY DEF ScanIsSafe
<1>0. /\ tick[u].epoch \in Nat /\ globalEpoch \in Nat /\ globalEpoch' \in Nat
      /\ globalEpoch <= globalEpoch'
      /\ localEpoch \in [Threads -> Nat \cup {None}] /\ tick[u].left \subseteq Threads
  <2>1. globalEpoch \in Nat
    BY DEF IInv, Typed
  <2>2. globalEpoch' = globalEpoch \/ globalEpoch' = globalEpoch + 1
    BY DEF Next, EpochGuard, Announce, Leave, Visit, Unlink, CurrentEpoch, RetirePtr, Tick,
       AdvanceEpoch, TryReclaim, MinActiveEpoch, SweepBag, SweepEpochOrphans, BagDies
  <2> QED BY <2>1, <2>2, StepTyped DEF IInv, Typed, Ticks
<1>1. pc[u] \in {"scan", "orphans"} =>
        /\ tick[u].epoch <= globalEpoch
        /\ \A t \in Threads \ tick[u].left : \A o \in held[t] : StampedSince(o, tick[u].epoch)
        /\ pc[u] = "orphans" => tick[u].left = {}
  BY DEF IInv, ScanIsSafe
<1>2. CASE /\ pc[u] \in {"scan", "orphans"} /\ tick'[u] = tick[u]
           /\ pc'[u] = "orphans" => pc[u] = "orphans" \/ tick[u].left = {}
  <2>1. ASSUME NEW t \in Threads \ tick'[u].left, NEW o \in held'[t]
        PROVE  StampedSince(o, tick[u].epoch)'
    <3>1. o \in held[t] => StampedSince(o, tick[u].epoch)
      BY <1>1, <1>2, <2>1
    <3>2. \A x \in Nat : x = tick[u].epoch => StampedSince(o, x)'
      BY <3>1, <1>0, <1>1, <1>2, HeldStamps
    <3> QED BY <3>2, <1>0, <1>2 DEF StampedSince
  <2> QED BY <1>0, <1>1, <1>2, <2>1
<1>3. CASE /\ pc'[u] = "scan" /\ tick'[u].epoch = globalEpoch /\ tick'[u].left = Threads
           /\ globalEpoch' = globalEpoch
  BY <1>0, <1>3
<1>4. CASE /\ pc'[u] = "scan" /\ pc[u] = "scan"
           /\ UNCHANGED <<globalEpoch, held, bag, orphans, pc>>
           /\ \E v \in tick[u].left :
                /\ tick'[u].left = tick[u].left \ {v}
                /\ tick'[u].epoch = IF localEpoch[v] # None /\ localEpoch[v] < tick[u].epoch
                                      THEN localEpoch[v] ELSE tick[u].epoch
  <2>1. PICK v \in tick[u].left :
          /\ tick'[u].left = tick[u].left \ {v}
          /\ tick'[u].epoch = IF localEpoch[v] # None /\ localEpoch[v] < tick[u].epoch
                                THEN localEpoch[v] ELSE tick[u].epoch
    BY <1>4
  <2>2. tick'[u].epoch \in Nat /\ tick'[u].epoch <= tick[u].epoch
    BY <2>1, <1>0
  <2>3. ASSUME NEW t \in Threads \ tick'[u].left, NEW o \in held[t]
        PROVE  StampedSince(o, tick'[u].epoch)
    <3>1. CASE t \notin tick[u].left
      BY <3>1, <2>2, <2>3, <1>0, <1>1, <1>4, WeakerStamp DEF IInv
    <3>2. CASE t = v
      <4>1. /\ localEpoch[v] = seen[v] /\ seen[v] \in Nat /\ seen[v] # None
            /\ StampedSince(o, seen[v])
        BY <3>2, <2>3 DEF IInv, Typed, Announced, HeldIsKept, None
      <4>2. tick'[u].epoch <= seen[v]
        BY <4>1, <2>1, <1>0
      <4> QED BY <4>1, <4>2, <2>2, WeakerStamp DEF IInv
    <3> QED BY <3>1, <3>2, <2>1
  <2>4. ASSUME NEW t \in Threads \ tick'[u].left, NEW o \in held'[t]
        PROVE  StampedSince(o, tick[u].epoch)'
    <3>1. o \in held[t] /\ StampedSince(o, tick'[u].epoch)
      BY <2>3, <2>4, <1>4
    <3>2. tick'[u].epoch <= globalEpoch
      BY <2>2, <1>0, <1>1, <1>4
    <3>3. \A x \in Nat : x = tick'[u].epoch => StampedSince(o, x)'
      BY <3>1, <3>2, <2>4, HeldStamps
    <3> QED BY <3>3, <2>2 DEF StampedSince
  <2> QED BY <1>0, <1>1, <1>4, <2>2, <2>4
<1> QED BY <1>2, <1>3, <1>4, ScanBefore

\* Every step keeps the inductive invariant.
LEMMA StepInv == IInv /\ [Next]_epochVars => IInv'
<1> SUFFICES ASSUME IInv, [Next]_epochVars PROVE IInv'
  OBVIOUS
<1>1. CASE Next
  BY <1>1, StepTyped, StepAnnounced, StepLinked, StepHeld, StepScan DEF IInv
<1>2. CASE UNCHANGED epochVars
  <2>1. Typed'
    BY StepTyped DEF IInv
  <2>2. Announced' /\ LinkedIsWhole'
    BY <1>2 DEF epochVars, IInv, Announced, LinkedIsWhole
  <2>3. HeldIsKept'
    BY <1>2 DEF epochVars, IInv, HeldIsKept, StampedSince
  <2>4. ScanIsSafe'
    BY <1>2 DEF epochVars, IInv, ScanIsSafe, StampedSince
  <2> QED BY <2>1, <2>2, <2>3, <2>4 DEF IInv
<1> QED BY <1>1, <1>2

\* TryReclaim frees nothing a live guard has reached, for any number of
\* threads and objects and with no bound on the epoch: a guard that read its
\* epoch long before it announced it, and a scan that passed the guard's slot
\* before the announcement, included.  The announcement's store and the loads
\* that follow it are taken in program order.
THEOREM ReclaimSafe == Spec => []GuardedIsNotFreed
<1>1. IInv => GuardedIsNotFreed
  BY DEF IInv, HeldIsKept, GuardedIsNotFreed
<1> QED BY <1>1, InitInv, StepInv, PTL DEF Spec
=============================================================================
