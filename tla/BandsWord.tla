----------------------------- MODULE BandsWord -----------------------------
(***************************************************************************)
(* g_bands: the reserved band [0, K), the awake floor [K, K+F), the floor  *)
(* base Fbase and the bounds Kmin..Kmax, packed in one 64-bit word that is *)
(* only ever changed by compare-exchange loops (include/TaskScheduler.h).  *)
(* A loop computes its new word from the word it replaces, so one setter   *)
(* is one atomic function of the word.                                     *)
(***************************************************************************)
EXTENDS Integers

CONSTANT N   \* workers.size(), fixed once StartPool has built the pool

ASSUME PoolAssumption == N \in Nat \ {0}

Words == [f : 0..255, fb : 0..255, k : 0..255, kmax : 0..255, kmin : 0..255]

AtMost(a, b) == IF a < b THEN a ELSE b
AtLeast(a, b) == IF a < b THEN b ELSE a

\* What is left of the pool for one band when the other has x workers: one
\* worker stays outside both.
Room(x) == IF N > x + 1 THEN N - x - 1 ELSE 0

BandsSetFb(w, fb) == [w EXCEPT !.fb = fb]
BandsSetKmax(w, km) == [w EXCEPT !.kmax = km]
BandsSetKmin(w, km) == [w EXCEPT !.kmin = km]

\* F never under its base, and then clamped to the room K leaves.
BandsSetF(w, f) ==
  LET want == AtLeast(f, w.fb)
  IN [w EXCEPT !.f = IF N >= 2 THEN AtMost(want, Room(w.k)) ELSE want]

\* Faulty variant: K does not leave the floor its room.
BandsSetKUnclamped(w, k) ==
  [w EXCEPT !.k = IF w.kmax # 0 THEN AtMost(k, w.kmax) ELSE k]

\* K clamped to Kmax and to the room F leaves; F does not move.
BandsSetK(w, k) ==
  LET want == IF w.kmax # 0 THEN AtMost(k, w.kmax) ELSE k
  IN [w EXCEPT !.k = IF N >= 2 THEN AtMost(want, Room(w.f)) ELSE want]

\* The compare-exchange of F alone: neither base nor room is looked at.
BandsCasF(w, expected, desired) ==
  IF w.f = expected THEN [w EXCEPT !.f = desired] ELSE w

\* The word as the park gate and placement see it, clamped to the pool.
GetBands(w) ==
  IF N = 1 THEN [k |-> 0, f |-> 1]
  ELSE LET k == AtMost(w.k, N - 1)
       IN [k |-> k, f |-> IF k + w.f > N THEN N - k ELSE w.f]

OnFloor(b, i) == b.k <= i /\ i < b.k + b.f

\* How far NoteFloorCrowding and a worker's long body may grow the floor:
\* the user's cap (0: all but two workers), and at least two workers beside
\* the reserved band stay out.
FloorCap(w, userCap) ==
  LET structural == IF N >= w.k + 2 THEN N - w.k - 2 ELSE 0
      cap == IF userCap # 0 THEN userCap
             ELSE AtLeast(IF N >= 2 THEN N - 2 ELSE 0, w.fb)
  IN AtMost(cap, structural)

\* The floor wanted for a wave of n submissions, from the word w.
FloorWanted(w, n, userCap) ==
  LET wave == IF n = 0 THEN 1 ELSE n
  IN AtMost(AtMost(w.f + wave, wave + w.fb), FloorCap(w, userCap))

\* A wave grows the floor: the early returns of NoteFloorCrowding.
FloorMayGrow(w, n, userCap) ==
  /\ N >= 2 /\ N > w.k + 1
  /\ w.f < FloorCap(w, userCap)
  /\ w.f <= FloorWanted(w, n, userCap)

\* What GetBands asserts of K and F.
KAndFFitThePool(w) == N >= 2 => w.k + w.f <= N
=============================================================================
