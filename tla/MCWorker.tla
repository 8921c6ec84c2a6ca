------------------------------ MODULE MCWorker ------------------------------
(***************************************************************************)
(* Small pools for Worker: what StartPool leaves behind, with the idle     *)
(* workers off the floor already parked or not.                            *)
(***************************************************************************)
EXTENDS Worker, TLC

CONSTANTS k1, k2, k3, k4    \* tasks

\* The bands for K and Fbase as configured before Init: ClampHotWorkersToPool,
\* and the floor re-asserted at the end of StartPool.
Started(k, fb) ==
  LET base == [f |-> 0, fb |-> fb, k |-> 0, kmax |-> k, kmin |-> k]
  IN BandsSetF(BandsSetK(base, IF k >= N THEN N - 1 ELSE k), fb)

Pool(k, fb, loaded, new) ==
  [word |-> Started(k, fb),
   parked |-> {w \in Workers : ~OnFloor(Started(k, fb), w)},
   backlog |-> loaded, fresh |-> new]

\* Work behind a long body on the floor; a push to an idle pool; one to the
\* lane of a reserved worker; a floor that leaves one worker.
WorkersSetups ==
  {Pool(0, 1, {k1, k2, k3}, {}), Pool(0, 0, {}, {k4}), Pool(1, 0, {}, {k4}),
   Pool(0, 3, {}, {})}

\* Pools whose bands stay as they are, not yet asleep.
LiveSetups ==
  {[Pool(b[1], b[2], {}, Tasks) EXCEPT !.parked = {}]
   : b \in {<<0, 0>>, <<0, 1>>, <<1, 0>>}}

Symmetry == Permutations({k1, k2, k3}) \cup Permutations(Callers)
=============================================================================
