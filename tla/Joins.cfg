SPECIFICATION WaitsSpec
CONSTANTS
  Parts = {"group", "event", "direct"}
  Fibers = {f1, f2}
  Cancellable = {f1}
  Threads = {t1}
  InitPermits = 1
  MaxPermits = 2
  MaxPosts = 1
  Notifiers = {n1}
  Tasks = {k1, k2}
  MaxSpawns = 1
  MaxWaits = 1
  SecondWord = {f2}
  Signallers = {s1, s2}
  Events = {e1, e2}
  MaxRepeats = 1
  Buf = 1
  NoTask = NoTask
SYMMETRY Symmetry
CHECK_DEADLOCK FALSE
INVARIANTS WaitersResumedOnce NoStrandedWaiter CancelledAreSwept GroupQuietAfterJoin
