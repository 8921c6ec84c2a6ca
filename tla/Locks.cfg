SPECIFICATION WaitsSpec
CONSTANTS
  Parts = {"mutex", "semaphore", "cv"}
  Fibers = {f1, f2, f3}
  Cancellable = {f1, f2}
  Threads = {t1}
  InitPermits = 1
  MaxPermits = 2
  MaxPosts = 1
  Notifiers = {n1}
  Tasks = {k1}
  MaxSpawns = 0
  MaxWaits = 0
  SecondWord = {}
  Signallers = {s1}
  Events = {e1}
  MaxRepeats = 0
  Buf = 1
  NoTask = NoTask
SYMMETRY FiberSymmetry
INVARIANTS MutexOwnership WaitersResumedOnce  SemPermitsConserved CancelledAreSwept CvFramesAreThere
