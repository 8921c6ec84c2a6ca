SPECIFICATION FairWaitsSpec
CONSTANTS
  Parts = {"mutex", "semaphore", "cv", "group", "direct"}
  Fibers = {f1, f2}
  Cancellable = {f1}
  Threads = {t1}
  InitPermits = 1
  MaxPermits = 2
  MaxPosts = 1
  Notifiers = {n1}
  Tasks = {k1, k2}
  MaxSpawns = 0
  MaxWaits = 1
  SecondWord = {f2}
  Signallers = {s1}
  Events = {e1, e2}
  MaxRepeats = 1
  Buf = 1
  NoTask = NoTask
CHECK_DEADLOCK FALSE
PROPERTIES WaitersServed GroupWaitEnds
