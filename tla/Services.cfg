SPECIFICATION Spec
CONSTANTS
  Parts = {"timer", "chain", "stop", "repeat", "accept", "port"}
  Slots = 2
  Levels = 2
  Batch = 1
  Delays = {0, 1, 3, 5}
  MaxArms = 2
  MaxNow = 6
  f1 = f1
  f2 = f2
  l1 = l1
  l2 = l2
  Bytes = 2
  kShards = 1
  kBatch = 2
  MaxTargets = 2
  Entries = 2
  Wake = Wake
  All = All
  AcceptSlots = {1, 2}
  Waiters = {w1, w2}
  MaxSockets = 3
  PortFibers = {f1, f2}
  PortThreads = {l1, l2}
  PortOps = 1
  PortStops = 1
  PortCancels = 1
CHECK_DEADLOCK FALSE
INVARIANTS TimersKept  OneInFlight 
