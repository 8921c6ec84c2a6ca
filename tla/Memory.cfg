SPECIFICATION MCSpec
CONSTANTS
  Parts = {"epochs", "hazard", "registry", "slab"}
  Threads = {t1, t2}
  Objects = {o1}
  MaxEpoch = 2
  Null = Null
  NumReaders = 1
  kCellsPerReader = 2
  Nodes = {o1, o2}
  Sources = {s1, s2}
  Fibers = {f1, f2}
  NumWorkers = 2
  NumExternals = 1
  activeCapacity = 2
  AnyHolder = Any
  MaxDebts = 2
  MaxMoves = 1
  memSlots <- MCmemSlots
  kGrowSlots = 1
  BATCH = 1
  MaxExtents = 1
CHECK_DEADLOCK FALSE
INVARIANTS  ProtectedIsNotFreed RetiredOnce 
