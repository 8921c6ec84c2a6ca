SPECIFICATION PoolSpec
CONSTANTS
  Parts = {"place", "reserved", "restart", "workers", "outside", "life"}
  Null = Null
  Main = Main
  p1 = p1
  Pushers = {p1}
  OnWorker = {}
  N = 3
  Settings <- MCSettings
  CursorWrap = 4
  HiPriFloorLane = TRUE
  FollowsGrown = FALSE
  kStreakToSpill = 1
  kStreakSpillMax = 1
  ta = ta
  tb = tb
  tc = tc
  t1 = t1
  t2 = t2
  DepthWrap = 8
  BATCH_SIZE = 2
  c1 = c1
  c2 = c2
  w1 = w1
  w2 = w2
  LazySplitCap = 1
  LaneCapacity = 1
  IntMax = 15
  f1 = f1
  f2 = f2
  f3 = f3
  m1 = m1
  m2 = m2
  MaxInits = 2
CHECK_DEADLOCK FALSE
INVARIANTS PickFits  RangeRunsOnce 
