SPECIFICATION Spec
CONSTANTS
  Parts = {"dag"}
  Producers = {p1, p2}
  Tasks = {q1, q2, q3}
  Consumer = c1
  Stub = Stub
  Null = Null
  MaxPushes = 4
  Thieves = {h1, h2}
  InitCapacity = 1
  MaxPush = 4
  MaxBatch = 2
  Owners = {o1, o2}
  Readers = {r1}
  NumSlots = 2
  GenMod = 4
  MaxDepth = 2
  MaxScopes = 3
  d1 = d1
  d2 = d2
  d3 = d3
  Shapes <- MCShapes
  MaxEdges = 3
  MayCancel = FALSE
CHECK_DEADLOCK FALSE
INVARIANT DagWalkSeesLiveNodes
