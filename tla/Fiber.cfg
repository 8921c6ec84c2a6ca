SPECIFICATION FairSpec
CONSTANTS
  Fibers = {f1, f2, f3}
  Wakers = {w1, w2}
INVARIANTS TypeOK NoStrandedFiber OnePlace PooledIsUnknown
PROPERTIES ImplementsParkWake
