SPECIFICATION Spec
CONSTANTS
  N = 4
  Setups <- WorkersSetups
  Picks = {0}
  k1 = k1
  k2 = k2
  k3 = k3
  k4 = k4
  NoTask = NoTask
  NeverParks = FALSE
  StealDepth = 1
  Affinities = {}
  MayStop = FALSE
  Callers = {c1, c2}
  Tasks = {k1, k2, k3, k4}
  LaneTasks = {k4}
  MayPause = FALSE
  Migrate = TRUE
  Intake = TRUE
  Ks = {0, 2}
  Fs = {1}
  Waves = {1}
  Recruits = {1}
  MaxMoves = 1
  MaxSwitches = 0
INVARIANTS  NoSleepOnWork  
CHECK_DEADLOCK FALSE
SYMMETRY Symmetry
