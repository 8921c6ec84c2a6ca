SPECIFICATION FairSpec
CONSTANTS
  N = 2
  Setups <- LiveSetups
  Picks = {1}
  k1 = k1
  k2 = k2
  k3 = k3
  k4 = k4
  NoTask = NoTask
  NeverParks = FALSE
  StealDepth = 1
  Affinities = {0}
  MayStop = TRUE
  MayPause = TRUE
  Callers = {c1}
  Tasks = {k4}
  LaneTasks = {k4}
  Migrate = FALSE
  Intake = TRUE
  Ks = {}
  Fs = {}
  Waves = {}
  Recruits = {}
  MaxMoves = 1
  MaxSwitches = 1

PROPERTIES TaskRuns JoinReturns
CHECK_DEADLOCK FALSE
