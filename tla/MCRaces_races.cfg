CONSTANTS
  t1 = t1
  t2 = t2
  t3 = t3
  Thread = {t1, t2, t3}
  Main = t1
  Mutex = {"m"}
  CondMutex = "m"
  NoThread = NoThread
  NoArg = NoArg
  BarrierCount = 2
  RwlockCounts = TRUE
  SignalHolding = TRUE
  Adaptive = TRUE
  RateParam = 2
  Burst = 2
  Ops = {"access", "mutex", "join"}
  MaxOps = 5
SPECIFICATION RacesSpec
SYMMETRY Symmetry
INVARIANTS
  NoFalseReport
  FirstRaceFound
  FastTrackAgrees
  LoftRules
CHECK_DEADLOCK FALSE
