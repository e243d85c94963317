CONSTANTS
  t1 = t1
  t2 = t2
  Thread = {t1, t2}
  Main = t1
  Mutex = {"m"}
  CondMutex = "m"
  NoThread = NoThread
  NoArg = NoArg
  BarrierCount = 2
  RwlockCounts = FALSE
  SignalHolding = TRUE
  Ops = {"access", "mutex", "join", "rwlock"}
  MaxOps = 5
  MaxListLen = 1
SPECIFICATION HybridsSpec
INVARIANTS
  TablesFollowLocks
  QuietWhenLocked
  PruningLosesNothing
  ReportsConcurrent
CHECK_DEADLOCK FALSE
