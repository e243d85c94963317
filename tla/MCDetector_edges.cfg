CONSTANTS
  t1 = t1
  t2 = t2
  t3 = t3
  Thread = {t1, t2, t3}
  Main = t1
  Mutex = {"m"}
  CondMutex = "m"
  NoThread = NoThread
  NoArg = NoArg
  BarrierCount = 2
  RwlockCounts = TRUE
  SignalHolding = TRUE
  Ops = {"access", "mutex", "join", "barrier", "cond", "sem", "rwlock"}
  MaxOps = 4
SPECIFICATION Spec
SYMMETRY Symmetry
INVARIANTS
  TypeOK
  NoEdgeLost
  EpochUnpublished
  RwlockRefInv
CHECK_DEADLOCK FALSE
