CONSTANTS
  t1 = t1
  t2 = t2
  t3 = t3
  s1 = s1
  s2 = s2
  s3 = s3
  w1 = w1
  r2 = r2
  w3 = w3
  Thread = {t1, t2}
  Main = t1
  Mutex = {"m"}
  NoThread = NoThread
  NoArg = NoArg
  BarrierCount = 2
  PStmt = {s1, s2, s3}
  PotentialPairs <- MCPairs
  Inst = {w1, r2, w3}
  StmtOf <- MCStmtOf
  TypeOf <- MCTypeOf
  Unit = {1}
  Rwlock = "rw"
  SnapLen = 2
  HistoryAnalysis = TRUE
  HarmfulAnalysis = TRUE
  NoFile = NoFile
  NullFile <- MCNullFile
  DeleteFile = {s1}
  IndexFile = {s2}
  GlobalUnits = {1}
  Ops = {"access", "mutex", "rwlock", "join"}
  MaxOps = 4
SPECIFICATION VSpec
INVARIANTS
  LockSetSound
  DatabaseInv
  WaitingFindable
PROPERTIES
  ImplementsScheduler
  ReportsSound
CHECK_DEADLOCK FALSE
