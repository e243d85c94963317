CONSTANTS
  t1 = t1
  t2 = t2
  s1 = s1
  s2 = s2
  w1 = w1
  r2 = r2
  plain = plain
  Thread = {t1, t2}
  Main = t1
  Mutex = {"m"}
  NoThread = NoThread
  NoArg = NoArg
  BarrierCount = 2
  Ops = {"access", "mutex", "rwlock", "join", "barrier", "cond", "sem"}
  MaxOps = 3
  Inst = {w1, r2, plain}
  Code <- MCCode
  StmtOf <- MCStmtOf
  TypeOf <- MCTypeOf
  NoStmt = NoStmt
  PotentialPairs <- MCPairs
  Unit = {0}
  Rwlock = "rw"
  NumQueues = 2
  SnapLen = 2
SPECIFICATION PSpec
INVARIANTS
  SyncObjectsLive
  DatabaseInStep
  SomeoneReleased
CHECK_DEADLOCK FALSE
