CONSTANTS
  t1 = t1
  t2 = t2
  t3 = t3
  Thread = {t1, t2, t3}
  Main = t1
  Mutex = {"m"}
  NoThread = NoThread
  NoArg = NoArg
  BarrierCount = 2
  Ops = {"access", "mutex", "trylock", "rwlock", "join", "barrier", "cond", "sem"}
  MaxOps = 4
SPECIFICATION Spec
SYMMETRY Symmetry
INVARIANTS
  TypeOK
  ThreadSets
  VerifyLockInv
  PostponedMetas
  OwnerSound
  RwOwnersSound
  SomeoneReleased
  CountsSound
CHECK_DEADLOCK FALSE
