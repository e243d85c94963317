CONSTANTS
  t1 = t1
  t2 = t2
  t3 = t3
  Thread = {t1, t2, t3}
  Main = t1
  Mutex = {"m"}
  NoThread = NoThread
  NoArg = NoArg
  BarrierCount = 2
  Ops = {"access"}
  MaxOps = 3
SPECIFICATION PromptSpec
PROPERTIES
  SomeoneResumes
  AccessReturns
