CONSTANTS
  Threads = {t1, t2}
  Root = t1
  NoThread = NoThread
  NumDetectors = 2
  Units <- MCUnits
  MaxEventNum = 1
  Calls <- MCCalls
  EarlyImages = FALSE
  MaxPending = 1
  Images = 1
  MaxOps = 2
SPECIFICATION Spec
INVARIANTS NoUseAfterFree NothingLeft
PROPERTY KeepsOrder
