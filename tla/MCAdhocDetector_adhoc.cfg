CONSTANTS
  Thread = {1, 2, 3}
  Lock = {"m", "n"}
  Addr = {"x", "f"}
  Text <- MCText
  Programs <- MCPrograms
  Ranges <- MCRanges
  SpinLoops <- MCSpinLoops
  CondLoops <- MCCondLoops
  ExitLines = {41}
  Threshold = 2
  ReadMetaLen = 1
  WriteMetaLen = 1
  MaxClock = 8
SPECIFICATION Spec
INVARIANTS
  EpochsEnd
  WaitEdgesReal
CHECK_DEADLOCK FALSE
