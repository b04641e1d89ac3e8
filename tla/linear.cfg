SPECIFICATION Spec
CONSTANTS
  Threads = {a, b, c}
  IdMax = 2
  TsMax = 1000001
  Times <- MCTimes
  Values = {v}
  WalMayLag = TRUE
  None = None
  CreateIds = {0, 1}
  KeyIds = {1}
  MaxCalls = 4
  MaxRestarts = 1
  MaxFaults = 1
  ClockStepsBack = FALSE
CHECK_DEADLOCK FALSE
SYMMETRY MCSymmetry
PROPERTIES ImplementsEntryStore UpdatesGoForward
