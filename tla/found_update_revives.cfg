SPECIFICATION Spec
CONSTANTS
  Threads = {a, b}
  IdMax = 2
  TsMax = 1000001
  Times <- MCTimes
  Values = {v}
  WalMayLag = FALSE
  None = None
  CreateIds = {0}
  KeyIds = {1}
  MaxCalls = 3
  MaxRestarts = 0
  MaxFaults = 0
  ClockStepsBack = FALSE
CHECK_DEADLOCK FALSE
PROPERTIES OnlyCreateCreates
