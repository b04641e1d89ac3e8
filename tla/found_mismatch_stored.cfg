SPECIFICATION HttpSpec
CONSTANTS
  Threads = {w}
  Workers = {w}
  IdMax = 2
  TsMax = 1000001
  Times <- MCTimes
  Values = {u}
  Unset = u
  WalMayLag = FALSE
  None = None
  CreateIds = {0, 2}
  KeyIds = {1, 2}
  MaxCalls = 1
  MaxRestarts = 0
  MaxFaults = 0
  ClockStepsBack = FALSE
CHECK_DEADLOCK FALSE
INVARIANTS MismatchRefused
