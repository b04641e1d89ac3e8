SPECIFICATION HttpSpec
CONSTANTS
  Threads = {w, x, z}
  Workers = {w, x}
  IdMax = 2
  TsMax = 1000001
  Times <- MCTimes
  Values = {u}
  Unset = u
  WalMayLag = FALSE
  None = None
  CreateIds = {0, 2}
  KeyIds = {1, 2}
  MaxCalls = 3
  MaxRestarts = 1
  MaxFaults = 1
  ClockStepsBack = FALSE
CHECK_DEADLOCK FALSE
SYMMETRY MCSymmetry
INVARIANTS HttpTypeOK IndexSound UpdatedAfterCreated StatusTellsEffect
PROPERTIES OnlyPathTouched
