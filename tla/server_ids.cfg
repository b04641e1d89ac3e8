SPECIFICATION Spec
CONSTANTS
  Threads = {a, b}
  IdMax = 3
  TsMax = 1000001
  Times <- MCTimes
  Values = {v}
  WalMayLag = TRUE
  None = None
  CreateIds = {0}
  KeyIds = {1, 2}
  MaxCalls = 4
  MaxRestarts = 2
  MaxFaults = 1
  ClockStepsBack = TRUE
CHECK_DEADLOCK FALSE
SYMMETRY MCSymmetry
INVARIANTS TypeOK IndexSound DurableSound NoOrphanRows
PROPERTIES CounterRecovered GeneratedIdFresh CreationTimeKept
