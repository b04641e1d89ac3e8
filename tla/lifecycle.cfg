SPECIFICATION LifeSpec
CONSTANTS
  Clients = {j, f}
  Foreign = {f}
  EntryIds = {1}
  Hwm = 1
  Garbage = Garbage
  Invalid = Invalid
  MaxFaults = 1
  Closed = Closed
  None = None
CHECK_DEADLOCK FALSE
INVARIANTS LifeTypeOK LoopEndsFirst OnlySignalsStop JoinNeverHangs
PROPERTIES ShutdownCompletes
