SPECIFICATION LifeSpec
CONSTANTS
  Clients = {j}
  Foreign = {}
  EntryIds = {1}
  Hwm = 1
  Garbage = Garbage
  Invalid = Invalid
  MaxFaults = 1
  Closed = Closed
  None = None
CHECK_DEADLOCK FALSE
PROPERTIES InterruptEndsServer
