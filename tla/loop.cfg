SPECIFICATION LoopSpec
CONSTANTS
  Clients = {j, f}
  Foreign = {f}
  EntryIds = {1}
  Hwm = 2
  Garbage = Garbage
  Invalid = Invalid
  MaxFaults = 1
  Closed = Closed
  None = None
INVARIANTS LoopTypeOK OneReplyEach RecvNeverBlocks
PROPERTIES ImplementsTunnels CallsReturn PushedIsTaken
CHECK_DEADLOCK FALSE
