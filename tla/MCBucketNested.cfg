SPECIFICATION TransferSpec
CONSTANTS
  NameOrder <- MCNames
  BigNames <- MCBig
  FullMarkers <- MCFull
  Commands <- MCCommands
  Parts <- MCParts
  PageSize = 2
  MaxPending = 1
  DeleteBatch = 9
  MaxStoreFaults = 0
  MaxAppWrites = 0
CHECK_DEADLOCK FALSE
INVARIANTS
  NothingLost
