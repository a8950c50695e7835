CONSTANTS
  NBlocks = 3
  NPages = 2
  PageSize = 2
  Image <- MCImage
  Erased = 0
  Junk = 99
  Pad <- MCPad
  Delivered <- MCDelivered
  Buffers <- MCBuffers
  Overshoot = 2
  MaxCalls = 3
  RoomChecked = TRUE
SPECIFICATION FairSpec
INVARIANTS
  TypeOK
  ProgramsErasedPages
  WriteStaysInRange
  DataInPlace
  SuccessIsComplete
  WholeBlocksPreserveRest
  ReadBackWithoutBadBlocks
PROPERTIES
  BadBlocksSpared
  ImplementsStore
  WriteReturns
CHECK_DEADLOCK FALSE
