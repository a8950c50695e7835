CONSTANTS
  NBlocks = 3
  NPages = 2
  PageSize = 2
  Image <- MCImage
  Erased = 0
  Junk = 99
  Pad <- MCPad
  Delivered <- MCDelivered
  Buffers <- MCBuffers
  Overshoot = 2
  MaxCalls = 2
  RoomChecked = FALSE
SPECIFICATION Spec
INVARIANTS
  NeverOverruns
CHECK_DEADLOCK FALSE
