SPECIFICATION Spec
CONSTANTS
  PAGES = 2
  BLOCKS = 4
  CYCLE = 2
  PARTS = 2
  SPARE = 8
  BBOFFSET = 5
  Value <- MCValue
  Erased = "ff"
  BadMark = "bad"
  Junk = "junk"
  OneBit <- MCOneBit
  Content <- MCContent
  Request <- MCRequest
  MaxCalls = 3
  MaxFaults = 2
INVARIANTS TypeOK CallsExact PinsSafe
