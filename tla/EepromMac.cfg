SPECIFICATION Spec
CONSTANTS
  RADIX = 4
  PAGE = 4
  CHUNK = 2
  BUS_TIMEOUT = 2
  POLL_TIMEOUT = 2
  MAC_OFFSET = 12
  MAC_LEN = 2
  SN_OFFSET = 8
  SN_LEN = 2
  Value <- MCValue
  Erased = "old"
  Junk = "junk"
  Request <- MacOnly
  MaxCalls = 1
  MaxFaults = 2
PROPERTY MacCallsReturn
