CONSTANTS
  c1 = c1
  c2 = c2
  Cores = {c1, c2}
  NoCore = NoCore
  SECTOR_COUNT = 2
  SECTOR_SIZE = 4
  PAGE_SIZE = 2
  WORD = 64
  PROG_TIMEOUT = 2
  SECTOR_ERASE_TIMEOUT = 2
  Value = {"erased", "junk", "x", "y", "z"}
  Erased = "erased"
  Junk = "junk"
  Request <- BusRequests
  MaxCalls = 2
  FpgaCores = {c1}
SPECIFICATION FairSpec
INVARIANTS
  TypeOK
  BusIsExclusive
  ReturnReleases
  NoCommandWhileBusy
  NorCallsExact
  RegistersAsAsked
PROPERTIES
  CallsReturn
CHECK_DEADLOCK FALSE
