CONSTANTS
  PLLM_LOW = 4
  PLLM_MAX = 15
  BASE_CLK = 7
  CLK_UNIT = 3
  PLL1_PLLM = 4
  PLLM_PASS = 31
  PLLM_DDR3 = 19
  INIT_TRIES = 2
  WORD = 64
  Bit = {0, 1, 2, 3}
  Cell <- MCCell
  PLL_REINIT_DDR3_TEST_START_ADDR = 4
  PLL_REINIT_DDR3_TEST_END_ADDR = 12
  Pattern <- MCPattern
  Memory <- MCMemory
  BootPll <- MCBootPll
  Arguments <- MCArguments
  Ticks = {3, 5}
  Starts = {0, 60}
  Usecs = {0, 1, 6, 12}
  Messages <- MCMessages
  FIFO = 2
  Ranges <- MCRanges
  DDR_START = 4
  DDR_END = 15
  CORE_COUNT = 2
  L1 <- MCL1
  Modules <- MCModules
  MaxCalls = 2
  MaxBytes = 2
SPECIFICATION Spec
INVARIANTS TypeOK StartUpComplete ClocksSwitchSafely ServicesExact
CHECK_DEADLOCK FALSE
