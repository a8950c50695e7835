------------------------------ MODULE Services ------------------------------
(***************************************************************************)
(* The services of the platform library that need the board started or     *)
(* share its state: platform_get_info, platform_delay, the memory tests    *)
(* (platform.c) and the UART (evmc66x_uart.c), on one core and together    *)
(* with BoardInit.                                                         *)
(*                                                                         *)
(* Abstracted: the cycle counter TSCL, once it has been started, advances  *)
(* by one of Ticks between two reads of it; a received byte is its number, *)
(* a sent byte "char", "cr" or "lf".  The line, the FIFO of the UART and   *)
(* the L1 memories of the other cores are external.                        *)
(***************************************************************************)
EXTENDS BoardInit, Sequences, SequencesExt

CONSTANTS
  Ticks, Starts,  \* steps, and first values, of the cycle counter
  Usecs,          \* arguments of platform_delay and platform_uart_read
  Messages,       \* arguments of platform_write, of "char" and "nl"
  FIFO,           \* the bytes that the UART's receiver holds
  Ranges,         \* arguments of platform_external_memory_test, as <<start, end>>
  DDR_START, DDR_END, \* PLATFORM_DDR3_SDRAM_START and _END
  CORE_COUNT,     \* PLATFORM_CORE_COUNT
  L1,             \* what the L1P and L1D memories of another core can be
  Modules,        \* the settings a module of the PSC can have
  MaxCalls, MaxBytes \* bounds: calls; bytes that arrive

ASSUME ServicesAssumption ==
  /\ Ticks \subseteq 1 .. WORD \div 4 /\ Starts \subseteq 0 .. WORD - 1 /\ Usecs \subseteq Nat
  /\ FIFO \in Nat \ {0} /\ CORE_COUNT \in Nat \ {0} /\ MaxCalls \in Nat /\ MaxBytes \in Nat
  /\ L1 \subseteq Chip \X Chip /\ Messages \subseteq Seq({"char", "nl"})
  /\ DDR_START \in Nat /\ DDR_END \in Nat
  /\ \A c \in Cell : c % 4 = 0 /\ DDR_START <= c /\ c + 3 <= DDR_END \* a word has four bytes
  /\ \A r \in Ranges : r[1] \in Nat /\ r[2] \in Nat /\ r[1] % 4 = 0 \* it is read through a uint32_t pointer

(* Settings of a module: next state, local reset asserted, reset isolation. *)
Disabled == [next |-> "SWRSTDISABLE", asserted |-> TRUE, isolated |-> FALSE]

VARIABLES
  op, ret,         \* the last service that was called, and what it returned
  usecs,           \* its argument, of a delay or an attempt to read
  start, tscl, waits, \* platform_delay: start_val, the counter; delays left of platform_uart_read
  counting,        \* the counter runs
  rx, buf,         \* the receiver's FIFO, and *buf
  divisor, parity, \* the set-up of the line
  todo, thr, line, \* bytes still to write; in the transmit register; sent since the call
  write_type,      \* where platform_write writes
  range,           \* the words under test
  psc, saved, status, \* the module of the core under test, its settings saved, the verdict
  l1,              \* the L1 memories of the core under test
  calls, arrived

(* Observation only: *)
VARIABLES
  elapsed,  \* cycles since the call
  got,      \* the bytes that UartReadData took from the receiver
  due,      \* the bytes to be sent since the call
  lost,     \* those of them that UartInit has discarded
  before    \* the settings when the test began

delay == <<usecs, start, tscl, waits, counting, elapsed>>
uart == <<rx, buf, divisor, parity, arrived, got>>
writer == <<todo, thr, line, write_type, due, lost>>
power == <<range, psc, saved, status, l1, before>>
servicevars == <<op, ret, delay, uart, writer, power, calls>>
vars == <<boardvars, servicevars>>

still == <<local, outcome, frequency, main, aux, board, current>>

Call(o) == pc = "idle" /\ calls < MaxCalls /\ calls' = calls + 1 /\ op' = o
Become(l) == pc' = l /\ UNCHANGED <<op, ret, calls>>
Done(r) == pc' = "idle" /\ ret' = r /\ UNCHANGED <<op, calls>>
AtOnce(o, r) == Call(o) /\ ret' = r /\ UNCHANGED pc

-----------------------------------------------------------------------------
(* platform_init, which starts the cycle counter. *)
CallInit ==
  /\ calls < MaxCalls /\ calls' = calls + 1
  /\ \/ Refuse /\ UNCHANGED counting
     \/ (\E a \in Arguments \ {NoArguments} : Start(a)) /\ counting' = TRUE
  /\ op' = "init" /\ ret' = "none"
  /\ UNCHANGED <<usecs, start, tscl, waits, elapsed, uart, writer, power>>

(* platform_get_info measures the frequency anew, unless p_info is NULL. *)
GetInfo ==
  /\ AtOnce("info", "none")
  /\ \/ frequency' = Measured /\ current' = TRUE /\ UNCHANGED platform_errno
     \/ frequency' = UNKNOWN /\ current' = FALSE /\ platform_errno' = "GENERIC"
     \/ platform_errno' = "INVALID_ARGUMENT" /\ UNCHANGED <<frequency, current>>
  /\ UNCHANGED <<local, result, platform_init_return_code, main, aux, board, delay, uart, writer, power>>

-----------------------------------------------------------------------------
(* platform_delay: everything is computed in 32 bits. *)
Signed(n) == IF n % WORD < WORD \div 2 THEN n % WORD ELSE (n % WORD) - WORD

(* Mutant of DelayCount: the frequency is forgotten. *)
DelayCountOfUsecs(us) == Signed(us)

DelayCount(us) == Signed(us * frequency)

BeginDelay == \E t \in Starts : start' = t /\ tscl' = t

Delay(us) ==
  /\ Call("delay") /\ pc' = "delay" /\ ret' = "none"
  /\ BeginDelay /\ usecs' = us /\ elapsed' = 0
  /\ UNCHANGED <<still, waits, counting, uart, writer, power>>

(* platform_uart_read delays by one microsecond at a time. *)
DelayOver == Signed(tscl - start) >= DelayCount(IF pc = "uartDelay" THEN 1 ELSE usecs)

(* A delay goes on, by itself or in platform_uart_read: for ever, if       *)
(* nothing has started the counter.                                        *)
Spin ==
  /\ pc \in {"delay", "uartDelay"} /\ ~ DelayOver /\ counting
  /\ Become(pc)
  /\ \E d \in Ticks : tscl' = (tscl + d) % WORD /\ elapsed' = elapsed + d
  /\ UNCHANGED <<still, usecs, start, waits, counting, uart, writer, power>>

DelayReturns ==
  /\ pc = "delay" /\ DelayOver
  /\ Done("EOK")
  /\ UNCHANGED <<still, delay, uart, writer, power>>

-----------------------------------------------------------------------------
(* The UART *)

(* UartInit and platform_uart_set_baudrate, which together leave the line  *)
(* without the parity that UartInit has enabled.  FCR clears both FIFOs:   *)
(* what has arrived, and the byte that waits to be sent.                   *)
UartInit ==
  /\ AtOnce("uartinit", "EOK")
  /\ divisor' = 115200 /\ parity' = FALSE
  /\ rx' = <<>> /\ got' = <<>> /\ arrived' = 0
  /\ thr' = <<>> /\ lost' = lost \o thr
  /\ UNCHANGED <<still, delay, buf, todo, line, write_type, due, power>>
SetBaudrate(b) ==
  /\ AtOnce("baudrate", "EOK")
  /\ divisor' = b /\ parity' = FALSE
  /\ UNCHANGED <<still, delay, rx, buf, arrived, got, writer, power>>

(* A byte arrives; the receiver drops it when it is full.  One that comes  *)
(* while nobody reads is one that comes as the next read begins.           *)
Arrive ==
  /\ pc \in {"uartread", "uartDelay", "uartTimeout"}
  /\ arrived < MaxBytes /\ Len(rx) < FIFO
  /\ arrived' = arrived + 1 /\ rx' = Append(rx, arrived + 1)
  /\ UNCHANGED <<pc, still, op, ret, delay, buf, divisor, parity, got, writer, power, calls>>

(* UartReadData; 0 is what an empty receiver gives. *)
ReadData ==
  /\ buf' = IF rx = <<>> THEN 0 ELSE Head(rx)
  /\ rx' = IF rx = <<>> THEN rx ELSE Tail(rx)
  /\ got' = IF rx = <<>> THEN got ELSE Append(got, Head(rx))
  /\ UNCHANGED <<divisor, parity, arrived>>

(* platform_uart_read *)
UartReadNowhere ==
  /\ AtOnce("uartread", "EINVALID")
  /\ UNCHANGED <<still, delay, uart, writer, power>>
UartRead(us) ==
  /\ Call("uartread") /\ pc' = "uartread" /\ ret' = "none"
  /\ usecs' = us /\ waits' = us /\ start' = 0 /\ tscl' = 0 /\ elapsed' = 0
  /\ UNCHANGED <<still, counting, uart, writer, power>>
UartReady ==
  /\ pc = "uartread" /\ rx # <<>>
  /\ ReadData /\ Done("EOK")
  /\ UNCHANGED <<still, delay, writer, power>>
UartNotReady ==
  /\ pc = "uartread" /\ rx = <<>>
  /\ IF waits > 0 THEN /\ Become("uartDelay")
                       /\ waits' = waits - 1 /\ BeginDelay
                       /\ UNCHANGED <<usecs, counting, elapsed>>
                  ELSE /\ Become("uartTimeout") /\ UNCHANGED delay
  /\ UNCHANGED <<still, uart, writer, power>>
UartDelayOver ==
  /\ pc = "uartDelay" /\ DelayOver
  /\ Become("uartread")
  /\ UNCHANGED <<still, delay, uart, writer, power>>
(* The byte is read all the same: it may have arrived since. *)
UartTimeout ==
  /\ pc = "uartTimeout"
  /\ platform_errno' = "READTO"
  /\ ReadData /\ Done("EFAIL")
  /\ UNCHANGED <<local, result, platform_init_return_code, frequency, main, aux, board, current, delay, writer, power>>

(* platform_write_configure, and platform_write, which sends a newline as  *)
(* two bytes.                                                              *)
Expansion(msg) == FlattenSeq([i \in 1 .. Len(msg) |-> IF msg[i] = "nl" THEN <<"cr", "lf">> ELSE <<msg[i]>>])

Configure(w) ==
  /\ AtOnce("configure", "none") /\ write_type' = w
  /\ UNCHANGED <<still, delay, uart, todo, thr, line, due, lost, power>>
WriteTooLong ==
  /\ AtOnce("write", "none") /\ platform_errno' = "INVALID_ARGUMENT"
  /\ UNCHANGED <<local, result, platform_init_return_code, frequency, main, aux, board, current, delay, uart, writer, power>>
Write(msg) ==
  /\ Call("write") /\ pc' = "write" /\ ret' = "none"
  /\ todo' = IF write_type \in {"UART", "ALL"} THEN Expansion(msg) ELSE <<>>
  /\ line' = <<>> /\ lost' = <<>> /\ due' = thr \o todo'
  /\ UNCHANGED <<still, delay, uart, thr, write_type, power>>

(* platform_uart_write *)
UartWrite ==
  /\ Call("uartwrite") /\ pc' = "write" /\ ret' = "none"
  /\ todo' = <<"char">>
  /\ line' = <<>> /\ lost' = <<>> /\ due' = thr \o todo'
  /\ UNCHANGED <<still, delay, uart, thr, write_type, power>>

(* UartWriteData waits for THRE. *)
Empty == thr = <<>>

WriteData ==
  /\ pc = "write" /\ todo # <<>> /\ Empty
  /\ Become("write")
  /\ thr' = <<Head(todo)>> /\ todo' = Tail(todo)
  /\ UNCHANGED <<still, delay, uart, line, write_type, due, lost, power>>
WriteReturns ==
  /\ pc = "write" /\ todo = <<>>
  /\ Done(IF op = "uartwrite" THEN "EOK" ELSE "none")
  /\ UNCHANGED <<still, delay, uart, writer, power>>

(* The UART sends the byte. *)
Transmit ==
  /\ thr # <<>>
  /\ line' = line \o thr /\ thr' = <<>>
  /\ UNCHANGED <<pc, still, op, ret, delay, uart, todo, write_type, due, lost, power, calls>>

-----------------------------------------------------------------------------
(* The memory tests *)

(* platform_external_memory_test *)
ExternalTest(first, end) ==
  LET whole == first = 0 /\ end = 0
      lo == IF whole THEN DDR_START ELSE first
      hi == IF whole THEN DDR_END - 1 ELSE end
      valid == DDR_START <= lo /\ hi <= DDR_END /\ lo < hi
      good == MemoryTest(ddr, Words(lo, hi))
  IN /\ AtOnce("external", IF ~ valid THEN "EINVALID" ELSE IF good THEN "EOK" ELSE "EFAIL")
     /\ platform_errno' = IF ~ valid THEN "INVALID_ARGUMENT" ELSE IF good THEN platform_errno ELSE "address"
     /\ range' = IF whole THEN Cell ELSE Words(first, end)
     /\ UNCHANGED <<local, result, platform_init_return_code, frequency, main, aux, board, current,
                    delay, uart, writer, psc, saved, status, l1, before>>

(* platform_internal_memory_test: the core's own memories are refused. *)
InternalRefused(id) ==
  /\ id = dnum \/ id >= CORE_COUNT
  /\ AtOnce("internal", IF id = dnum THEN "EUNSUPPORTED" ELSE "EINVALID")
  /\ platform_errno' = "INVALID_ARGUMENT"
  /\ UNCHANGED <<local, result, platform_init_return_code, frequency, main, aux, board, current,
                 delay, uart, writer, power>>

(* The core is held in reset while its memories are tested. *)
InternalTest(id) ==
  /\ id # dnum /\ id < CORE_COUNT
  /\ Call("internal") /\ pc' = "l1p" /\ ret' = "none"
  /\ status' = "EOK" /\ range' = Cell
  /\ \E m \in Modules : saved' = m /\ before' = m
  /\ psc' = Disabled
  /\ \E chips \in L1 : l1' = chips
  /\ UNCHANGED <<still, delay, uart, writer>>

TestL1(at, chip, next) ==
  /\ pc = at /\ Become(next)
  /\ \/ MemoryTest(chip, range) /\ UNCHANGED <<status, platform_errno>>
     \/ ~ MemoryTest(chip, range) /\ status' = "EFAIL" /\ platform_errno' = "address"
  /\ UNCHANGED <<local, result, platform_init_return_code, frequency, main, aux, board, current,
                 delay, uart, writer, range, psc, saved, l1, before>>

InternalReturns ==
  /\ pc = "restore"
  /\ psc' = saved
  /\ Done(status)
  /\ UNCHANGED <<still, delay, uart, writer, range, saved, status, l1, before>>

-----------------------------------------------------------------------------
Init ==
  /\ BoardInitial
  /\ op = "none" /\ ret = "none"
  /\ usecs = 0 /\ start = 0 /\ tscl = 0 /\ waits = 0 /\ counting = FALSE /\ elapsed = 0
  /\ rx = <<>> /\ buf = 0 /\ divisor = 0 /\ parity = TRUE /\ arrived = 0 /\ got = <<>>
  /\ todo = <<>> /\ thr = <<>> /\ line = <<>> /\ write_type = "PRINTF" /\ due = <<>> /\ lost = <<>>
  /\ range = {} /\ psc = Disabled /\ saved = Disabled /\ before = Disabled
  /\ status = "EOK" /\ l1 = CHOOSE chips \in L1 : TRUE
  /\ calls = 0

InitStep == (BoardStep \/ Hardware) /\ UNCHANGED servicevars

UartStep ==
  \/ UartInit \/ (\E b \in {19200, 115200} : SetBaudrate(b)) \/ Arrive
  \/ UartReadNowhere \/ (\E us \in Usecs : UartRead(us))
  \/ UartReady \/ UartNotReady \/ UartDelayOver \/ UartTimeout
WriteStep ==
  \/ (\E w \in {"UART", "ALL", "PRINTF"} : Configure(w)) \/ WriteTooLong
  \/ (\E msg \in Messages : Write(msg)) \/ UartWrite \/ WriteData \/ WriteReturns \/ Transmit
TestStep ==
  \/ \E r \in Ranges : ExternalTest(r[1], r[2])
  \/ \E id \in 0 .. CORE_COUNT : InternalRefused(id) \/ InternalTest(id)
  \/ TestL1("l1p", l1[1], "l1d") \/ TestL1("l1d", l1[2], "restore") \/ InternalReturns

Next ==
  \/ CallInit \/ GetInfo \/ InitStep
  \/ (\E us \in Usecs : Delay(us)) \/ Spin \/ DelayReturns
  \/ UartStep \/ WriteStep \/ TestStep

Spec == Init /\ [][Next]_vars

-----------------------------------------------------------------------------
TypeOK ==
  /\ loop_count \in 0 .. INIT_TRIES /\ dnum \in {0, 1}
  /\ result \in {"none", "EOK", "EFAIL"}
  /\ platform_errno \in {"none", "INVALID_ARGUMENT", "PLL_SETUP", "GENERIC", "READTO", "address"}
  /\ platform_init_return_code \in 0 .. INIT_TRIES
  /\ frequency \in 0 .. WORD - 1 /\ current \in BOOLEAN
  /\ main \in MainPll /\ aux \in [{"pa", "ddr"} -> AuxPll]
  /\ ddr \in Chip /\ mapped \in BOOLEAN
  /\ domain \in [Domain -> {"off", "turning", "on"}] /\ edc \in BOOLEAN
  /\ serdes \subseteq {0, 1} /\ sgmii.neg \in {"off", "pending", "complete", "error"}
  /\ start \in 0 .. WORD - 1 /\ tscl \in 0 .. WORD - 1 /\ waits \in Nat /\ elapsed \in Nat /\ counting \in BOOLEAN
  /\ Len(rx) <= FIFO /\ Len(thr) <= 1 /\ calls \in 0 .. MaxCalls

(* platform_delay, and the time-out of platform_uart_read, last as long as *)
(* asked in cycles of whole MHz, so that each microsecond may be short of  *)
(* less than a cycle; if the frequency is that of the main PLL since it    *)
(* was last set, one that platform_get_frequency understands, and the      *)
(* product fits into 31 bits.                                              *)
DelayKept ==
  /\ current /\ Selected /\ Understood /\ main.div = 0 /\ main.post = 1
  /\ usecs * (TrueClock \div CLK_UNIT) < WORD \div 2
  /\ pc = "idle" /\ ret # "none"
  /\ op = "delay" \/ (op = "uartread" /\ ret = "EFAIL")
  => elapsed >= usecs * (TrueClock \div CLK_UNIT)

(* Every byte that arrives is given to one caller, in order, though some   *)
(* to one that is told of a time-out; success means there was one.         *)
ReadsInOrder ==
  /\ got \o rx = [i \in 1 .. arrived |-> i]
  /\ pc = "idle" /\ op = "uartread" /\ ret = "EOK" => got # <<>> /\ buf = Last(got)

(* What is written to the UART arrives on the line completely and in       *)
(* order, but for the last byte of a write if platform_uart_init comes     *)
(* while it waits to be sent.                                              *)
WritesInOrder == line \o lost \o thr \o todo = due /\ Len(lost) <= 1

(* A memory test succeeds exactly if the memory works, and leaves the      *)
(* module of the other core as it was.                                     *)
TestsTrue ==
  pc = "idle" =>
    /\ op = "external" /\ ret \in {"EOK", "EFAIL"} => (ret = "EOK") = Healthy(ddr, range)
    /\ op = "internal" /\ ret \in {"EOK", "EFAIL"} =>
         /\ (ret = "EOK") = (Healthy(l1[1], Cell) /\ Healthy(l1[2], Cell))
         /\ psc = before

(* The services do what they report, whatever start-up has left behind and *)
(* whichever byte arrives when: platform.c:606-723, 730-882.               *)
ServicesExact == DelayKept /\ ReadsInOrder /\ WritesInOrder /\ TestsTrue
=============================================================================
