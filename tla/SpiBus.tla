------------------------------- MODULE SpiBus -------------------------------
(***************************************************************************)
(* The SPI bus of the EVM: several DSP cores share one SPI controller,     *)
(* behind which are the NOR flash (evmc66x_nor.c) and the FPGA with the    *)
(* user LEDs and the write protect bits (evmc66x_fpga.c).  A core claims   *)
(* the bus, which takes a hardware semaphore and configures the            *)
(* controller, sends its commands and releases the bus.                    *)
(*                                                                         *)
(* Abstracted: the flash is a function from cells to values, a page being  *)
(* PAGE_SIZE cells and a sector SECTOR_SIZE cells; an FPGA register is the *)
(* set of its bits that are 1.  The chips are external: the flash ignores  *)
(* everything but a status read while a write is in progress, programs and *)
(* erases only after a write enable, and wraps around within a page.       *)
(***************************************************************************)
EXTENDS Integers, Sequences

CONSTANTS
  Cores,         \* the cores that use the bus
  NoCore,        \* the semaphore is free
  SECTOR_COUNT, SECTOR_SIZE, PAGE_SIZE,
  WORD,          \* 2^32: addresses and lengths are computed modulo this
  PROG_TIMEOUT, SECTOR_ERASE_TIMEOUT, \* status reads before giving up
  Value,         \* what a cell can hold
  Erased,        \* an erased cell
  Junk,          \* a cell programmed twice, or a read that was ignored
  Request,       \* the calls the cores make
  MaxCalls,      \* bound: how many calls all cores make together
  FpgaCores      \* the cores that make calls to the FPGA

FlashSize == SECTOR_COUNT * SECTOR_SIZE
Cell == 0 .. FlashSize - 1

(* Misc register bits: 1 is "NAND protected", "NOR writable" and "EEPROM   *)
(* writable".                                                              *)
NandBit == 2
NorBit == 4
EepromBit == 5
Led == 0 .. 3
Bits == [led |-> Led, misc |-> {NandBit, NorBit, EepromBit}]
Default == [led |-> {}, misc |-> {NandBit, NorBit}] \* 0 and 0x14

(* Bulk erase is asked for with this sector number. *)
Bulk == -1

NorRequest ==
  [kind : {"init"}] \cup [kind : {"erase"}, sector : Nat \cup {Bulk}]
  \cup [kind : {"read"}, addr : Nat, len : Nat]
  \cup [kind : {"write"}, addr : Nat, data : Seq(Value)]
FpgaRequest == [kind : {"led"}, num : Led, on : BOOLEAN]
  \cup [kind : {"protect"}, device : {"nand", "nor", "eeprom"}, on : BOOLEAN]

ASSUME SpiAssumption ==
  /\ NoCore \notin Cores
  /\ SECTOR_COUNT \in Nat \ {0} /\ SECTOR_SIZE \in Nat \ {0} /\ PAGE_SIZE \in Nat \ {0}
  /\ (SECTOR_SIZE % PAGE_SIZE) = 0
  /\ WORD \in Nat \ {0} /\ WORD % FlashSize = 0
  /\ PROG_TIMEOUT \in Nat \ {0} /\ SECTOR_ERASE_TIMEOUT \in Nat \ {0}
  /\ {Erased, Junk} \subseteq Value
  /\ Request \subseteq NorRequest \cup FpgaRequest
  /\ MaxCalls \in Nat
  /\ FpgaCores \subseteq Cores

VARIABLES
  owner,   \* the core that holds the hardware semaphore
  select,  \* the chip the controller is configured for: "nor" or "fpga"
  pc,      \* where each core is in its call
  request, \* the call it makes
  actual,  \* nor_write: cells programmed so far
  timeout, \* nor_wait_ready: status reads left
  value,   \* FPGA: the register value the core works with
  ret,     \* what its last call returned
  cells, wel, wip, \* the flash: content, write enable latch, write in progress
  regs,    \* the FPGA's registers
  calls    \* calls made so far

(* Observation only: *)
VARIABLES
  before,      \* cells when the bus was last claimed
  busyAtClaim, \* the flash was busy then: an earlier wait timed out, or a reset
  wanted,      \* the register contents the completed calls asked for
  garbled      \* a transfer to or from the FPGA has failed

thread == <<pc, request, actual, timeout, value, ret>>
chip == <<cells, wel, wip>>
vars == <<owner, select, thread, chip, regs, calls, before, busyAtClaim, wanted, garbled>>

IsNor(r) == r.kind \in {"init", "read", "write", "erase"}
Register(r) == IF r.kind = "led" THEN "led" ELSE "misc"
Length(r) == IF r.kind = "write" THEN Len(r.data) ELSE r.len

(* The address check of nor_read and nor_write; the sum can wrap around. *)
Fits(r) == (r.addr + Length(r)) % WORD <= FlashSize
Wraps(r) == r.kind \in {"read", "write"} /\ r.addr + Length(r) >= WORD

Min2(a, b) == IF a <= b THEN a ELSE b

-----------------------------------------------------------------------------
(* The flash *)

(* Programming clears bits and never sets any. *)
Programmed(old, new) ==
  IF new = Erased \/ new = old THEN old ELSE IF old = Erased THEN new ELSE Junk

(* Page program of data, at most a page, at addr: it wraps around within   *)
(* the page.                                                               *)
AfterProgram(c, addr, data) ==
  LET base == (addr \div PAGE_SIZE) * PAGE_SIZE
      Sent(a) == {i \in 1 .. Len(data) : base + ((addr + i - 1) % PAGE_SIZE) = a}
  IN  [a \in Cell |-> IF Sent(a) = {} THEN c[a]
                      ELSE Programmed(c[a], data[CHOOSE i \in Sent(a) : TRUE])]

AfterErase(c, sector) ==
  [a \in Cell |-> IF sector = Bulk \/ a \div SECTOR_SIZE = sector THEN Erased ELSE c[a]]

(* The write that is in progress completes. *)
FlashDone == /\ wip
             /\ wip' = FALSE
             /\ UNCHANGED <<owner, select, thread, cells, wel, regs, calls, before, busyAtClaim, wanted, garbled>>

-----------------------------------------------------------------------------
Init ==
  /\ owner = NoCore /\ select = "nor"
  /\ pc = [c \in Cores |-> "idle"]
  /\ request \in [Cores -> {[kind |-> "init"]}]
  /\ actual = [c \in Cores |-> 0]
  /\ timeout = [c \in Cores |-> 0]
  /\ value = [c \in Cores |-> {}]
  /\ ret = [c \in Cores |-> "none"]
  /\ cells = [a \in Cell |-> Erased] /\ wel = FALSE /\ wip = FALSE
  /\ regs = Default
  /\ calls = 0
  /\ before = cells /\ busyAtClaim = FALSE /\ wanted = regs /\ garbled = FALSE

Goto(c, l) == pc' = [pc EXCEPT ![c] = l]

Call(c, r) ==
  /\ pc[c] = "idle" /\ calls < MaxCalls
  /\ IsNor(r) \/ c \in FpgaCores
  /\ calls' = calls + 1
  /\ Goto(c, "claim")
  /\ request' = [request EXCEPT ![c] = r]
  /\ actual' = [actual EXCEPT ![c] = 0]
  /\ ret' = [ret EXCEPT ![c] = "none"]
  /\ UNCHANGED <<owner, select, timeout, value, chip, regs, before, busyAtClaim, wanted, garbled>>

(* Mutant of Claim: the semaphore is not waited for. *)
ClaimAtOnce(c) ==
  /\ pc[c] \in {"claim", "reclaim"}
  /\ owner' = c
  /\ select' = IF IsNor(request[c]) THEN "nor" ELSE "fpga"
  /\ Goto(c, IF pc[c] = "claim" THEN "begin" ELSE "fpgawrite")
  /\ before' = cells /\ busyAtClaim' = wip
  /\ UNCHANGED <<request, actual, timeout, value, ret, chip, regs, calls, wanted, garbled>>

(* spi_claim: spins until the semaphore is free, then resets and           *)
(* configures the controller.  An FPGA call claims the bus twice, for the  *)
(* read and for the write.                                                 *)
Claim(c) ==
  /\ pc[c] \in {"claim", "reclaim"}
  /\ owner = NoCore
  /\ owner' = c
  /\ select' = IF IsNor(request[c]) THEN "nor" ELSE "fpga"
  /\ Goto(c, IF pc[c] = "claim" THEN "begin" ELSE "fpgawrite")
  /\ before' = cells /\ busyAtClaim' = wip
  /\ UNCHANGED <<request, actual, timeout, value, ret, chip, regs, calls, wanted, garbled>>

(* Mutant of Conclude: the call returns at once. *)
ConcludeUnreleased(c, r) == Goto(c, "idle") /\ ret' = [ret EXCEPT ![c] = r]

(* The call has its result and is about to release the bus. *)
Conclude(c, r) == Goto(c, "release") /\ ret' = [ret EXCEPT ![c] = r]

(* spi_release at the end of a call. *)
Release(c) ==
  /\ pc[c] = "release"
  /\ owner' = NoCore
  /\ Goto(c, "idle")
  /\ UNCHANGED <<select, request, actual, timeout, value, ret, chip, regs, calls, before, busyAtClaim, wanted, garbled>>

-----------------------------------------------------------------------------
(* nor_init and nor_read: one command with an answer, which a flash that   *)
(* is busy does not give.  nor_init compares it with the expected id;      *)
(* nor_read checks the address first.                                      *)
NorAsk(c) ==
  /\ pc[c] = "begin" /\ request[c].kind \in {"init", "read"}
  /\ LET refused == IF request[c].kind = "init" THEN wip ELSE ~Fits(request[c]) IN
     Conclude(c, IF refused THEN "EFAIL" ELSE "EOK")
  /\ UNCHANGED <<owner, select, request, actual, timeout, value, chip, regs, calls, before, busyAtClaim, wanted, garbled>>

(* nor_write: the address check and the loop head. *)
NorWrite(c) ==
  /\ pc[c] = "begin" /\ request[c].kind = "write"
  /\ LET r == request[c] IN
     IF ~Fits(r) THEN Conclude(c, "EFAIL")
     ELSE IF actual[c] < Len(r.data) THEN Goto(c, "wren") /\ UNCHANGED ret
     ELSE Conclude(c, "EOK")
  /\ UNCHANGED <<owner, select, request, actual, timeout, value, chip, regs, calls, before, busyAtClaim, wanted, garbled>>

(* nor_erase: a sector number beyond the last returns without a release.   *)
NorErase(c) ==
  /\ pc[c] = "begin" /\ request[c].kind = "erase"
  /\ IF request[c].sector >= SECTOR_COUNT
     THEN Goto(c, "idle") /\ ret' = [ret EXCEPT ![c] = "EFAIL"]
     ELSE Goto(c, "wren") /\ UNCHANGED ret
  /\ UNCHANGED <<owner, select, request, actual, timeout, value, chip, regs, calls, before, busyAtClaim, wanted, garbled>>

(* spi_cmd(SPI_NOR_CMD_WREN, NULL, 0) *)
WriteEnable(c) ==
  /\ pc[c] = "wren"
  /\ wel' = (wel \/ ~wip)
  /\ Goto(c, "command")
  /\ UNCHANGED <<owner, select, request, actual, timeout, value, ret, cells, wip, regs, calls, before, busyAtClaim, wanted, garbled>>

(* Mutant of ChunkLen: whole pages, wherever the write starts. *)
ChunkFromAnywhere(r, done) == Min2(Len(r.data) - done, PAGE_SIZE)

(* The cells of the next page program: up to the end of the page. *)
ChunkLen(r, done) ==
  Min2(Len(r.data) - done, PAGE_SIZE - ((r.addr + done) % PAGE_SIZE))

(* The three address bytes of the next page program. *)
CommandAddress(r, done) == (r.addr + done) % FlashSize

(* spi_cmd_write of a page program or an erase command. *)
Command(c) ==
  /\ pc[c] = "command"
  /\ LET r == request[c]
         n == IF r.kind = "write" THEN ChunkLen(r, actual[c]) ELSE 0
     IN
     /\ IF wel /\ ~wip
        THEN /\ cells' = IF r.kind = "write"
                         THEN AfterProgram(cells, CommandAddress(r, actual[c]),
                                           SubSeq(r.data, actual[c] + 1, actual[c] + n))
                         ELSE AfterErase(cells, r.sector)
             /\ wip' = TRUE /\ wel' = FALSE
        ELSE UNCHANGED chip
     /\ actual' = [actual EXCEPT ![c] = @ + n]
     /\ timeout' = [timeout EXCEPT ![c] =
                      IF r.kind = "write" THEN PROG_TIMEOUT ELSE SECTOR_ERASE_TIMEOUT]
  /\ Goto(c, "wait")
  /\ UNCHANGED <<owner, select, request, value, ret, regs, calls, before, busyAtClaim, wanted, garbled>>

(* Mutant of Ready: what ended the loop is not looked at. *)
ReadyOrExpired(c) == ~wip \/ timeout[c] = 1

(* Mutant of Expired: the counter is tested before it is decremented. *)
ExpiredAtZero(c) == timeout[c] = 0

(* The two ends of the loop of nor_wait_ready. *)
Ready(c) == ~wip
Expired(c) == timeout[c] = 1

(* nor_wait_ready: one status read. *)
Poll(c) ==
  /\ pc[c] = "wait"
  /\ IF Ready(c)
     THEN /\ IF request[c].kind = "write" THEN Goto(c, "begin") /\ UNCHANGED ret
             ELSE Conclude(c, "EOK")
          /\ UNCHANGED timeout
     ELSE /\ timeout' = [timeout EXCEPT ![c] = @ - 1]
          /\ IF Expired(c) THEN Conclude(c, "EFAIL") ELSE UNCHANGED <<pc, ret>>
  /\ UNCHANGED <<owner, select, request, actual, value, chip, regs, calls, before, busyAtClaim, wanted, garbled>>

-----------------------------------------------------------------------------
(* The bits of its register a call sets or clears. *)
Bit(r) == IF r.kind = "led" THEN r.num
          ELSE [nand |-> NandBit, nor |-> NorBit, eeprom |-> EepromBit][r.device]

(* What the call is for. *)
Intended(r, v) ==
  IF r.on = (r.kind = "protect" /\ r.device = "nand") THEN v \cup {Bit(r)} ELSE v \ {Bit(r)}

(* Mutant of Modify: the other bits are lost. *)
ModifyFromNothing(r, v) == Intended(r, {})

(* What the code makes of v: fpgaEnableNorWriteProtect sets the bit that   *)
(* fpgaDisableNorWriteProtect sets.                                        *)
Modify(r, v) ==
  IF r.kind = "protect" /\ r.device = "nor" THEN v \cup {NorBit} ELSE Intended(r, v)

(* spi_read_word and spi_write_word.  A read that fails leaves the local   *)
(* it reads into uninitialized, and the caller goes on with that.          *)
ReadWord(reg, v) ==
  \/ v = regs[reg] /\ UNCHANGED garbled
  \/ v \in SUBSET Bits[reg] /\ garbled' = TRUE
WriteWord(reg, v) ==
  \/ regs' = [regs EXCEPT ![reg] = v] /\ UNCHANGED garbled
  \/ UNCHANGED regs /\ garbled' = TRUE

(* fpgaReadConfigurationRegister up to its release, and the change of the  *)
(* bit.                                                                    *)
FpgaRead(c) ==
  /\ pc[c] = "begin" /\ ~IsNor(request[c])
  /\ \E v \in SUBSET Bits[Register(request[c])] :
       /\ ReadWord(Register(request[c]), v)
       /\ value' = [value EXCEPT ![c] = Modify(request[c], v)]
  /\ Goto(c, "unlock")
  /\ UNCHANGED <<owner, select, request, actual, timeout, ret, chip, regs, calls, before, busyAtClaim, wanted>>

(* Its release; the bus is then claimed again for the write. *)
FpgaUnlock(c) ==
  /\ pc[c] = "unlock"
  /\ owner' = NoCore
  /\ Goto(c, "reclaim")
  /\ UNCHANGED <<select, request, actual, timeout, value, ret, chip, regs, calls, before, busyAtClaim, wanted, garbled>>

(* fpgaWriteConfigurationRegister up to its release. *)
FpgaWrite(c) ==
  /\ pc[c] = "fpgawrite"
  /\ LET reg == Register(request[c]) IN
     /\ WriteWord(reg, value[c])
     /\ wanted' = [wanted EXCEPT ![reg] = Intended(request[c], @)]
  /\ Conclude(c, "EOK")
  /\ UNCHANGED <<owner, select, request, actual, timeout, value, chip, calls, before, busyAtClaim>>

-----------------------------------------------------------------------------
(* A reset of the DSP: the semaphore is free again, the flash goes on. *)
Reset ==
  /\ \E c \in Cores : pc[c] # "idle"
  /\ owner' = NoCore
  /\ pc' = [c \in Cores |-> "idle"]
  /\ ret' = [c \in Cores |-> "none"]
  /\ UNCHANGED <<select, request, actual, timeout, value, chip, regs, calls, before, busyAtClaim, wanted, garbled>>

CoreStep(c) ==
  \/ Claim(c) \/ Release(c)
  \/ NorAsk(c) \/ NorWrite(c) \/ NorErase(c) \/ WriteEnable(c) \/ Command(c) \/ Poll(c)
  \/ FpgaRead(c) \/ FpgaUnlock(c) \/ FpgaWrite(c)

Next ==
  \/ \E c \in Cores : CoreStep(c) \/ \E r \in Request : Call(c, r)
  \/ FlashDone
  \/ Reset

Spec == Init /\ [][Next]_vars

(* A core that can go on does.  The semaphore has no queue, so that this   *)
(* gets a core past spi_claim only because the number of calls is bounded. *)
FairSpec == Spec /\ \A c \in Cores : WF_vars(CoreStep(c))

-----------------------------------------------------------------------------
TypeOK ==
  /\ owner \in Cores \cup {NoCore}
  /\ select \in {"nor", "fpga"}
  /\ pc \in [Cores -> {"idle", "claim", "begin", "wren", "command", "wait", "release",
                       "unlock", "reclaim", "fpgawrite"}]
  /\ request \in [Cores -> NorRequest \cup FpgaRequest]
  /\ actual \in [Cores -> Nat]
  /\ timeout \in [Cores -> Nat]
  /\ value \in [Cores -> SUBSET Nat]
  /\ ret \in [Cores -> {"none", "EOK", "EFAIL"}]
  /\ cells \in [Cell -> Value] /\ wel \in BOOLEAN /\ wip \in BOOLEAN
  /\ regs \in [led : SUBSET Bits.led, misc : SUBSET Bits.misc]
  /\ calls \in 0 .. MaxCalls
  /\ before \in [Cell -> Value]
  /\ busyAtClaim \in BOOLEAN
  /\ wanted \in [led : SUBSET Bits.led, misc : SUBSET Bits.misc]
  /\ garbled \in BOOLEAN

Talking(c) == pc[c] \notin {"idle", "claim", "reclaim"}

(* Only the core that holds the semaphore is between spi_claim and         *)
(* spi_release, and the controller is configured for the chip it talks to. *)
BusIsExclusive ==
  \A c \in Cores : Talking(c) => /\ owner = c
                                 /\ select = IF IsNor(request[c]) THEN "nor" ELSE "fpga"

(* "This function releases the bus" (spi_release): a call that has         *)
(* returned has released it.                                               *)
ReturnReleases == \A c \in Cores : owner = c => Talking(c)

(* A core that found the flash ready sends it no command while a write is  *)
(* in progress: it waits, or has given up.                                 *)
NoCommandWhileBusy ==
  \A c \in Cores : Talking(c) /\ wip /\ ~busyAtClaim => pc[c] \in {"wait", "release"}

(* The flash with the first n cells of a write programmed. *)
Prefix(c, r, n) ==
  [a \in Cell |-> IF a \in r.addr .. r.addr + n - 1
                  THEN Programmed(c[a], r.data[a - r.addr + 1]) ELSE c[a]]

(* What a completed call makes of the content of the flash: exactly the    *)
(* cells asked for are programmed, in spite of the division into pages.    *)
Outcome(c, r) == IF r.kind = "write" THEN Prefix(c, r, Len(r.data))
                 ELSE IF r.kind = "erase" THEN AfterErase(c, r.sector)
                 ELSE c

(* A NOR call that found the flash ready and reports success has done what *)
(* it was asked to do and nothing else, whatever the other cores do, and   *)
(* within the flash, unless its address and length add up to 2^32 or more. *)
NorCallsExact ==
  \A c \in Cores : pc[c] = "release" /\ ret[c] = "EOK" /\ ~busyAtClaim /\ ~Wraps(request[c]) =>
    /\ cells = Outcome(before, request[c])
    /\ request[c].kind \in {"read", "write"} => request[c].addr + Length(request[c]) <= FlashSize

(* When no call is under way, the LEDs and the write protect bits are what *)
(* the completed calls asked for ("Turn on/off the corresponding LED bit   *)
(* number", evmc66x_fpga.c:156), unless a transfer has failed.             *)
RegistersAsAsked ==
  (\A c \in Cores : pc[c] = "idle") /\ ~garbled => regs = wanted

(* Every call returns. *)
CallsReturn == \A c \in Cores : pc[c] # "idle" ~> pc[c] = "idle"
=============================================================================
