# Specifications of the C6670 EVM platform software

TLA+ models of the software in this repository: the platform library of the
TMDXEVM6670L board (`src/platform_lib_evmc6670l`) and the queue manager example
(`src/queue1`). The modules are translated from the C code; this file says what
is modelled, what TLC checks, what TLAPS proves, and what is left out.

Run from this directory:

    tlc -workers 2 -config SpiBus.cfg MCSpiBus.tla
    tlapm SpiBusProofs.tla

## 1. Inventory

### 1.1 Components

| component | code | state it keeps | operations |
|---|---|---|---|
| device API | `platform.c` 890-1698 | `gDeviceNand`, `gDeviceNor`, `gDeviceEeprom0/1` with their handles; `gDeviceNandBBlist`, the RAM copy of the bad block markers | `platform_device_open/close/read/write/erase_block/mark_block_bad`, spare data |
| NAND driver | `evm66x_nand.c`, `evmc66x_gpio.c` | `nandPageBuf`; GPIO pins (CLE, ALE, NCE, NWE, NRE, ready, data bus) | read, program and erase of pages and spare areas, each a sequence of pin accesses |
| NAND ECC | `evmc66x_ecc.c` | none | compute a 3-byte code per 256 bytes, correct one bit |
| NOR driver | `evmc66x_nor.c` | none; the flash has a write enable latch and a write in progress | `nor_init/read/write/erase`, polling `nor_wait_ready` |
| SPI bus | `evmc66x_spi.c` | the controller and a hardware semaphore shared by all cores | `spi_claim/release`, `spi_cmd*`, word transfers for the FPGA |
| FPGA registers | `evmc66x_fpga.c` | LED, misc (write protect) and other registers, behind the same SPI controller | LEDs, write protection: read, change, write |
| EEPROM driver | `evmc66x_i2c_eeprom.c`, `evm66x_i2c.c` | the I2C controller with its bus-busy and no-acknowledge flags | block writes in 64-byte chunks, reads, MAC address |
| start-up | `evmc6670.c`, `evmc6670_phy.c`, `platform_init` | PLLs, power domains, DDR3, SerDes and SGMII | a fixed order of set-ups with retries and unbounded polls |
| services | `platform.c` 88-880, `evmc66x_uart.c` | `platform_mcb`, `write_type`, `platform_errno`, the UART | info, delay, UART, LEDs, memory tests |
| queues | `queue1/main.c`, `QueueFun.h` | hardware queues, descriptor regions, packet DMA configuration | push, pop, divert, empty; set-up in `main()` |
| accumulator commands | `QueueFun.h` 156-219, 425-522 | five command words shared with the PDSP firmware, the PDSP control register and instruction memory | program, disable, timer, firmware download |
| test applications | `platform_test_*` | none of interest | use the library: erase, write, read back, compare |

### 1.2 How they interact

The device API calls the NAND, NOR and EEPROM drivers; `platform_get_info`
opens and closes the EEPROM device its callers may be using. NOR and FPGA share
the SPI controller; all DSP cores share it, protected by a hardware semaphore
(`PLIBSPILOCK`). `platform_init` sets the clocks and saves their frequency, from
which `platform_delay` and the UART's time-outs are computed. The test
applications call the device API from one core. The queue example talks to
hardware that runs on its own: the queue manager, the packet DMA, and the PDSP
whose firmware polls the command words.

### 1.3 What is hard, and what must hold

* *Device API.* A write of any length and offset is turned into read, erase
  and program of whole blocks; bad blocks are skipped; each step can fail, and
  the board can be reset in between. Pages must be erased when programmed, bad
  blocks spared, other data kept, success means everything was written.
* *SPI bus.* Cores interleave; every path of every call must give the bus
  back; the flash must not be commanded while it is busy; programming must
  respect page boundaries; register updates must not lose each other.
* *PDSP.* Two programs write and fetch the same words without a lock. A
  command must be obeyed in one piece, and once issued it must not be lost.
* *Queues.* Descriptors must be neither lost nor doubled, must stay on the
  queues of their kind, and keep the packet length.
* *EEPROM.* Polls with time-outs, missing acknowledges and a write cycle that
  runs on after the call; each exit must leave the bus usable, and a call must
  change exactly the bytes asked for.
* *NAND pins and ECC.* A page goes through some hundred pin operations with
  the data bus turned around twice per byte; 2048 bits must each be found
  again from three bytes.
* *Start-up and services.* A PLL is reprogrammed while it may be driving the
  core; retries start from the state of the attempt before; delays are 32-bit
  products of a frequency that may be stale.

`PROJECT.json` lists each hazard at its line with the properties that cover
it. A hazard without a property has a note: the code does not keep the promise
there, and the properties name the case as their exception (section 5).

## 2. Modules

| module | models | used by |
|---|---|---|
| `FlashStore` | abstract promise: a store of blocks, at most one torn at a time | `FlashWrite` (refinement) |
| `FlashWrite` | device API for NAND and NOR | `MCFlashWrite`, `FlashWriteProofs` |
| `SpiBus` | SPI bus, NOR driver, FPGA registers, several cores | `MCSpiBus`, `SpiBusProofs` |
| `Pdsp` | command words, firmware download | `PdspCommands.cfg`, `PdspProofs` |
| `Qmss` | queues, packet DMA, set-up by `main()` | `MCQmss`, `QmssProofs` |
| `Eeprom` | I2C EEPROM driver, its handles | `MCEeprom`, `EepromProofs` |
| `NandPins` | NAND driver on the GPIO pins | `MCNandPins`, `NandPinsProofs` |
| `NandEcc` | ECC of a 256-byte part | `MCNandEcc`, `NandEccProofs` |
| `BoardInit` | `platform_init` | `Services`, `BoardProofs` |
| `Services` | delay, UART, memory tests, on a board that starts up | `MCServices`, `BoardProofs` |
| `MC*` | small instances | the cfgs |
| `*Proofs` | theorems | TLAPS |

In each module the comment above a definition names the function it stands
for; `PROJECT.json` maps it to lines. Operators introduced by "Mutant of" are
plausible bugs: with the mutant in place of the definition, TLC finds the
property listed in `PROJECT.json` violated, which shows that the property
depends on that piece of code.

Variables declared as "observation only" are never read by a guard; properties
use them to say under which circumstances the code keeps its promise. Where a
promise has an exception, the exception is the code's, and is described below.

### 2.1 FlashWrite

State: the flash (`flash`, a page image per block and page), the bad block
markers in the spare area (`marked`) and their RAM copy (`bblist`), the open
handle, and the locals of `platform_device_write` with its position `pc`:
`pick` (loop head and bad block scan), `read`, `erase`, `program` (one page per
step). `kind` is chosen in the initial state: NAND or NOR. Every driver call
succeeds or fails; a failing erase or program leaves the old content, the new
content, or junk. `Reset` may happen at any step: the flash keeps what it has,
RAM does not. Lengths and offsets are counted in units of which a page holds
`PageSize`; the last page of the data may be partial and is then padded.

The API does not ask whether a device is open. Callers name it by
`p_device->handle`, as the test applications do, and `platform_device_close`
sets that to 0, so that a later call is refused like one with a block number that
is too large (`Refused`). A caller that keeps the device's identifier instead, and
writes after the close, is outside of the model (`opened` is a guard of
`WriteCall`, `EraseBlock` and `MarkBad`). `platform_device_mark_block_bad` goes on
when its read of the spare area has failed: it then writes back what it has not
read, and with it another ECC, so that the first page of the block may read as
`Junk` (`MarkBad`). That a chip fails silently, with `SUCCESS` from the driver, is
left to `NandPins`.

Two conditions are visible in the properties because the code needs them:

* `overran`: the scan for a good block has no bound and the check after it lets
  `block_count` through. `RoomChecked` restricts the client of the NAND to
  writes that fit; the run `FlashOverrun` drops the restriction and shows the
  overrun. The NOR has no bad blocks and refuses addresses beyond its end.
* `WholeBlocksPreserveRest` holds only for data that starts and ends at block
  boundaries: otherwise the pages to be written back are taken from the wrong
  place (`FlashRest`).

A write skips bad blocks and `platform_device_read` does not, so that
`ReadBack` ("what we wrote is what we read") is only stated, and checked, for
writes without a bad block from their start on (`ReadBackWithoutBadBlocks`).

`ImplementsStore` is the refinement: with the torn blocks hidden behind one
value and the block being programmed as `working`, the device API implements
`FlashStore`. In particular no step tears a second block while one is being
rewritten, and a block becomes whole only with all its pages programmed.

### 2.2 SpiBus

State: the semaphore (`owner`), the chip the controller is set up for, each
core's position and locals, the flash chip (`cells`, write enable latch,
write in progress) and the FPGA registers as sets of bits. A NOR write is the
loop of `nor_write`: write enable, page program, status polls with a counter,
next page. An FPGA call claims the bus twice, once to read and once to write.
Transfers with the FPGA can fail, and a read that fails yields any value (the
local is uninitialized); `garbled` remembers that it happened. The flash
finishes a program or an erase at any time (`FlashDone`), also after the driver
has given up or the DSP was reset; `busyAtClaim` remembers that a call found
the flash busy, because nothing in the driver waits for an earlier write.

`FpgaCores` are the cores that make FPGA calls. `RegistersAsAsked` is about one
of them, with other cores using the bus for the flash in between: the register
is read and written under two separate claims, and with two such cores one
change can undo the other. `fpgaEnableNorWriteProtect` sets the bit that means
"writable", like its disabling twin; it is modelled as it is (`Modify`) and left
out of the requests of the run, and of the theorem (`NoProtectNor`). A read that
fails is not replaced by the default the callers put into the variable
(`evmc66x_fpga.c:193`), because the driver stores its uninitialized local first.

`nor_read` and `nor_write` check `addr + len` against the size of the flash, in 32
bits (`Fits`, modulo `WORD`). `NorCallsExact` demands that a successful call stays
within the flash; requests whose sum wraps (`Wraps`) pass the check and are its
exception.

### 2.3 Pdsp

State: the five command words, each tagged with the call that wrote it; the
enable bit and whether the PDSP really runs (it follows the bit later); its
instruction memory; the firmware's fetch position; the core's call and the
word it writes next. The core writes words downwards, the command byte last.
Only `program_accumulator` waits. The firmware is external: it polls the
command byte, fetches the words one at a time, obeys, clears the byte.
Initially the firmware runs or there is none yet. `main()` programs two
accumulators, and nothing in the repository downloads firmware before that;
`CallsReturn` is therefore about a PDSP that has firmware.

`prompt[n]` records whether the command byte was clear when call `n` was made.
What the code guarantees needs it: `PromptIsObeyed`, the second half of
`CommandsIntact` and `EveryCommandObeyed` speak of commands issued, and
followed, by calls made when none was pending. Otherwise a command is lost: the
next call overwrites the words of one that did not wait.

### 2.4 Qmss

State: the queues with their entries, the C register of each queue between the
two writes of a non-atomic push, the DMA channels, the descriptors each core
owns and the calls in progress. `main()` fills the free queues, writes the
map and the flow registers and enables the channels, in that order. The words
it writes (`0x040002c8`, `0x20002000`, ...) are kept as numbers and decoded as
the DMA does, so that `KindsSeparate` says that the numbers of the repository
agree with each other. `atomic` is the build option `USE_VBUSM`, chosen in the
initial state; the repository's build leaves it undefined, and both are
checked. `empty_queue` is one step for the count and one per pop;
`DrainIsComplete` is about drains that nobody else disturbs. `Conserved` says
that the slots (positions in queues, channels, lists and cores) and the
descriptors correspond one to one.

The application is external, since the repository ends with the set-up: it
pops descriptors, pushes them to the queues of their circuit, diverts and
drains queues.

### 2.5 Eeprom

State: the call with its block (`done`, `sent`), the poll counter `tmo`, the
controller's flags BB and NACK, the handles, and the EEPROM (`cells`, the write
`cycle`, whether it listens). A transfer is the state machine of
`i2cEepromWriteBlock` and `i2cEepromRead`: wait for the bus (`BusPoll`), start
and first byte (`Begin`), the other bytes, each with its poll (`Send`, `Wait`,
`Nack`), then `Stop` and the delay (`Pause`), or the turn-around and `Receive`.
Address bytes are digits to the base `RADIX`, a block has `CHUNK` data bytes.
The EEPROM is external: it does not acknowledge during a write cycle, programs
at the stop condition and wraps around within a page. Disturbances (a byte that
is not acknowledged, a poll that times out, another user of the bus) are
bounded by `MaxFaults`.

`handle` is what the code sees, `opened` what the user has opened and not
closed: `platform_get_info` closes the handle of whoever has it open. `unseen`
is set where the last byte of a block was not acknowledged, which the driver
does not look at; `early` where a receive register was read before it was full.
`since` is the number of disturbances when the call began, so that
`SucceedsUndisturbed` speaks of each call that was not disturbed itself, whatever
has happened to the calls before it: their error exits must leave the bus free and
the flags clear. It is -1 for the calls that the property excepts: those that
begin during a write cycle (`i2cEepromWrite` and `i2cEepromMacWrite` return while
it runs) and those after `unseen`, since the NACK flag stays set and the start of a
block does not clear it. `opened` excepts the reads and writes of a device
whose handle `platform_get_info` has closed, and those that were never opened.
Other users occupy or leave the bus while a call waits for it (`Noise`); that they
did so between two calls makes no difference to the next one.

### 2.6 NandPins and NandEcc

In `NandPins` a call is a sequence of pin operations (`todo`): `Operations(r)`
is what the functions of `evm66x_nand.c` do to the GPIO, from `Set`, `Clear`,
`Out`, `In`, the data bus and `NandWaitRdy`, with the steps in between that
only compute. `Do` performs the next one. The chip is external and sees nothing
but pins: it takes what is on the data bus when write enable rises, as a
command, an address or data, depending on CLE and ALE; it ignores all but a
reset while it is busy. A part of 256 bytes is one value, and its three ECC
bytes are that value again, as `NandEcc` justifies. The wait for the ready pin
may time out, a program or erase may fail in the chip, and a bit may flip.
`CallsExact` says that all these pin operations amount to the page or block
operation that was asked for, which is the step `FlashWrite` takes for granted;
`late` (the chip was still busy) and `broken` (the chip failed, which nothing
reads) are its exceptions.

`NandEcc` is the computation itself, on 256 bytes, with the table of
`evmc66x_ecc.c`: `ComputeECC`, and `Read` with the four outcomes of
`eccCorrectData`.

### 2.7 BoardInit and Services

`BoardInit` is `platform_init` from the check of its arguments to the end of
auto-negotiation, one step per wait: the main PLL (`bypass`, `values`, `reset`,
`engage`), the two others, DDR3 and its test with the retry loop, the saved
frequency, the power domains, SerDes and SGMII. Of a PLL the model keeps
multiplier, dividers, the two multiplexers, power, reset and lock. What the
boot ROM leaves is chosen from `BootPll`. Unbounded polls are steps that wait
for the hardware, which may never answer. The test that decides whether an attempt
is repeated covers the first 128 KB of the DDR3 (`Tested`), and success promises no
more than that they are sound. The base clock is a fraction, `BASE_CLK /
CLK_UNIT` (122.88 MHz is 12288 / 100), and `Measured` cuts the product to whole
MHz as `platform_get_frequency` does; `StartUpComplete` compares the saved
frequency with the true clock in whole MHz.

`Services` extends it with calls made before, between and after start-ups:
`platform_delay` in arithmetic modulo `WORD`, `platform_get_info` (which measures
the frequency again), the UART with a receiver that bytes enter at any time,
`platform_write` and `platform_uart_write`, and the memory tests. `ServicesExact` is the
conjunction of `DelayKept`, `ReadsInOrder`, `WritesInOrder` and `TestsTrue`, one per
service. Their exceptions:

* `DelayKept` counts cycles of whole MHz: with 983 instead of 983.04 a delay of
  10 ms is some 400 cycles short. It needs a product of microseconds and MHz below
  2^31 and a frequency read after the main PLL was last changed (`current`). A
  delay before the first `platform_init` does not end, because nothing has started
  the counter (`counting`).
* `WritesInOrder`: `platform_uart_init` clears the FIFOs (`FCR = 0x07`), and
  with them a byte that waits to be sent (`lost`); all others arrive in order.
* `TestsTrue` is about the words of the range, which starts at a multiple of four
  as a pointer to words must.

## 3. Runs

| run | question | size |
|---|---|---|
| `FlashWriteNand` | device API on NAND and NOR: data in place, bad blocks spared, refinement, termination | 3 blocks of 2 pages of 2 units, 3 calls |
| `FlashOverrun` | violation: `NeverOverruns` | same, 2 calls, writes that do not fit included |
| `FlashRest` | violation: `RestPreserved` | same, 2 calls |
| `SpiBus` | bus, NOR driver and registers, two cores | 2 sectors of 2 pages of 2 cells, 2 calls, time-outs of 2 polls |
| `SpiLeak` | violation: `ReturnReleases` with sector `SECTOR_COUNT` | same |
| `PdspCommands` | commands and download | 4 calls of all kinds |
| `QmssQueues` | queues under concurrency and the set-up of `main()` | 2 cores (symmetric), 5 descriptors, 4 calls |
| `Eeprom` | transfers with time-outs, missing acknowledges and write cycles | 2 banks of 16 bytes, pages of 4, blocks of 2, 4 calls, 2 disturbances |
| `EepromMac` | violation: `MacCallsReturn` | same, 1 call |
| `NandPins` | the pin sequences amount to the page operations | 4 blocks of 2 pages, 2 parts and 8 spare bytes, 3 calls, 2 faults |
| `NandEcc` | errors are corrected or reported | 256 bytes, all single bits, selected pairs |
| `Services` | start-up with retries, delays, UART, memory tests | 3 words of 4 bits, a counter modulo 64, 2 tries, 2 calls, 2 bytes |

### 3.1 Why the bounds are enough

* FlashWrite: three blocks give a first, a middle and a last block; two pages
  a start within a block and an end within a block; buffers of 0, 1, 3 and 4
  pages and every offset, so that a write covers one to three blocks, skips
  bad ones at the start, in the middle and at the end, and ends within a page
  or not. Three calls are an open, one call that changes the flash or its
  markers, and a write after it; a reset may come at any time.
* SpiBus: a write of three cells from an odd address crosses two page
  boundaries, one from address 6 the end of the flash; time-outs of two polls
  expire or not. Two calls run at the same time on two cores or after one
  another on one, the second one then meeting a flash that is still busy.
* Pdsp: a lost or torn command takes two calls; four leave room for a
  download, the disturbing call, and one after it.
* Qmss: two pops and two pushes, which is what two overlapping pushes take;
  one packet goes through a channel completely with two calls.
* Eeprom: writes of one block and of three, one that crosses a page, a read up
  to the end of a bank. Four calls are an open, a call that is disturbed, and
  the call after it, with one to spare for `platform_get_info` in between.
* NandPins: both cycles of the row address and the plane bit differ between
  the blocks used, block 4 of 4 wraps around; the three calls are the open that
  the device needs, one call, and the one that meets what it has left behind.
  `NandPinsProofs` takes the bounds away.
* NandEcc: a single error is checked at each of the 2048 + 24 bits. Two errors
  can only be confused if their parities combine to those of one, which the
  byte and bit numbers in `MCTogether` (0, the powers of two, and all ones) would
  show: parities are linear in the bits of these numbers. Beyond these bounds,
  all pairs and all contents are covered by the theorems of `NandEccProofs`.
* Services: the memory has a sound, an aliased and a stuck instance; multipliers
  are the default, even and odd ones, one beyond the 2-bit register and one beyond
  `PLLM_MAX`; the boot ROM leaves PLLs at rest, running, or running with another
  output divider. The test of start-up covers two of the three words of the memory,
`platform_external_memory_test` all. The base clock is 7/3 MHz, so that most
products have a fraction. The counter starts at 0 or just before it wraps. Two calls let a
  start-up meet what an earlier one has left, and a service what it has set.

`CHECK_DEADLOCK FALSE` is set for the flash, SPI, PDSP, queue and services runs,
whose clients make a bounded number of calls and then rest, and whose hardware
may leave a poll waiting. `Eeprom`, `NandPins` and `NandEcc` have a step
`Finished` instead, so that TLC would find a call that gets stuck.

### 3.2 Fairness

* `FlashWrite!FairSpec`: weak fairness of the steps of a write. The function
  runs on a core that does nothing else; resets are not required.
* `SpiBus!FairSpec`: weak fairness of each core's steps. The semaphore has no
  queue, and with an unbounded number of calls a core could starve in
  `spi_claim`; `CallsReturn` is a statement about bounded contention. No
  fairness is assumed of the flash: the polls are bounded.
* `Pdsp!FairSpec`: weak fairness of the core and of the PDSP with its firmware,
  which runs in a loop of its own.
* `Eeprom!Spec`: weak fairness of the driver's steps and of the end of a write
  cycle, which takes a bounded time in the part.
* `Qmss` makes no liveness claim: whether packets move depends on the
  application that returns free descriptors, which is not in the repository.
  Neither do `NandPins` and `NandEcc`, whose calls are finite sequences, nor
  `Services`, where the polls at start-up have no bound.

## 4. Proofs

For every value of the constants, under the `ASSUME`s of the modules:

| theorem | states | argument |
|---|---|---|
| `FlashWriteProofs!TypeCorrect` | `TypeOK` | inductive with the loop facts (`page` within the block, `len` bounded by the rest of `buf`) |
| `FlashWriteProofs!ErasedAndInRange`, `WriteInRange` | `ProgramsErasedPages`, `WriteStaysInRange` | while programming, pages from `page` on are erased; a write moves upwards only |
| `FlashWriteProofs!BadBlocksAreSpared` | `BadBlocksSpared` | an action property: past `pick`, `block` is not listed or lies beyond the last one, and no step of the write changes the list |
| `FlashWriteProofs!SuccessComplete` | `SuccessIsComplete` | `CompleteInv`: the pages placed are counted by `bufindex`, up to the partial last page |
| `FlashWriteProofs!DataIsInPlace` | `DataInPlace` | `PlaceInv`: pages placed lie before the position of the loop, the last one directly before it (`After`), so no later erase meets them |
| `FlashWriteProofs!ReadsBack` | `ReadBackWithoutBadBlocks` | `StraightInv`: without bad blocks the k-th page lies k pages after the start; the division is done once in lemmas |
| `FlashWriteProofs!RestIsPreserved` | `WholeBlocksPreserveRest` | `RestInv`: with whole blocks the write-back branch is never taken, so every page of an erased block is placed |
| `FlashWriteProofs!Implements` | `ImplementsStore` | `MapInv`: the block that is programmed is torn; each step is one of `FlashStore` or a stutter |
| `SpiBusProofs!TypeCorrect` | `TypeOK` | `LoopInv`: within the loop of `nor_write` the count stays within the request and the poll counter is positive |
| `SpiBusProofs!ExclusiveBus` | `BusIsExclusive` | `IInv` ties the semaphore to the positions of the cores and the selected chip to the request |
| `SpiBusProofs!QuietWhileBusy` | `NoCommandWhileBusy` | `IInv`: what a flash that was ready can be doing is determined by the position of the owner |
| `SpiBusProofs!ValidSectorsRelease` | `ReturnReleases` | needs the hypothesis that only valid sectors are erased: `SpiLeak` is the counterexample without it |
| `SpiBusProofs!CallsAreExact` | `NorCallsExact` | `EInv`: at the loop head the flash is the content at the claim with the first `actual` cells programmed (`Prefix`); `ChunkLen` keeps a page program within a page, where the chip does not wrap around; a request that passes `Fits` without wrapping is within the flash |
| `SpiBusProofs!OneCoreIsObeyed` | `RegistersAsAsked` | hypotheses: at most one core makes FPGA calls, none is `fpgaEnableNorWriteProtect`; `AskedInv`: between the two claims the value read is still that of the register |
| `PdspProofs!TypeCorrect` | `TypeOK` | inductive with: nothing is fetched outside of a fetch |
| `PdspProofs!CommandsAreWhole` | `CommandsIntact` | `BootInv` and `CommandInv`: when the command byte is set, the words below the core's position belong to one call |
| `PdspProofs!PromptCommandsObeyed` | `PromptIsObeyed` | `PromptInv` follows a prompt command from its last word to the cleared byte |
| `QmssProofs!TypeCorrect`, `KindsStaySeparate`, `SizesAreRight` | `TypeOK`, `KindsSeparate`, `SizesMatch` | one `IInv`: each queue holds entries of its circuit (`QueueInv`), so do the DMA (`DmaInv`), the calls (`CallInv`) and the C registers (`LatchInv`); needs that the four arrays of descriptors are disjoint |
| `QmssProofs!NothingLost` | `Conserved` | `PlaceInv`: what the places hold (`Holds`) is parted, and no place holds a descriptor twice; a step takes from one place and adds to another; needs that each array names a descriptor once |
| `QmssProofs!DrainsAreComplete` | `DrainIsComplete` | `DrainInv`: what is listed and what is still queued are together what the queue held when the entries were counted, in order |
| `EepromProofs!TypeCorrect` | `TypeOK` | `Position`: what is true of the counters at each place of the driver |
| `EepromProofs!UndisturbedSucceeds` | `SucceedsUndisturbed` | `CleanInv`: whatever has happened the bus is free between calls and blocks, and NACK is set only after a missed acknowledge (`FlagsClear`, over every error exit); while a call is not disturbed the EEPROM listens |
| `EepromProofs!TransferCorrect` | `TransfersExact` | `EInv`: before a block is stopped exactly the blocks before it are written, or fewer once NACK is set; `BlockInPage` and `ProgramInPage`: a block that stays in its page is programmed where it was sent to |
| `NandPinsProofs!TypeCorrect`, `PinsKeptSafe`, `EveryCallExact` | `TypeOK`, `PinsSafe`, `CallsExact` | one `Inv`: within a call the rest of `todo` has an outline, a label per operation that the state is at (`At`), whose last label holds the result asked for; see below |
| `NandEccProofs!EverySingleError`, `NoTwoErrorsForOne` | `SingleErrorsCorrected`, `NoMiscorrection` | `CodeInv`: the computed and the stored ECC differ by the `Syndrome`s of the flipped bits. `EntryDigits`: the table holds parities of the bits of its index; so a flipped bit adds its syndrome (`CodeFlips`), that of a data bit has one bit of each of eleven pairs, which spell byte and bit, and the sum of two is never such a syndrome |
| `BoardProofs!MemoryTestExact` | a test succeeds exactly if `Healthy` | a cell that gives back a set and its complement has no stuck bit; two words with one cell read the same |
| `BoardProofs!ClocksAreSafe` | `ClocksSwitchSafely` | `ClockInv`: `MainInv` and `AuxInv` give the state of a PLL at each position of the call; the boot ROM leaves a consistent PLL (`BoardAssumption`) |
| `BoardProofs!TypeCorrect` | `TypeOK` of `Services` | `CallTyped`, `HardTyped`, `FrequencyTyped` and the services, with the place of a call tied to its operation (`PlaceOp`); `MeasuredFits`: the frequency fits its 32 bits because a multiplier below `PLLM_LOW` times the input clock does |
| `BoardProofs!StartUpSucceeds` | `StartUpComplete` | `StartInv` says at each place of `platform_init` what has been done (`MainSet`, `PaSet`, `DdrSet`, `PhySet`), also when an attempt is repeated; success is returned only from the last place |
| `BoardProofs!ServicesHold` | `ServicesExact` | one conjunct per service: `WritesInOrder`, `ReadsInOrder`, `TestInv` (which of the two halves of the L1 test have passed), `DelayInv` (the counter is the start plus what has elapsed, modulo `WORD`; `DelayLasts`: a signed difference below half the range is the true one), for whole MHz of any base clock |

The invariants are not inductive as stated: `BusIsExclusive` says nothing of
a free semaphore, `NorCallsExact` only speaks of the end of a call,
`PromptIsObeyed` of a call that has returned. The strengthenings are named in
the proof modules, each conjunct for the fact it supplies.

Assumptions about the board carry the last three theorems: the frequencies
that fit into the low bits of the multiplier fit into a word, and the base clock is
any fraction (`BoardAssumption`); a word of the tested memory lies at a multiple of
four with its four bytes inside of the DDR3, and a tested range starts at one
(`ServicesAssumption`). `StartUpComplete` makes an exception for a PLL that the
boot ROM has left running with an output divider other than two, which
`platform_get_frequency` takes for granted.

`NandPinsProofs` is the largest proof, since its loops and sequences have no fixed
length. It separates what a call does from when it does it. The driver's pin
operations are followed on labels: how the pins stand, and what an *ideal chip*, one
that obeys at once, would hold. `Allowed` says where an operation may be used (no
byte is taken from a chip that may be busy, a program addresses a row of the
request, the bus is never driven from both sides), `After` what it leads to, and a
wait that is given up leads on to a later label (`Joins`). That a function's sequence
leads from one label to another (`Leads`) is a lemma per function, from the strobe of
one byte (`ByteLeads`) over the loops (`ReadBytesLeads`, `WriteBytesLeads`) and the
row address (`RowAddressed`: three cycles pack and unpack to the same row) up to the
calls (`CallComplete`). That a step of the model follows its label is one lemma per
operation (`DoStep`). The real chip may lag: `Weak` says that, whatever has gone
wrong, it follows the label or does nothing, which keeps the other rows safe, and
`ExactAt` that it is the ideal chip as long as nothing has gone wrong. The theorems
hold for every size of the spare area from eight bytes on, of a block and of the device
that the address cycles reach (a page has its two parts), for every sequence of requests (`RequestAssumption`: any unsigned page and
block number, buffers of the right length) and any number of faults.

`NandEccProofs` needs no induction: the parity of a set that loses or gains one
element changes (`OddFlips`), so the difference between the ECC computed and the
ECC stored is followed one flipped bit at a time, whatever the 256 bytes are.

The few facts that need induction (that `FlattenSeq` keeps types) are proved by
least counterexample: `LeastNatural` gives a set of naturals its least member.

Only model-checked: all liveness properties (`WriteReturns`, the three
`CallsReturn`, `EveryCommandObeyed`), since liveness under fairness and `ENABLED`
are out of the prover's reach. Every invariant that a run checks is also proved.

## 5. Disagreements between the code and what it says

The violation runs each show one (`PROJECT.json` quotes the lines):

1. `FlashOverrun`: "Make sure we didn't exceed number of blocks" accepts one
   block too many, and the scan before it has no bound.
2. `FlashRest`: "re-write what was there" writes other pages.
3. `SpiLeak`: `nor_erase` keeps the bus on one error path.
4. `EepromMac`: "Check for transmit ready" tests one sample of the status for
   ever.

Met while modelling, kept in the models as the code has them, and visible as
exceptions in the properties or as the choices of an action:

* Flash: `mark_block_bad` ignores a failed read of the spare area and writes what
  it has not read; the list of bad blocks in RAM is not told of a block that is
  marked; nothing reads
  the NAND's status after a program or erase; a time-out of a read returns with
  chip enable low; "Disable Write protect in NAND" has no code.
* SPI: the LED and protect functions lose a change when two cores make one;
  `fpgaEnableNorWriteProtect` sets the bit that means writable; the sum of address
  and length that the NOR functions check wraps at 2^32.
* PDSP and queues: `pdsp_running` returns a bit above bit 7 as a byte, so
  "Confirm PDSP has halted" never waits; a command issued after one that does
  not wait may be overwritten; `empty_queue` lists null descriptors when others
  take from the queue.
* EEPROM: the acknowledge of the last byte is not looked at, and the flag it
  leaves makes the next block or call fail; `platform_get_info` closes a handle in
  use; the delay of `i2cEepromWrite` is shorter than a write cycle.
* Start-up: a multiplier that is too large is refused by `prog_pll1_values`
  and nobody asks; of the multiplier only six bits are read back, an odd one is
  rounded; the frequency is saved once and is stale after another start-up, or
  -1 after a failed measurement, so that delays return at once; a core other
  than 0 fails after it has reprogrammed the main PLL; only the DDR3 test
  repeats the attempt, a PLL time-out ends it; errors of the negotiation and of
  error correction are not reported; DDR3 is set up before the power domains.
* Services: a UART time-out may consume the byte that arrived late; `UartInit`
  discards a byte that waits to be sent; setting the baud rate drops the parity; the
  fraction of a MHz is cut off, which makes delays a little short; `platform_write` checks the length of the
  format only; products of 2^31 and more end a delay early.

## 6. Not modelled

* Two cores that command the same PDSP (the functions take no lock), and the
  accumulator lists that `main()` clears after programming the accumulators:
  the repository's one core does neither again.
* The accumulator programming of `main()` as part of `Qmss`: the calls themselves
  are in `Pdsp`.
* The loop of `platform_device_read` over pages and blocks, beyond what
  `ReadBackWithoutBadBlocks` says of its addresses.
* The bit level of the UART and SPI controllers: `spi_xfer` polls flags without
  a bound, and a model would assume what it shows. The timing values of the DDR3
  controller.
* Functions that only return what a register or constant holds
  (`platform_get_emac_info`, `platform_phy_link_status`, FPGA queries), the
  statistics and threshold registers of `QueueFun.h`, and the GPIO interrupt
  set-up, which nothing calls.
* The simulator twin (the same API with most devices compiled out), generated
  build output, and the test applications, whose sequences are what the
  models' clients do.

What could be added next: the step from `FlashWrite`'s driver calls to the calls of
`NandPins` as a refinement (today two separate proofs of the same promise).
