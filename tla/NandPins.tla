------------------------------ MODULE NandPins ------------------------------
(***************************************************************************)
(* The NAND driver (evm66x_nand.c) on its GPIO pins (evmc66x_gpio.c), with *)
(* the parts of platform.c that call it.  Every function of the driver is  *)
(* a sequence of pin operations; the chip at the other end of the pins is  *)
(* external, and takes a command, an address or data byte when write       *)
(* enable rises.                                                           *)
(*                                                                         *)
(* Abstracted: a page is PARTS values, each standing for 256 bytes, and    *)
(* SPARE bytes; the three ECC bytes of a part are the value they protect   *)
(* (NandEcc has the computation); delays are left out; the wait for the    *)
(* ready pin ends when the chip is ready or, for a fault, by its time-out. *)
(***************************************************************************)
EXTENDS Integers, Sequences, SequencesExt

CONSTANTS
  PAGES,     \* NAND_PAGES_PER_BLOCK
  BLOCKS,    \* NAND_BLOCKS_PER_DEVICE
  CYCLE,     \* values of an address cycle
  PARTS,     \* NAND_BYTES_PER_PAGE / ECC_BLOCK_SIZE: 2
  SPARE,     \* NAND_SPARE_BYTES_PER_PAGE
  BBOFFSET,  \* where in the spare area the bad block marker is
  Value, Erased, BadMark, Junk, \* what a byte or part can be
  OneBit,    \* pairs of values of a part that differ in one bit
  Content,   \* what a row may hold at power-up
  Request,   \* the calls that are made
  MaxCalls, MaxFaults  \* bounds: calls; time-outs, chip failures, bit errors

Block == 0 .. BLOCKS - 1
Row == 0 .. BLOCKS * PAGES - 1
Place == 1 .. PARTS + SPARE

ASSUME NandAssumption ==
  /\ PAGES \in Nat \ {0} /\ BLOCKS \in Nat \ {0} /\ CYCLE \in Nat \ {0}
  /\ BLOCKS * PAGES = CYCLE * CYCLE * 2
  /\ PARTS = 2 /\ SPARE \in Nat /\ SPARE >= 8 /\ BBOFFSET = 5
  /\ {Erased, BadMark, Junk} \subseteq Value /\ OneBit \subseteq Value \X Value
  /\ Content \subseteq [Place -> Value]
  /\ MaxCalls \in Nat /\ MaxFaults \in Nat

(* The arguments of the calls: page and block numbers are unsigned, a page *)
(* or the spare area of one is written as a whole.                         *)
ASSUME RequestAssumption ==
  Request \subseteq
    [op : {"open"}] \cup [op : {"erase", "mark"}, block : Nat]
    \cup [op : {"read", "readspare"}, page : Nat, block : Nat]
    \cup [op : {"write"}, page : Nat, block : Nat, data : [1 .. PARTS -> Value]]
    \cup [op : {"writespare"}, page : Nat, block : Nat, data : [1 .. SPARE -> Value]]

VARIABLES
  todo,      \* the pin operations the running call has left
  req, ret,  \* the call and what it returned
  high,      \* GPIO output register: the pins that are 1
  outputs,   \* GPIO direction register: the pins (and the data bus) driven
  bus,       \* what the GPIO drives on the data bus
  pageBuf, user, \* nandPageBuf and the caller's buffer
  bblist,    \* blocks the bad block list names good

  area,      \* the chip: what a page access starts at, "main" or "spare"
  op, cycles,  \* the command it has, and its address cycles
  reg, col,  \* the page register and the column in it
  busy,      \* ready/busy is low
  cells,     \* the content of its rows
  calls, faults

(* Observation only: *)
VARIABLES
  before,    \* the content when the call began
  late,      \* the chip was busy when the call began: an earlier wait timed out
  broken     \* the chip failed to program or erase, and only its status says so

driver == <<todo, req, ret>>
gpio == <<high, outputs, bus>>
buffers == <<pageBuf, user, bblist>>
chip == <<area, op, cycles, reg, col, busy, cells>>
obs == <<before, late, broken>>
vars == <<driver, gpio, buffers, chip, calls, faults, obs>>

(* Pins that are not driven are pulled up, except the latch enables. *)
Pulled == {"NCE", "NWE", "NRE"}
Low(pin) == pin \notin (IF pin \in outputs THEN high ELSE Pulled)

Programmed(old, new) ==
  IF new = Erased \/ new = old THEN old ELSE IF old = Erased THEN new ELSE Junk

-----------------------------------------------------------------------------
(* Pin operations *)

Set(p) == [do |-> "set", pin |-> p]
Clear(p) == [do |-> "clear", pin |-> p]
Out(p) == [do |-> "out", pin |-> p]
In(p) == [do |-> "in", pin |-> p]
Put(v) == [do |-> "put", val |-> v]                    \* a byte on the data bus
PutFrom(b, i) == [do |-> "putfrom", buf |-> b, at |-> i]
Get(b, i) == [do |-> "get", buf |-> b, at |-> i]       \* the byte on the data bus
(* NandWaitRdy: on a time-out chip enable is raised or not, and the call   *)
(* fails, or goes on after so many operations.                             *)
Wait(raise, skip) == [do |-> "wait", raise |-> raise, skip |-> skip]
Compute(what, n) == [do |-> what, at |-> n]

WriteByte(put) == << Clear("NWE"), put, Set("NWE") >>
Cmd(c) == <<Set("CLE")>> \o WriteByte(Put(c)) \o <<Clear("CLE")>>
Ale(a) == <<Set("ALE")>> \o WriteByte(Put(a)) \o <<Clear("ALE")>>

(* Mutant of ReadByte: the data bus stays an output. *)
ReadByteDriving(b, i) == << Clear("NRE"), Get(b, i), Set("NRE") >>

ReadByte(b, i) == << In("bus"), Clear("NRE"), Get(b, i), Set("NRE"), Out("bus") >>

(* Mutant of ReadBytes: the buffer is counted from one. *)
ReadBytesFromOne(b, from, n) == FlattenSeq([i \in 1 .. n |-> ReadByte(b, from + i + 1)])

ReadBytes(b, from, n) == FlattenSeq([i \in 1 .. n |-> ReadByte(b, from + i)])
WriteBytes(b, from, n) ==
  <<Clear("ALE"), Clear("CLE")>> \o FlattenSeq([i \in 1 .. n |-> WriteByte(PutFrom(b, from + i))])

(* Mutant of Pack: the block is shifted by one bit too few. *)
PackShort(page, block) == ((page % PAGES) + PAGES * (block % BLOCKS)) \div 2

(* PACK_ADDR, without the column, in units of a page. *)
Pack(page, block) == (page % PAGES) + PAGES * (block % BLOCKS)

RowCycles(row) ==
  Ale(row % CYCLE) \o Ale((row \div CYCLE) % CYCLE) \o Ale((row \div (CYCLE * CYCLE)) % 2)

(* NandReadSpareArea.  With goOn the caller ignores that it failed. *)
ReadSpare(page, block, b, from, goOn) ==
  LET bytes == ReadBytes(b, from, SPARE)
  IN  <<Clear("NCE")>> \o Cmd("50") \o Ale(0) \o RowCycles(Pack(page, block))
      \o <<Wait(FALSE, IF goOn THEN Len(bytes) + 1 ELSE 0)>> \o bytes \o <<Set("NCE")>>

(* readNandPage: NandReadPage, then ECC and the copy to the caller. *)
ReadPage(page, block) ==
  <<Clear("NCE")>> \o Cmd("00") \o Ale(0) \o RowCycles(Pack(page, block)) \o <<Wait(FALSE, 0)>>
  \o ReadBytes("page", 0, PARTS + SPARE) \o <<Set("NCE")>>
  \o [i \in 1 .. PARTS |-> Compute("correct", i)] \o <<Compute("copyout", 0)>>

ProgramEnd == Cmd("10") \o <<Wait(TRUE, 0), Set("NCE")>>

(* NandWritePage (pointer 00) and NandWriteSpareArea (pointer 50). *)
Program(pointer, page, block, b, n) ==
  <<Out("bus"), Clear("NCE")>> \o Cmd(pointer) \o Cmd("80") \o Ale(0) \o RowCycles(Pack(page, block))
  \o WriteBytes(b, 0, n) \o ProgramEnd

(* writeNandPage: the spare area is read, and gets the ECC bytes. *)
WritePage(page, block) ==
  <<Compute("copyin", 0)>> \o ReadSpare(page, block, "page", PARTS, FALSE)
  \o <<Compute("ecc", 0)>> \o Program("00", page, block, "page", PARTS + SPARE)

(* nandFlashBlockErase *)
Erase(block) ==
  <<Clear("NCE")>> \o Cmd("60") \o RowCycles(Pack(0, block)) \o Cmd("D0")
  \o <<Wait(TRUE, 0), Set("NCE")>>

(* platform_device_mark_block_bad: the result of the first read is not     *)
(* looked at, and the block number only after it.                          *)
MarkBad(block) ==
  (IF block < BLOCKS THEN ReadSpare(0, block, "user", 0, TRUE) ELSE <<>>)
  \o <<Compute("mark", BBOFFSET + 1)>>
  \o (IF block < BLOCKS THEN Program("50", 0, block, "user", SPARE) ELSE <<Compute("invalid", 0)>>)

(* nandInit: gpioInit, NandConfig and the reset of NandOpenDevice. *)
Initialise ==
  <<Out("bus"), Out("CLE"), Out("ALE"), Out("NWE"), In("BSY")>>
  \o <<Out("CLE"), Out("NCE"), Out("NWE"), Out("ALE"), Out("NRE"), Out("bus")>>
  \o <<Set("NCE"), Clear("CLE"), Clear("ALE"), Set("NWE"), Set("NRE")>>
  \o <<Clear("NCE")>> \o Cmd("FF") \o <<Set("NCE"), Wait(FALSE, 0)>>

(* NandGetDetails: the identification, and the marker of every block. *)
GetDetails ==
  <<Out("bus"), Clear("NCE")>> \o Cmd("90") \o Ale(0)
  \o ReadByte("id", 1) \o ReadByte("id", 2) \o <<Set("NCE")>>
  \o FlattenSeq([b \in 1 .. BLOCKS |->
       ReadSpare(0, b - 1, "page", 0, FALSE) \o <<Compute("list", b - 1)>>])

Operations(r) ==
  IF r.op = "open" THEN Initialise \o GetDetails
  ELSE IF r.op = "read" THEN ReadPage(r.page, r.block)
  ELSE IF r.op = "write" THEN WritePage(r.page, r.block)
  ELSE IF r.op = "erase" THEN Erase(r.block)
  ELSE IF r.op = "mark" THEN MarkBad(r.block)
  ELSE IF ~ (r.block < BLOCKS /\ r.page < PAGES) THEN <<Compute("invalid", 0)>>
  ELSE IF r.op = "readspare" THEN ReadSpare(r.page, r.block, "user", 0, FALSE)
  ELSE Program("50", r.page, r.block, "user", SPARE)

-----------------------------------------------------------------------------
(* The chip *)

AddressedRow(c) == c[1] + CYCLE * c[2] + CYCLE * CYCLE * c[3]
Start == IF area = "main" THEN 0 ELSE PARTS

(* It finishes what it does.  A read leaves the row in the page register. *)
ChipReady ==
  /\ busy
  /\ busy' = FALSE
  /\ op' = IF op = "read" THEN op ELSE "none"
  /\ UNCHANGED <<driver, gpio, buffers, area, cycles, reg, col, cells, calls, faults, obs>>

(* A program or erase operation fails, which only the status would tell. *)
MayBreak(done) ==
  \/ cells' = done /\ UNCHANGED <<faults, broken>>
  \/ faults < MaxFaults /\ faults' = faults + 1 /\ broken' = TRUE /\ UNCHANGED cells

ChipCommand(c) ==
  IF c = "FF" THEN op' = "reset" /\ busy' = TRUE /\ UNCHANGED <<area, cycles, reg, col, cells, faults, broken>>
  ELSE IF busy THEN UNCHANGED <<chip, faults, broken>>
  ELSE IF c \in {"00", "50"} THEN
    /\ area' = IF c = "00" THEN "main" ELSE "spare"
    /\ op' = "read" /\ cycles' = <<>>
    /\ UNCHANGED <<reg, col, busy, cells, faults, broken>>
  ELSE IF c \in {"60", "80", "90"} THEN
    /\ op' = IF c = "80" THEN "program" ELSE IF c = "60" THEN "erase" ELSE "id"
    /\ cycles' = <<>> /\ reg' = [i \in Place |-> Erased] /\ col' = Start
    /\ UNCHANGED <<area, busy, cells, faults, broken>>
  ELSE IF c = "10" /\ op = "program" /\ Len(cycles) = 4 THEN
    LET row == AddressedRow(Tail(cycles)) IN
    /\ MayBreak([cells EXCEPT ![row] = [i \in Place |-> Programmed(@[i], reg[i])]])
    /\ busy' = TRUE /\ UNCHANGED <<area, op, cycles, reg, col>>
  ELSE IF c = "D0" /\ op = "erase" /\ Len(cycles) = 3 THEN
    /\ MayBreak([r \in Row |-> IF r \div PAGES = AddressedRow(cycles) \div PAGES
                               THEN [i \in Place |-> Erased] ELSE cells[r]])
    /\ busy' = TRUE /\ UNCHANGED <<area, op, cycles, reg, col>>
  ELSE UNCHANGED <<chip, faults, broken>>

ChipAddress(a) ==
  IF busy \/ Len(cycles) = 4 THEN UNCHANGED chip
  ELSE /\ cycles' = Append(cycles, a)
       /\ IF op = "read" /\ Len(cycles) = 3
          THEN busy' = TRUE /\ reg' = cells[AddressedRow(Tail(cycles'))] /\ col' = Start
          ELSE UNCHANGED <<busy, reg, col>>
       /\ UNCHANGED <<area, op, cells>>

ChipData(v) ==
  IF busy \/ op # "program" \/ Len(cycles) # 4 \/ col + 1 \notin Place THEN UNCHANGED chip
  ELSE reg' = [reg EXCEPT ![col + 1] = v] /\ col' = col + 1 /\ UNCHANGED <<area, op, cycles, busy, cells>>

(* Write enable rises. *)
ChipInput ==
  IF ~ Low("CLE") THEN ChipCommand(bus)
  ELSE UNCHANGED <<faults, broken>> /\ IF ~ Low("ALE") THEN ChipAddress(bus) ELSE ChipData(bus)

(* It drives the data bus while read enable is low. *)
Drives == Low("NCE") /\ Low("NRE") /\ ~ Low("NWE") /\ ~ busy

(* What the GPIO reads on the data bus. *)
OnBus == IF Drives /\ "bus" \notin outputs /\ op = "read" /\ col \in Place THEN reg[col] ELSE Junk

(* A cell of a row changes by one bit. *)
BitError ==
  /\ faults < MaxFaults /\ faults' = faults + 1 /\ todo = <<>>
  /\ \E r \in Row, i \in 1 .. PARTS, v \in Value :
       <<cells[r][i], v>> \in OneBit /\ cells' = [cells EXCEPT ![r][i] = v]
  /\ before' = cells'
  /\ ret' = "none"
  /\ UNCHANGED <<todo, req, gpio, buffers, area, op, cycles, reg, col, busy, calls, late, broken>>

-----------------------------------------------------------------------------
(* eccCorrectData with the ECC read from the spare area: no error, one bit *)
(* of the data, or else a failure, which stands as Junk.                   *)
Corrected(v, ecc) ==
  IF ecc = <<v, v, v>> THEN v
  ELSE IF \E w \in Value : <<v, w>> \in OneBit /\ ecc = <<w, w, w>> THEN ecc[1]
  ELSE Junk

(* Where in the spare area the i-th of the six ECC bytes is: eccLoc. *)
EccPlace(i) == <<0, 1, 2, 3, 6, 7>>[i]

EccOf(row, part) == [k \in 1 .. 3 |-> row[PARTS + EccPlace(3 * (part - 1) + k) + 1]]

WithEcc(row) ==
  [i \in Place |-> IF \E k \in 1 .. 6 : i = PARTS + EccPlace(k) + 1
                   THEN row[((CHOOSE k \in 1 .. 6 : i = PARTS + EccPlace(k) + 1) + 2) \div 3]
                   ELSE row[i]]

Init ==
  /\ todo = <<>> /\ req = [op |-> "open"] /\ ret = "none"
  /\ high = {} /\ outputs = {} /\ bus = Junk
  /\ pageBuf = [i \in Place |-> Junk] /\ user = [i \in Place |-> Junk]
  /\ bblist = {}
  /\ area = "main" /\ op = "none" /\ cycles = <<>> /\ reg = [i \in Place |-> Erased] /\ col = 0
  /\ busy = FALSE
  /\ \E c \in Content : cells = [r \in Row |-> IF r = 0 THEN c ELSE [i \in Place |-> Erased]]
  /\ calls = 0 /\ faults = 0
  /\ before = cells /\ late = FALSE /\ broken = FALSE

(* The device must be opened before it is used. *)
Call(r) ==
  /\ todo = <<>> /\ calls < MaxCalls
  /\ (calls = 0) => r.op = "open"
  /\ calls' = calls + 1
  /\ req' = r /\ ret' = "none" /\ todo' = Operations(r)
  /\ user' = [i \in Place |-> IF r.op \in {"write", "writespare"} /\ i <= Len(r.data) THEN r.data[i] ELSE Junk]
  /\ before' = cells /\ late' = busy /\ broken' = FALSE
  /\ UNCHANGED <<gpio, pageBuf, bblist, chip, faults>>

Proceed ==
  /\ todo' = Tail(todo)
  /\ ret' = IF Len(todo) = 1 THEN "ok" ELSE ret
  /\ UNCHANGED req

Give(result) == todo' = <<>> /\ ret' = result /\ UNCHANGED req

DoSet(p) ==
  /\ high' = high \cup {p}
  /\ IF p = "NWE" /\ Low("NWE") /\ Low("NCE") /\ p \in outputs
     THEN ChipInput ELSE UNCHANGED <<chip, faults, broken>>
  /\ Proceed /\ UNCHANGED <<outputs, bus, buffers, calls, before, late>>

DoClear(p) ==
  /\ high' = high \ {p}
  /\ col' = IF p = "NRE" /\ ~ Low("NRE") /\ Low("NCE") /\ op = "read" /\ ~ busy /\ col \in 0 .. PARTS + SPARE
             THEN col + 1 ELSE col
  /\ Proceed
  /\ UNCHANGED <<outputs, bus, buffers, area, op, cycles, reg, busy, cells, calls, faults, obs>>

DoDirection(d, p) ==
  /\ outputs' = IF d = "out" THEN outputs \cup {p} ELSE outputs \ {p}
  /\ Proceed /\ UNCHANGED <<high, bus, buffers, chip, calls, faults, obs>>

DoPut(v) ==
  /\ bus' = v
  /\ Proceed /\ UNCHANGED <<high, outputs, buffers, chip, calls, faults, obs>>

DoGet(b, i) ==
  /\ pageBuf' = IF b = "page" THEN [pageBuf EXCEPT ![i] = OnBus] ELSE pageBuf
  /\ user' = IF b = "user" THEN [user EXCEPT ![i] = OnBus] ELSE user
  /\ Proceed /\ UNCHANGED <<gpio, bblist, chip, calls, faults, obs>>

(* NandWaitRdy: ready, or a time-out. *)
DoWait(raise, skip) ==
  /\ \/ /\ ~ busy
        /\ Proceed
        /\ UNCHANGED <<high, faults, late>>
     \/ /\ busy /\ faults < MaxFaults
        /\ faults' = faults + 1
        /\ high' = IF raise THEN high \cup {"NCE"} ELSE high
        /\ IF skip = 0 THEN Give("fail") ELSE todo' = SubSeq(todo, skip + 2, Len(todo)) /\ UNCHANGED <<req, ret>>
        /\ late' = (late \/ skip # 0)
  /\ UNCHANGED <<outputs, bus, buffers, chip, calls, before, broken>>

(* What the functions do with their buffers. *)
DoCompute(what, n) ==
  LET fixed == Corrected(pageBuf[n], EccOf(pageBuf, n))
  IN
  /\ pageBuf' = IF what = "copyin" THEN [i \in Place |-> IF i <= PARTS THEN user[i] ELSE pageBuf[i]]
                ELSE IF what = "ecc" THEN WithEcc(pageBuf)
                ELSE IF what = "correct" THEN [pageBuf EXCEPT ![n] = fixed]
                ELSE pageBuf
  /\ user' = IF what = "copyout" THEN [i \in Place |-> IF i <= PARTS THEN pageBuf[i] ELSE user[i]]
             ELSE IF what = "mark" THEN [user EXCEPT ![n] = BadMark]
             ELSE user
  /\ bblist' = IF what # "list" THEN bblist
               ELSE IF pageBuf[BBOFFSET + 1] = Erased THEN bblist \cup {n} ELSE bblist \ {n}
  /\ IF what = "correct" /\ fixed = Junk THEN Give("fail")
     ELSE IF what = "invalid" THEN Give("invalid") ELSE Proceed
  /\ UNCHANGED <<gpio, chip, calls, faults, obs>>

Do ==
  /\ todo # <<>>
  /\ LET o == Head(todo) IN
     \/ o.do = "set" /\ DoSet(o.pin)
     \/ o.do = "clear" /\ DoClear(o.pin)
     \/ o.do \in {"in", "out"} /\ DoDirection(o.do, o.pin)
     \/ o.do = "put" /\ DoPut(o.val)
     \/ o.do = "putfrom" /\ DoPut((IF o.buf = "page" THEN pageBuf ELSE user)[o.at])
     \/ o.do = "get" /\ DoGet(o.buf, o.at)
     \/ o.do = "wait" /\ DoWait(o.raise, o.skip)
     \/ o.do \in {"copyin", "ecc", "correct", "copyout", "mark", "list", "invalid"} /\ DoCompute(o.do, o.at)

Finished == todo = <<>> /\ calls = MaxCalls /\ UNCHANGED vars

Next == (\E r \in Request : Call(r)) \/ Do \/ ChipReady \/ BitError \/ Finished

Spec == Init /\ [][Next]_vars

-----------------------------------------------------------------------------
(* Type invariant.  A buffer is only accessed where it exists. *)
TypeOK ==
  /\ high \subseteq {"NCE", "NWE", "NRE", "CLE", "ALE"}
  /\ outputs \subseteq {"NCE", "NWE", "NRE", "CLE", "ALE", "bus"}
  /\ pageBuf \in [Place -> Value] /\ user \in [Place -> Value] /\ bblist \subseteq Block
  /\ ret \in {"none", "ok", "fail", "invalid"}
  /\ area \in {"main", "spare"} /\ op \in {"none", "read", "program", "erase", "id", "reset"}
  /\ Len(cycles) <= 4 /\ reg \in [Place -> Value] /\ col \in 0 .. PARTS + SPARE + 1
  /\ cells \in [Row -> [Place -> Value]] /\ before \in [Row -> [Place -> Value]]
  /\ {busy, late, broken} \subseteq BOOLEAN
  /\ calls \in 0 .. MaxCalls /\ faults \in 0 .. MaxFaults
  /\ (todo # <<>> /\ Head(todo).do \in {"get", "putfrom"}) => (Head(todo).at \in Place)

(* The rows that a call may change. *)
Target(r) == IF r.op \in {"open", "read", "readspare"} THEN {}
             ELSE IF r.op = "erase" THEN {q \in Row : q \div PAGES = r.block % BLOCKS}
             ELSE {Pack(IF r.op = "mark" THEN 0 ELSE r.page, r.block)}
Addressed(r) == Pack(IF r.op = "mark" THEN 0 ELSE r.page, r.block)
Spare(row, i) == row[PARTS + i + 1]

(* What a page is programmed with: writeNandPage keeps the spare bytes     *)
(* that are not ECC, the bad block marker among them.                      *)
Image(r, old) ==
  [i \in Place |->
    LET s == i - PARTS - 1 IN
    IF r.op = "write"
    THEN IF i <= PARTS THEN r.data[i] ELSE IF s \in {0, 1, 2} THEN r.data[1]
         ELSE IF s \in {3, 6, 7} THEN r.data[2] ELSE old[i]
    ELSE IF i <= PARTS THEN Erased
    ELSE IF r.op = "writespare" THEN r.data[s + 1] ELSE IF s = BBOFFSET THEN BadMark ELSE old[i]]

(* Every call does to the chip what was asked of it, through some hundred  *)
(* pin operations: whatever it returns it changes nothing but the page or  *)
(* block addressed; when it succeeds, a page and its ECC are programmed, a *)
(* block is erased, the marker is set, and a read or the bad block list    *)
(* agrees with the chip, up to a bit that ECC corrects.  This needs a chip *)
(* that was ready when the call began, since a busy chip ignores commands  *)
(* and nothing waits for it before a command, and one that does not fail,  *)
(* since nothing reads its status.                                         *)
CallsExact ==
  (todo = <<>> /\ ret # "none") =>
    /\ \A q \in Row \ Target(req) : cells[q] = before[q]
    /\ (ret = "ok" /\ ~ late /\ ~ broken) =>
         IF req.op = "open" THEN bblist = {b \in Block : Spare(cells[b * PAGES], BBOFFSET) = Erased}
         ELSE IF req.op = "erase" THEN \A q \in Target(req) : cells[q] = [i \in Place |-> Erased]
         ELSE LET row == Addressed(req) old == before[row] IN
           IF req.op = "readspare" THEN \A s \in 0 .. SPARE - 1 : user[s + 1] = Spare(old, s)
           ELSE IF req.op = "read" THEN
             /\ <<user[1], user[1], user[1]>> = <<Spare(old, 0), Spare(old, 1), Spare(old, 2)>>
             /\ <<user[2], user[2], user[2]>> = <<Spare(old, 3), Spare(old, 6), Spare(old, 7)>>
             /\ \A i \in 1 .. 2 : user[i] = old[i] \/ <<old[i], user[i]>> \in OneBit
           ELSE cells[row] = [i \in Place |-> Programmed(old[i], Image(req, old)[i])]

(* The chip and the GPIO never drive the data bus at the same time, and a  *)
(* call that has used the chip leaves it deselected, unless the wait of a  *)
(* page or spare read timed out, where the driver returns without raising  *)
(* chip enable.                                                            *)
PinsSafe ==
  /\ ~ (Drives /\ "bus" \in outputs)
  /\ (todo = <<>> /\ Low("NCE")) =>
       \/ ret \in {"none", "invalid"}
       \/ ret = "fail" /\ req.op \in {"open", "read", "readspare", "write"}
=============================================================================
