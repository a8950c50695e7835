------------------------------- MODULE Eeprom -------------------------------
(***************************************************************************)
(* The I2C EEPROM: the device API's EEPROM branches (platform.c), the      *)
(* driver (evmc66x_i2c_eeprom.c) and the controller it polls.  A call is   *)
(* one or more blocks: wait until the bus is free, send the two address    *)
(* bytes and the data one by one, stop; a read sends the address, turns    *)
(* the bus around and receives.                                            *)
(*                                                                         *)
(* Abstracted: a byte is a value, an address byte is a digit to the base   *)
(* RADIX, and of the controller's status only BB and NACK are kept, since  *)
(* the ready flags come and go by themselves.  The EEPROM is external: two *)
(* banks behind two slave addresses, which acknowledge nothing during a    *)
(* write cycle, program at the stop condition, and wrap around in a page.  *)
(***************************************************************************)
EXTENDS Integers, Sequences

CONSTANTS
  RADIX,         \* values of an address byte
  PAGE,          \* bytes in a page of the EEPROM
  CHUNK,         \* bytes of data in a block: 64
  BUS_TIMEOUT,   \* I2C_MAX_MASTER_TRANSMITTER_BUS_ACCESS_TIMEOUT
  POLL_TIMEOUT,  \* the other limits, which are alike
  MAC_OFFSET, MAC_LEN, \* where the MAC address is, and its length
  SN_OFFSET, SN_LEN,   \* where the serial number is, and its length
  Value, Erased, \* what a byte can be; what it is at the beginning
  Junk,          \* what a receive register holds before a byte arrives
  Request,       \* the calls that are made
  MaxCalls, MaxFaults  \* bounds: calls; disturbances of the bus

Devices == {"e50", "e51"}
Size == RADIX * RADIX
Byte == 0 .. Size - 1

GetInfo == [op |-> "getinfo", dev |-> "e50", offset |-> SN_OFFSET, len |-> SN_LEN, data |-> <<>>]
MacRead == [op |-> "macread", dev |-> "e51", offset |-> MAC_OFFSET, len |-> MAC_LEN, data |-> <<>>]
MacWrite(m) == [op |-> "macwrite", dev |-> "e51", offset |-> MAC_OFFSET, len |-> MAC_LEN, data |-> m]

Reads(r) == r.op \in {"read", "getinfo", "macread"}
IsMac(r) == r.op \in {"macread", "macwrite"}

ASSUME EepromAssumption ==
  /\ RADIX \in Nat \ {0} /\ PAGE \in Nat \ {0} /\ CHUNK \in Nat \ {0}
  /\ BUS_TIMEOUT \in Nat \ {0} /\ POLL_TIMEOUT \in Nat \ {0}
  /\ SN_OFFSET \in Nat /\ SN_LEN \in Nat \ {0}
  /\ Junk \in Value /\ Erased \in Value /\ MaxCalls \in Nat /\ MaxFaults \in Nat
  /\ \A r \in Request : /\ r.op \in {"read", "write", "i2cwrite", "getinfo", "macread", "macwrite"}
                        /\ r.dev \in Devices /\ r.offset \in Nat /\ r.len \in Nat \ {0}
                        /\ r.data \in Seq(Value) /\ Len(r.data) = IF Reads(r) THEN 0 ELSE r.len

VARIABLES
  pc,      \* where the call is
  req,     \* the call
  done,    \* uiBytesWritten: bytes of the blocks that are complete
  sent,    \* bytes of this block given to the controller
  tmo,     \* uiTimeoutCounter
  got,     \* the bytes read
  ret,     \* what the last transfer returned, until the next call
  handle,  \* the devices whose handle is set
  bb, nack,    \* the controller's bus busy and no-acknowledge flags
  link,        \* the EEPROM: "off", "recv", "xmit", or "deaf" (does not acknowledge)
  out,         \* bytes it has sent
  cycle,       \* its write cycle is in progress
  cells,       \* its content
  writable,    \* its write protect pin, a bit of the FPGA
  calls, faults

(* Observation only: *)
VARIABLES
  opened,  \* devices opened, and not closed by the user or by platform_get_info
  before,  \* the content when the call began
  unseen,  \* a block was stopped although its last byte was not acknowledged
  early,   \* the receive register was read before a byte had arrived
  since    \* the faults before the call, or -1: it began during a write cycle or
           \* after one whose last byte was not acknowledged

call == <<pc, req, done, sent, tmo, got, ret, handle>>
chip == <<link, out, cycle, cells>>
obs == <<opened, before, unseen, early, since>>
vars == <<call, bb, nack, chip, writable, calls, faults, obs>>

Min2(a, b) == IF a <= b THEN a ELSE b

(* The two address bytes, high byte first; higher bits are lost. *)
Address(a) == << (a \div RADIX) % RADIX, a % RADIX >>

(* Mutant of ChunkData: every block starts with the first byte. *)
ChunkFromStart == SubSeq(req.data, 1, Min2(CHUNK, Len(req.data) - done))

(* The data of the current block.  A MAC address is not divided. *)
ChunkData == IF IsMac(req) THEN req.data
             ELSE SubSeq(req.data, done + 1, Min2(done + CHUNK, Len(req.data)))

(* The bytes that the current block sends. *)
Block == Address(req.offset + done) \o ChunkData

-----------------------------------------------------------------------------
(* The EEPROM *)

(* Data programmed at a byte: it wraps around within a page, and the last  *)
(* byte that comes to a place stays.                                       *)
AfterProgram(c, a, data) ==
  LET First(b) == (b - a) % PAGE
      Last(b) == Len(data) - ((Len(data) - 1 - First(b)) % PAGE)
  IN  [b \in Byte |-> IF b \div PAGE = a \div PAGE /\ First(b) < Len(data) THEN data[Last(b)] ELSE c[b]]

(* It is sent a byte, the first after a start condition; a disturbance     *)
(* leaves the byte without an acknowledge, and it hears no more of them.   *)
Hears(first) ==
  \/ /\ IF first THEN ~ cycle ELSE link = "recv"
     /\ link' = "recv" /\ UNCHANGED <<nack, faults>>
  \/ /\ IF first THEN cycle ELSE link = "deaf"
     /\ link' = "deaf" /\ nack' = TRUE /\ UNCHANGED faults
  \/ /\ faults < MaxFaults
     /\ link' = "deaf" /\ nack' = TRUE /\ faults' = faults + 1

(* A stop condition: what it has received is programmed. *)
StopWrite ==
  LET writes == link = "recv" /\ writable /\ sent > 2
      a == (req.offset + done) % Size
  IN /\ cells' = IF writes THEN [cells EXCEPT ![req.dev] = AfterProgram(@, a, ChunkData)] ELSE cells
     /\ cycle' = (cycle \/ writes)
     /\ link' = "off" /\ out' = 0

Stored(k) == cells[req.dev][(req.offset + k) % Size]

CycleDone == /\ cycle
             /\ cycle' = FALSE
             /\ UNCHANGED <<call, bb, nack, link, out, cells, writable, calls, faults, obs>>

(* Something else occupies the bus, or leaves it.  Between two calls that  *)
(* is as if it did so when the next one begins.                            *)
Noise == /\ pc = "busy" /\ faults < MaxFaults
         /\ bb' = ~ bb /\ faults' = faults + 1
         /\ UNCHANGED <<call, nack, chip, writable, calls, obs>>

-----------------------------------------------------------------------------
Init ==
  /\ pc = "idle" /\ req = GetInfo /\ ret = "none"
  /\ done = 0 /\ sent = 0 /\ tmo = 0 /\ got = <<>>
  /\ handle = {}
  /\ bb = FALSE /\ nack = FALSE
  /\ link = "off" /\ out = 0 /\ cycle = FALSE
  /\ cells = [d \in Devices |-> [b \in Byte |-> Erased]]
  /\ writable \in BOOLEAN
  /\ calls = 0 /\ faults = 0
  /\ opened = {} /\ before = cells /\ unseen = FALSE /\ early = FALSE /\ since = 0

Goto(l) == pc' = l /\ UNCHANGED <<req, ret, handle>>

(* platform_device_open: evmI2CInit takes the controller through reset. *)
Open(d) ==
  /\ pc = "idle" /\ calls < MaxCalls
  /\ handle' = handle \cup {d} /\ ret' = "none"
  /\ bb' = FALSE /\ nack' = FALSE
  /\ calls' = calls + 1 /\ opened' = opened \cup {d}
  /\ UNCHANGED <<pc, req, done, sent, tmo, got, chip, writable, faults, before, unseen, early, since>>

Close(d) ==
  /\ pc = "idle" /\ calls < MaxCalls /\ d \in handle
  /\ handle' = handle \ {d} /\ ret' = "none"
  /\ calls' = calls + 1 /\ opened' = opened \ {d}
  /\ UNCHANGED <<pc, req, done, sent, tmo, got, bb, nack, chip, writable, faults, before, unseen, early, since>>

(* platform_device_read and _write with the handle that the device has     *)
(* now, platform_get_info, which opens the device for the serial number,   *)
(* and the driver functions that nothing in the library calls.             *)
Call(r) ==
  /\ pc = "idle" /\ calls < MaxCalls
  /\ calls' = calls + 1
  /\ req' = r /\ done' = 0 /\ sent' = 0 /\ tmo' = 0 /\ got' = <<>>
  /\ before' = cells /\ early' = FALSE
  /\ IF r.op \in {"read", "write"} /\ r.dev \notin handle
     THEN pc' = "idle" /\ ret' = "unsupported" /\ UNCHANGED unseen
     ELSE pc' = "busy" /\ ret' = "none" /\ unseen' = FALSE
  /\ IF r.op = "getinfo"
     THEN handle' = handle \cup {"e50"} /\ bb' = FALSE /\ nack' = FALSE
     ELSE UNCHANGED <<handle, bb, nack>>
  /\ since' = IF cycle \/ unseen THEN -1 ELSE faults
  /\ UNCHANGED <<chip, writable, faults, opened>>

(* The call returns; getSerialNumber closes the device it has opened. *)
Return(result) ==
  /\ pc' = "idle" /\ ret' = result /\ tmo' = 0 /\ UNCHANGED req
  /\ handle' = IF req.op = "getinfo" THEN handle \ {"e50"} ELSE handle
  /\ opened' = IF req.op = "getinfo" THEN opened \ {"e50"} ELSE opened
  /\ UNCHANGED <<before, since>>

(* Mutant of Fail: NACK is not cleared. *)
FailKeepsNack(result) ==
  /\ Return(result)
  /\ bb' = FALSE
  /\ UNCHANGED <<done, sent, got, nack, chip, unseen, early>>

(* The error paths: slave receiver, or reset, and the flags cleared.  The  *)
(* EEPROM is not sent a stop condition.                                    *)
Fail(result) ==
  /\ Return(result)
  /\ bb' = FALSE /\ nack' = FALSE
  /\ UNCHANGED <<done, sent, got, chip, unseen, early>>

(* Mutant of BusPoll: it waits for the bus without a limit. *)
BusPollForEver ==
  /\ pc = "busy" /\ bb
  /\ UNCHANGED vars

(* The bus is busy: wait, and give up after some polls. *)
BusPoll ==
  /\ pc = "busy" /\ bb
  /\ \/ /\ tmo + 1 < BUS_TIMEOUT /\ tmo' = tmo + 1
        /\ Goto("busy")
        /\ UNCHANGED <<done, sent, got, bb, nack, chip, obs>>
     \/ /\ tmo + 1 >= BUS_TIMEOUT /\ Fail("timeout")
  /\ UNCHANGED <<writable, calls, faults>>

(* The bus is free: start condition, slave address and first byte. *)
Begin ==
  /\ pc = "busy" /\ ~ bb
  /\ Hears(TRUE)
  /\ bb' = TRUE /\ sent' = 1 /\ tmo' = 0
  /\ Goto(IF IsMac(req) THEN "sample" ELSE "send")
  /\ UNCHANGED <<done, got, out, cycle, cells, writable, calls, obs>>

(* A poll finds the controller not ready.  The limit is only reached when  *)
(* the bus is disturbed.                                                   *)
Wait ==
  /\ pc \in {"send", "stop", "recv", "dummy"}
  /\ pc \in {"send", "recv"} => ~ nack
  /\ \/ /\ tmo + 1 < POLL_TIMEOUT
        /\ tmo' = tmo + 1 /\ Goto(pc)
        /\ UNCHANGED <<done, sent, got, bb, nack, chip, faults, obs>>
     \/ /\ tmo + 1 >= POLL_TIMEOUT /\ faults < MaxFaults
        /\ faults' = faults + 1
        /\ Fail("timeout")
  /\ UNCHANGED <<writable, calls>>

(* A poll finds the last byte without acknowledge. *)
Nack ==
  /\ pc \in {"send", "recv", "sample", "macsample"} /\ nack
  /\ Fail("nack")
  /\ UNCHANGED <<writable, calls, faults>>

(* XRDY: the next byte.  After the last one its acknowledge is not polled. *)
Send ==
  /\ pc = "send" /\ ~ nack
  /\ Hears(FALSE)
  /\ sent' = sent + 1 /\ tmo' = 0
  /\ Goto(IF sent + 1 < Len(Block) THEN "send" ELSE IF Reads(req) THEN "turn" ELSE "stop")
  /\ UNCHANGED <<done, got, bb, out, cycle, cells, writable, calls, obs>>

(* ARDY: stop condition.  NACK is not cleared: the next block will see it. *)
Stop ==
  /\ pc = "stop"
  /\ StopWrite
  /\ bb' = FALSE /\ tmo' = 0
  /\ unseen' = (unseen \/ link = "deaf")
  /\ Goto("pause")
  /\ UNCHANGED <<done, sent, got, nack, writable, calls, faults, opened, before, early, since>>

(* The delay after a block.  That of i2cEepromWriteByteAddr is longer than *)
(* a write cycle, that of i2cEepromWrite is not.                           *)
Paced == req.op = "write" => ~ cycle

(* Mutant of Pause: a whole chunk is counted. *)
PauseWhole ==
  /\ pc = "pause" /\ Paced
  /\ done' = done + CHUNK /\ sent' = 0
  /\ \/ done' < Len(req.data) /\ Goto("busy") /\ UNCHANGED <<tmo, opened, before, since>>
     \/ done' >= Len(req.data) /\ Return("ok")
  /\ UNCHANGED <<got, bb, nack, chip, writable, calls, faults, unseen, early>>

Pause ==
  /\ pc = "pause" /\ Paced
  /\ done' = done + Len(ChunkData) /\ sent' = 0
  /\ \/ done' < Len(req.data) /\ Goto("busy") /\ UNCHANGED <<tmo, opened, before, since>>
     \/ done' = Len(req.data) /\ Return("ok")
  /\ UNCHANGED <<got, bb, nack, chip, writable, calls, faults, unseen, early>>

(* Repeated start condition: the EEPROM is told to send. *)
Turn ==
  /\ pc = "turn"
  /\ \/ /\ link = "recv" /\ link' = "xmit" /\ UNCHANGED <<nack, faults>>
     \/ /\ link = "deaf" /\ UNCHANGED <<link, nack, faults>>
     \/ /\ link = "recv" /\ faults < MaxFaults
        /\ link' = "deaf" /\ nack' = TRUE /\ faults' = faults + 1
  /\ out' = 0
  /\ Goto(IF IsMac(req) THEN "macrecv" ELSE "recv")
  /\ UNCHANGED <<done, sent, tmo, got, bb, cycle, cells, writable, calls, obs>>

(* RRDY: a byte has arrived; after the last one a stop condition. *)
Receive ==
  /\ pc = "recv" /\ ~ nack
  /\ got' = Append(got, Stored(out)) /\ out' = out + 1 /\ tmo' = 0
  /\ Goto(IF Len(got') < req.len THEN "recv" ELSE "dummy")
  /\ UNCHANGED <<done, sent, bb, nack, link, cycle, cells, writable, calls, faults, obs>>

(* The byte that was still under way is read and dropped. *)
Dummy ==
  /\ pc = "dummy"
  /\ bb' = FALSE /\ link' = "off" /\ out' = 0
  /\ Return("ok")
  /\ UNCHANGED <<done, sent, got, nack, cycle, cells, writable, calls, faults, unseen, early>>

(* i2cEepromMacWrite and MacRead take one sample of the status for each    *)
(* byte they have sent, and proceed if it was ready.                       *)
MacSend ==
  /\ pc = "sample" /\ ~ nack /\ sent < Len(Block)
  /\ Hears(FALSE)
  /\ sent' = sent + 1
  /\ Goto("sample")
  /\ UNCHANGED <<done, tmo, got, bb, out, cycle, cells, writable, calls, obs>>

MacSent ==
  /\ pc = "sample" /\ ~ nack /\ sent = Len(Block)
  /\ IF Reads(req)
     THEN Goto("turn") /\ UNCHANGED <<tmo, bb, chip, opened, before, since>>
     ELSE StopWrite /\ bb' = FALSE /\ Return("ok")
  /\ UNCHANGED <<done, sent, got, nack, writable, calls, faults, unseen, early>>

(* The receive register is read without asking whether it is full. *)
MacReceive ==
  /\ pc = "macrecv"
  /\ \/ /\ link = "xmit"
        /\ got' = Append(got, Stored(out)) /\ out' = out + 1
        /\ UNCHANGED <<early, faults>>
     \/ /\ link = "xmit" => faults < MaxFaults
        /\ got' = Append(got, Junk) /\ early' = TRUE
        /\ faults' = IF link = "xmit" THEN faults + 1 ELSE faults
        /\ UNCHANGED out
  /\ Goto("macsample")
  /\ UNCHANGED <<done, sent, tmo, bb, nack, link, cycle, cells, writable, calls, opened, before, unseen, since>>

MacReceived ==
  /\ pc = "macsample" /\ ~ nack
  /\ Goto(IF Len(got) < req.len THEN "macrecv" ELSE "dummy")
  /\ UNCHANGED <<done, sent, tmo, got, bb, nack, chip, writable, calls, faults, obs>>

(* The sample was not ready: the loop tests the same sample for ever. *)
MacLate ==
  /\ pc \in {"sample", "macsample"} /\ ~ nack /\ faults < MaxFaults
  /\ faults' = faults + 1
  /\ Goto("spin")
  /\ UNCHANGED <<done, sent, tmo, got, bb, nack, chip, writable, calls, obs>>

Spin == pc = "spin" /\ UNCHANGED vars

Step == BusPoll \/ Begin \/ Wait \/ Nack \/ Send \/ Stop \/ Pause \/ Turn \/ Receive \/ Dummy
        \/ MacSend \/ MacSent \/ MacReceive \/ MacReceived \/ MacLate \/ Spin

(* All calls are made. *)
Finished == pc = "idle" /\ calls = MaxCalls /\ UNCHANGED vars

Next == \/ \E d \in Devices : Open(d) \/ Close(d)
        \/ \E r \in Request : Call(r)
        \/ Step \/ CycleDone \/ Noise \/ Finished

(* A call that is running goes on, and a write cycle ends. *)
Spec == Init /\ [][Next]_vars /\ WF_vars(Step) /\ WF_vars(CycleDone)

-----------------------------------------------------------------------------
(* Type invariant.  The bytes counted as written never exceed those asked  *)
(* for, and a block never sends more than it has.                          *)
TypeOK ==
  /\ pc \in {"idle", "busy", "send", "stop", "pause", "turn", "recv", "dummy", "sample", "macrecv", "macsample", "spin"}
  /\ req \in Request \cup {GetInfo} /\ done \in 0 .. Len(req.data) /\ sent \in 0 .. Len(Block)
  /\ tmo \in 0 .. BUS_TIMEOUT + POLL_TIMEOUT
  /\ got \in Seq(Value) /\ Len(got) <= req.len
  /\ ret \in {"none", "ok", "nack", "timeout", "unsupported"}
  /\ handle \subseteq Devices /\ opened \subseteq handle
  /\ {bb, nack, cycle, writable, unseen, early} \subseteq BOOLEAN /\ since \in Int
  /\ link \in {"off", "recv", "xmit", "deaf"} /\ out \in Nat
  /\ cells \in [Devices -> [Byte -> Value]]
  /\ calls \in 0 .. MaxCalls /\ faults \in 0 .. MaxFaults

(* No block of the call crosses a page of the EEPROM, nor does the call    *)
(* run beyond the bank.                                                    *)
Contained(r) ==
  /\ r.offset + r.len <= Size
  /\ \A i \in 1 .. Len(r.data) :
       LET first == IF r.op = "macwrite" THEN 1 ELSE ((i - 1) \div CHUNK) * CHUNK + 1
       IN  (r.offset + i - 1) \div PAGE = (r.offset + first - 1) \div PAGE

(* The first k bytes of the call's data are in their place, and nothing    *)
(* else has changed.                                                       *)
WrittenUpTo(k) ==
  cells = [before EXCEPT ![req.dev] =
    [b \in Byte |-> IF b \in req.offset .. req.offset + k - 1 THEN req.data[b - req.offset + 1] ELSE @[b]]]

(* What platform_device_read and _write (and the MAC functions) promise,   *)
(* with time-outs, missing acknowledges and a write cycle that may still   *)
(* run.  A write changes nothing but a leading part of the bytes asked     *)
(* for, whether it fails or not; a successful write has written all,       *)
(* except its last block if the acknowledge of the very last byte, which   *)
(* i2cEepromWriteBlock does not look at, was missing.  A successful read   *)
(* returns what is stored, except that i2cEepromMacRead may take a byte    *)
(* before it has arrived.  Both need a writable device and blocks that do  *)
(* not cross a page.                                                       *)
TransfersExact ==
  (pc = "idle" /\ ret \in {"ok", "nack", "timeout"} /\ Contained(req)) =>
    IF Reads(req)
    THEN /\ cells = before
         /\ (ret = "ok" /\ ~ early) => got = [k \in 1 .. req.len |-> Stored(k - 1)]
    ELSE \E k \in 0 .. req.len :
           /\ WrittenUpTo(k)
           /\ (ret = "ok" /\ writable) => k = req.len \/ (unseen /\ k + CHUNK >= req.len)

(* A call during which nothing disturbs the bus does not fail, whatever    *)
(* has happened to the calls before it: every path, with an error or       *)
(* without one, leaves the bus free and the flags clear for the next call, *)
(* the blocks of a write wait for the write cycle of the block before      *)
(* them, and a device that is open is served.  This excludes calls that    *)
(* begin during a write cycle, as i2cEepromWrite and i2cEepromMacWrite     *)
(* leave it, or after a block whose last byte was not acknowledged, which  *)
(* leaves NACK set; further blocks of i2cEepromWrite itself, and a device  *)
(* closed by platform_get_info.                                            *)
SucceedsUndisturbed ==
  (/\ pc = "idle" /\ ret # "none" /\ faults = since
   /\ req.op = "i2cwrite" => req.len <= CHUNK
   /\ req.op \in {"read", "write"} => req.dev \in opened)
  => ret = "ok"

(* Every call returns, whatever happens on the bus: the polls are bounded. *)
(* The MAC functions may spin on a status they do not read again.          *)
CallsReturn == (pc = "busy") ~> (pc \in {"idle", "spin"})

(* "Check for transmit ready" and "Check for receive byte ready": the MAC  *)
(* functions too wait until the controller is ready, and return.           *)
MacCallsReturn == (pc = "sample") ~> (pc = "idle")
=============================================================================
