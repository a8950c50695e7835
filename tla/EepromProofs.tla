---------------------------- MODULE EepromProofs ----------------------------
(***************************************************************************)
(* Theorems about Eeprom for every size of pages and blocks, all calls and *)
(* every number of disturbances: the type invariant, that without a        *)
(* disturbance no call fails, and that a transfer has the effect that was  *)
(* asked for.  Position says what is true of the locals at each place of   *)
(* the driver.                                                             *)
(***************************************************************************)
EXTENDS Eeprom, TLAPS

Op == {"read", "write", "i2cwrite", "getinfo", "macread", "macwrite"}

WellFormed(r) ==
  /\ r.op \in Op /\ r.dev \in Devices /\ r.offset \in Nat /\ r.len \in Nat \ {0}
  /\ r.data \in Seq(Value) /\ Len(r.data) = IF Reads(r) THEN 0 ELSE r.len

Position ==
  /\ pc \in {"send", "stop", "pause"} => ~ IsMac(req)
  /\ pc \in {"sample", "macrecv", "macsample"} => IsMac(req)
  /\ pc \in {"turn", "recv", "dummy", "macrecv", "macsample"} => Reads(req)
  /\ pc \in {"stop", "pause"} => ~ Reads(req)
  /\ pc = "send" => sent >= 1 /\ sent < Len(Block)
  /\ pc = "sample" => sent >= 1
  /\ pc = "stop" => sent = Len(Block)
  /\ pc \in {"busy", "send", "sample", "stop", "pause"} /\ ~ Reads(req) => done < Len(req.data)
  /\ pc # "idle" /\ IsMac(req) => done = 0
  /\ pc \in {"busy", "send", "sample", "turn", "stop", "pause"} => got = <<>>
  /\ pc \in {"recv", "macrecv"} => Len(got) < req.len
  /\ pc = "dummy" => Len(got) = req.len

TInv == TypeOK /\ Position

-----------------------------------------------------------------------------
LEMMA SeqSubset == ASSUME NEW A, NEW B, A \subseteq B, NEW s \in Seq(A) PROVE s \in Seq(B)
  OBVIOUS

LEMMA ConcatLength ==
  ASSUME NEW S, NEW s \in Seq(S), NEW t \in Seq(S)
  PROVE  Len(s \o t) = Len(s) + Len(t)
  OBVIOUS

LEMMA RequestWellFormed == \A r \in Request \cup {GetInfo} : WellFormed(r)
  <1>1. \A r \in Request : WellFormed(r)
    BY EepromAssumption DEF WellFormed, Op
  <1>2. WellFormed(GetInfo)
    <2>1. <<>> \in Seq(Value) /\ Len(<<>>) = 0
      OBVIOUS
    <2>2. QED BY <2>1, EepromAssumption DEF WellFormed, GetInfo, Op, Reads, Devices
  <1>3. QED BY <1>1, <1>2

(* The data of a block of request r at d, and its length with the two      *)
(* address bytes.                                                          *)
ChunkOf(r, d) == IF IsMac(r) THEN r.data ELSE SubSeq(r.data, d + 1, Min2(d + CHUNK, Len(r.data)))

BlockAt(r, d) == Address(r.offset + d) \o ChunkOf(r, d)

LEMMA ChunkIsPart ==
  ASSUME NEW r \in Request \cup {GetInfo}, NEW d \in 0 .. Len(r.data)
  PROVE  /\ ChunkOf(r, d) \in Seq(Value)
         /\ Len(ChunkOf(r, d)) = IF IsMac(r) THEN Len(r.data) ELSE Min2(CHUNK, Len(r.data) - d)
         /\ ~ IsMac(r) => \A i \in 1 .. Len(ChunkOf(r, d)) : ChunkOf(r, d)[i] = r.data[d + i]
  <1>1. WellFormed(r) /\ CHUNK \in Nat \ {0}
    BY RequestWellFormed, EepromAssumption
  <1>2. CASE IsMac(r)
    BY <1>1, <1>2 DEF ChunkOf, WellFormed
  <1>3. CASE ~ IsMac(r)
    <2> DEFINE last == Min2(d + CHUNK, Len(r.data))
    <2>1. r.data \in Seq(Value) /\ Len(r.data) \in Nat /\ d \in Nat
      BY <1>1 DEF WellFormed
    <2>2. last \in Nat /\ d <= last /\ last <= Len(r.data) /\ last - d = Min2(CHUNK, Len(r.data) - d)
      BY <1>1, <2>1 DEF Min2
    <2>3. ChunkOf(r, d) = SubSeq(r.data, d + 1, last)
      BY <1>3 DEF ChunkOf
    <2> HIDE DEF last
    <2>4. \A i \in d + 1 .. last : r.data[i] \in Value
      BY <2>1, <2>2
    <2>5. SubSeq(r.data, d + 1, last) = [i \in 1 .. last - d |-> r.data[d + i]]
      BY <2>1, <2>2
    <2>6. QED BY <1>3, <2>1, <2>2, <2>3, <2>4, <2>5
  <1>4. QED BY <1>2, <1>3

LEMMA BlockLength ==
  ASSUME NEW r \in Request \cup {GetInfo}, NEW d \in 0 .. Len(r.data)
  PROVE  /\ Len(BlockAt(r, d)) = 2 + Len(ChunkOf(r, d)) /\ Len(ChunkOf(r, d)) \in Nat
         /\ ~ Reads(r) /\ d < Len(r.data) => Len(ChunkOf(r, d)) > 0
         /\ ~ IsMac(r) => d + Len(ChunkOf(r, d)) <= Len(r.data)
         /\ Reads(r) => Len(ChunkOf(r, d)) = 0
  <1>1. WellFormed(r) /\ CHUNK \in Nat \ {0}
    BY RequestWellFormed, EepromAssumption
  <1>2. /\ ChunkOf(r, d) \in Seq(Value)
        /\ Len(ChunkOf(r, d)) = IF IsMac(r) THEN Len(r.data) ELSE Min2(CHUNK, Len(r.data) - d)
    BY ChunkIsPart
  <1>3. Len(Address(r.offset + d) \o ChunkOf(r, d)) = 2 + Len(ChunkOf(r, d))
    <2>1. \A x, y : <<x, y>> \in Seq({x, y}) /\ Len(<<x, y>>) = 2
      OBVIOUS
    <2> DEFINE A == Address(r.offset + d)
    <2>2. PICK x, y : A = <<x, y>>
      BY DEF Address
    <2>3. Len(A) = 2 /\ A \in Seq({x, y})
      BY <2>1, <2>2
    <2> HIDE DEF A
    <2>4. A \in Seq({x, y} \cup Value) /\ ChunkOf(r, d) \in Seq({x, y} \cup Value)
      BY <1>2, <2>3, SeqSubset
    <2>5. Len(A \o ChunkOf(r, d)) = Len(A) + Len(ChunkOf(r, d))
      BY <2>4, ConcatLength
    <2>6. QED BY <2>3, <2>5 DEF A
  <1>4. Len(r.data) \in Nat /\ d \in Nat /\ d <= Len(r.data)
    BY <1>1 DEF WellFormed
  <1>5. QED BY <1>1, <1>2, <1>3, <1>4 DEF BlockAt, Min2, WellFormed

LEMMA BlockNow ==
  /\ ChunkData = ChunkOf(req, done) /\ Block = BlockAt(req, done)
  /\ ChunkData' = ChunkOf(req', done') /\ Block' = BlockAt(req', done')
  BY DEF ChunkData, ChunkOf, Block, BlockAt, IsMac, Min2, Address

LEMMA BlockStays ==
  ASSUME req' = req, done' = done
  PROVE  Block' = Block /\ ChunkData' = ChunkData /\ IsMac(req') = IsMac(req) /\ Reads(req') = Reads(req)
  BY BlockNow DEF IsMac, Reads

-----------------------------------------------------------------------------
(* The type invariant *)

LEMMA Constants ==
  /\ RADIX \in Nat \ {0} /\ CHUNK \in Nat \ {0} /\ BUS_TIMEOUT \in Nat \ {0}
  /\ POLL_TIMEOUT \in Nat \ {0} /\ SN_LEN \in Nat \ {0}
  /\ Junk \in Value /\ Erased \in Value /\ MaxCalls \in Nat /\ MaxFaults \in Nat
  /\ Size \in Nat \ {0}
  BY EepromAssumption DEF Size

LEMMA InitTInv == Init => TInv
  <1> SUFFICES ASSUME Init PROVE TInv
    OBVIOUS
  <1>1. req = GetInfo /\ done = 0 /\ WellFormed(req)
    BY RequestWellFormed DEF Init
  <1>2. Len(req.data) = 0
    BY <1>1 DEF WellFormed, GetInfo, Reads
  <1>3. Len(Block) \in Nat
    BY <1>1, <1>2, BlockLength, BlockNow
  <1>4. cells \in [Devices -> [Byte -> Value]]
    BY Constants DEF Init
  <1>5. got \in Seq(Value) /\ Len(got) = 0 /\ req.len \in Nat
    BY <1>1 DEF Init, WellFormed
  <1>6. {bb, nack, cycle, writable, unseen, early} \subseteq BOOLEAN /\ since \in Int
    <2>1. {bb, nack, cycle, writable, unseen, early} \subseteq BOOLEAN
      BY DEF Init
    <2>2. since = 0
      BY DEF Init
    <2>3. QED BY <2>1, <2>2
  <1>7. TypeOK
    BY <1>1, <1>2, <1>3, <1>4, <1>5, <1>6, Constants DEF Init, TypeOK
  <1>8. Position
    BY <1>1 DEF Init, Position, GetInfo, IsMac
  <1>9. QED BY <1>7, <1>8 DEF TInv

LEMMA DivMod ==
  ASSUME NEW x \in Int, NEW P \in Nat \ {0}
  PROVE  /\ x = (x \div P) * P + (x % P)
         /\ x % P \in 0 .. P - 1
         /\ x \div P \in Int
  BY SMT

LEMMA ModBelow ==
  ASSUME NEW x \in Nat, NEW P \in Nat \ {0}
  PROVE  x % P \in 0 .. x
  BY SMTT(30)

LEMMA StoredType == ASSUME TypeOK, NEW k \in Nat PROVE Stored(k) \in Value
  <1>1. WellFormed(req)
    BY RequestWellFormed DEF TypeOK
  <1>2. (req.offset + k) % Size \in Byte
    <2>1. PICK n \in Nat : n = req.offset + k
      BY <1>1 DEF WellFormed
    <2>2. n % Size \in 0 .. Size - 1
      BY DivMod, Constants
    <2>3. QED BY <2>1, <2>2 DEF Byte
  <1>3. QED BY <1>1, <1>2 DEF TypeOK, Stored, WellFormed

LEMMA ProgramType ==
  ASSUME NEW c \in [Byte -> Value], NEW a \in Nat, NEW data \in Seq(Value)
  PROVE  AfterProgram(c, a, data) \in [Byte -> Value]
  <1> DEFINE First(b) == (b - a) % PAGE
             Last(b) == Len(data) - ((Len(data) - 1 - First(b)) % PAGE)
  <1>1. PAGE \in Nat \ {0} /\ Len(data) \in Nat
    BY EepromAssumption
  <1>2. ASSUME NEW b \in Byte, First(b) < Len(data)
        PROVE  Last(b) \in 1 .. Len(data)
    <2>1. First(b) \in 0 .. PAGE - 1
      BY <1>1, DivMod, Constants DEF Byte
    <2> HIDE DEF First
    <2>2. PICK m \in Nat : m = Len(data) - 1 - First(b)
      BY <1>1, <1>2, <2>1
    <2>3. m % PAGE \in 0 .. m
      BY <1>1, ModBelow
    <2>4. QED BY <1>1, <2>1, <2>2, <2>3
  <1> HIDE DEF First, Last
  <1>3. \A b \in Byte : (b \div PAGE = a \div PAGE /\ First(b) < Len(data)) => data[Last(b)] \in Value
    BY <1>1, <1>2
  <1>4. AfterProgram(c, a, data) =
          [b \in Byte |-> IF b \div PAGE = a \div PAGE /\ First(b) < Len(data) THEN data[Last(b)] ELSE c[b]]
    BY DEF AfterProgram, First, Last
  <1>5. QED BY <1>3, <1>4

(* The lengths that the places of the driver depend on. *)
LEMMA Lengths ==
  ASSUME TInv
  PROVE  /\ WellFormed(req) /\ req \in Request \cup {GetInfo} /\ done \in 0 .. Len(req.data)
         /\ Len(Block) \in Nat /\ Len(ChunkData) \in Nat /\ Len(Block) = 2 + Len(ChunkData)
         /\ ~ Reads(req) /\ done < Len(req.data) => Len(ChunkData) > 0
         /\ ~ IsMac(req) => done + Len(ChunkData) <= Len(req.data)
         /\ Reads(req) => Len(ChunkData) = 0
  BY RequestWellFormed, BlockLength, BlockNow DEF TInv, TypeOK

(* A step within a call that stays within its block. *)
LEMMA BlockStepTInv ==
  ASSUME TInv, req' = req, done' = done, got' = got, handle' = handle, opened' = opened, calls' = calls,
         pc' \in {"busy", "send", "stop", "pause", "turn", "recv", "sample", "macrecv"},
         sent' \in 0 .. Len(Block), tmo' \in 0 .. BUS_TIMEOUT + POLL_TIMEOUT,
         ret' = ret, {bb', nack', cycle', writable', unseen', early'} \subseteq BOOLEAN, since' \in Int,
         link' \in {"off", "recv", "xmit", "deaf"}, out' \in Nat,
         cells' \in [Devices -> [Byte -> Value]], faults' \in 0 .. MaxFaults,
         Position'
  PROVE  TInv'
  <1>1. sent' \in 0 .. Len(Block')
    BY BlockStays
  <1>2. QED BY <1>1 DEF TInv, TypeOK

LEMMA Flags ==
  ASSUME TInv
  PROVE  /\ bb \in BOOLEAN /\ nack \in BOOLEAN /\ cycle \in BOOLEAN /\ writable \in BOOLEAN
         /\ unseen \in BOOLEAN /\ early \in BOOLEAN /\ since \in Int
         /\ link \in {"off", "recv", "xmit", "deaf"} /\ out \in Nat
         /\ faults \in Nat /\ faults <= MaxFaults /\ tmo \in Nat /\ tmo <= BUS_TIMEOUT + POLL_TIMEOUT
         /\ sent \in Nat /\ sent <= Len(Block)
         /\ cells \in [Devices -> [Byte -> Value]]
  BY Lengths, Constants DEF TInv, TypeOK

LEMMA HearsCases ==
  ASSUME NEW first \in BOOLEAN, Hears(first)
  PROVE  \/ link' = "recv" /\ nack' = nack /\ faults' = faults /\ (IF first THEN ~ cycle ELSE link = "recv")
         \/ link' = "deaf" /\ nack' = TRUE /\ faults' = faults /\ (IF first THEN cycle ELSE link = "deaf")
         \/ link' = "deaf" /\ nack' = TRUE /\ faults < MaxFaults /\ faults' = faults + 1
  BY Zenon DEF Hears

LEMMA HearsType ==
  ASSUME TInv, NEW first \in BOOLEAN, Hears(first)
  PROVE  nack' \in BOOLEAN /\ link' \in {"recv", "deaf"} /\ faults' \in 0 .. MaxFaults
  <1>1. faults \in Nat /\ faults <= MaxFaults /\ nack \in BOOLEAN /\ MaxFaults \in Nat
    BY Flags, Constants
  <1>2. \/ link' = "recv" /\ nack' = nack /\ faults' = faults
        \/ link' = "deaf" /\ nack' = TRUE /\ faults' = faults
        \/ link' = "deaf" /\ nack' = TRUE /\ faults < MaxFaults /\ faults' = faults + 1
    BY HearsCases, Zenon
  <1>3. nack' \in BOOLEAN /\ link' \in {"recv", "deaf"}
    BY <1>1, <1>2, Zenon
  <1>4. faults' = faults \/ (faults < MaxFaults /\ faults' = faults + 1)
    BY <1>2
  <1>5. faults' \in 0 .. MaxFaults
    BY <1>1, <1>4
  <1>6. QED BY <1>3, <1>5

LEMMA StopWriteType ==
  ASSUME TInv, StopWrite
  PROVE  /\ cells' \in [Devices -> [Byte -> Value]] /\ cycle' \in BOOLEAN
         /\ link' = "off" /\ out' = 0
  <1> DEFINE a == (req.offset + done) % Size
  <1>1. a \in Nat
    <2>1. PICK n \in Nat : n = req.offset + done
      BY Lengths DEF WellFormed
    <2>2. QED BY <2>1, DivMod, Constants
  <1>2. ChunkData \in Seq(Value)
    BY Lengths, ChunkIsPart, BlockNow
  <1>3. cells \in [Devices -> [Byte -> Value]] /\ req.dev \in Devices
    BY Lengths DEF TInv, TypeOK, WellFormed
  <1>4. AfterProgram(cells[req.dev], a, ChunkData) \in [Byte -> Value]
    BY <1>1, <1>2, <1>3, ProgramType
  <1>5. cells' = cells \/ cells' = [cells EXCEPT ![req.dev] = AfterProgram(cells[req.dev], a, ChunkData)]
    BY DEF StopWrite
  <1>6. QED BY <1>3, <1>4, <1>5 DEF StopWrite, TInv, TypeOK

LEMMA BeginTInv == ASSUME TInv, Begin PROVE TInv'
  <1> USE DEF Begin, Goto, obs, Position
  <1>1. nack' \in BOOLEAN /\ link' \in {"recv", "deaf"} /\ faults' \in 0 .. MaxFaults
    BY HearsType
  <1>2. IsMac(req') = IsMac(req) /\ Reads(req') = Reads(req) /\ Block' = Block
    BY BlockStays
  <1>3. Position'
    BY <1>2, Lengths DEF TInv
  <1>4. QED BY <1>1, <1>3, Lengths, Constants, BlockStepTInv DEF TInv, TypeOK

LEMMA SendTInv == ASSUME TInv, Send PROVE TInv'
  <1> USE DEF Send, Goto, obs
  <1>1. nack' \in BOOLEAN /\ link' \in {"recv", "deaf"} /\ faults' \in 0 .. MaxFaults
    BY HearsType
  <1>2. IsMac(req') = IsMac(req) /\ Reads(req') = Reads(req) /\ Block' = Block
    BY BlockStays
  <1>3. /\ pc = "send" /\ ~ IsMac(req) /\ sent >= 1 /\ sent < Len(Block) /\ got = <<>>
        /\ ~ Reads(req) => done < Len(req.data)
    BY DEF TInv, Position
  <1>4. \/ pc' = "send" /\ sent + 1 < Len(Block)
        \/ pc' = "turn" /\ Reads(req)
        \/ pc' = "stop" /\ ~ Reads(req) /\ sent + 1 = Len(Block)
    <2>1. pc' = IF sent + 1 < Len(Block) THEN "send" ELSE IF Reads(req) THEN "turn" ELSE "stop"
      OBVIOUS
    <2>2. sent \in Nat /\ Len(Block) \in Nat /\ sent < Len(Block)
      BY <1>3, Flags, Lengths
    <2> HIDE DEF Send
    <2>3. CASE sent + 1 < Len(Block)
      BY <2>1, <2>3
    <2>4. CASE ~ (sent + 1 < Len(Block))
      <3>1. sent + 1 = Len(Block)
        BY <2>2, <2>4
      <3>2. pc' = IF Reads(req) THEN "turn" ELSE "stop"
        BY <2>1, <2>4
      <3>3. QED BY <3>1, <3>2, Zenon
    <2>5. QED BY <2>3, <2>4
  <1>5. Position'
    BY <1>2, <1>3, <1>4, Flags DEF Position
  <1>6. QED BY <1>1, <1>3, <1>4, <1>5, Flags, Lengths, Constants, BlockStepTInv

LEMMA MacSendTInv == ASSUME TInv, MacSend PROVE TInv'
  <1> USE DEF MacSend, Goto, obs
  <1>1. nack' \in BOOLEAN /\ link' \in {"recv", "deaf"} /\ faults' \in 0 .. MaxFaults
    BY HearsType
  <1>2. IsMac(req') = IsMac(req) /\ Reads(req') = Reads(req) /\ Block' = Block
    BY BlockStays
  <1>3. Position'
    BY <1>2, Flags DEF TInv, Position
  <1>4. QED BY <1>1, <1>3, Flags, Lengths, Constants, BlockStepTInv

LEMMA StopTInv == ASSUME TInv, Stop PROVE TInv'
  <1> USE DEF Stop, Goto
  <1>1. IsMac(req') = IsMac(req) /\ Reads(req') = Reads(req) /\ Block' = Block
    BY BlockStays
  <1>2. Position'
    BY <1>1, Lengths DEF TInv, Position
  <1>3. /\ cells' \in [Devices -> [Byte -> Value]] /\ cycle' \in BOOLEAN
        /\ link' = "off" /\ out' = 0
    BY StopWriteType
  <1>4. unseen' \in BOOLEAN
    BY Flags
  <1>5. /\ req' = req /\ done' = done /\ got' = got /\ handle' = handle /\ opened' = opened /\ calls' = calls
        /\ pc' = "pause" /\ sent' = sent /\ tmo' = 0 /\ ret' = ret /\ bb' = FALSE /\ nack' = nack
        /\ writable' = writable /\ early' = early /\ since' = since /\ faults' = faults
    OBVIOUS
  <1> HIDE DEF Stop
  <1>6. {bb', nack', cycle', writable', unseen', early'} \subseteq BOOLEAN /\ since' \in Int
    BY <1>3, <1>4, <1>5, Flags
  <1>7. sent' \in 0 .. Len(Block) /\ tmo' \in 0 .. BUS_TIMEOUT + POLL_TIMEOUT /\ faults' \in 0 .. MaxFaults
    BY <1>5, Flags, Lengths, Constants
  <1>8. out' \in Nat /\ link' \in {"off", "recv", "xmit", "deaf"}
    BY <1>3
  <1>9. QED BY <1>2, <1>3, <1>5, <1>6, <1>7, <1>8, BlockStepTInv

(* A step that returns. *)
LEMMA ReturnTInv ==
  ASSUME TInv, NEW result \in {"ok", "nack", "timeout"}, Return(result),
         done' \in 0 .. Len(req.data), sent' \in 0 .. Len(Block'), got' = got, calls' = calls,
         {bb', nack', cycle', writable', unseen', early'} \subseteq BOOLEAN,
         link' \in {"off", "recv", "xmit", "deaf"}, out' \in Nat,
         cells' \in [Devices -> [Byte -> Value]], faults' \in 0 .. MaxFaults
  PROVE  TInv'
  <1>1. pc' = "idle" /\ req' = req /\ ret' = result /\ tmo' = 0 /\ since' = since
    BY DEF Return
  <1>2. handle' \subseteq Devices /\ opened' \subseteq handle'
    BY DEF Return, TInv, TypeOK
  <1>3. Position'
    BY <1>1 DEF Position
  <1>4. tmo' \in 0 .. BUS_TIMEOUT + POLL_TIMEOUT
    BY <1>1, Constants
  <1>5. req' \in Request \cup {GetInfo} /\ done' \in 0 .. Len(req'.data)
    BY <1>1 DEF TInv, TypeOK
  <1>6. got' \in Seq(Value) /\ Len(got') <= req'.len
    BY <1>1 DEF TInv, TypeOK
  <1>7. {bb', nack', cycle', writable', unseen', early'} \subseteq BOOLEAN /\ since' \in Int
    BY <1>1 DEF TInv, TypeOK
  <1>8. pc' \in {"idle", "busy"} /\ ret' \in {"none", "ok", "nack", "timeout", "unsupported"}
    BY <1>1
  <1>9. QED BY <1>2, <1>3, <1>4, <1>5, <1>6, <1>7, <1>8 DEF TInv, TypeOK

LEMMA FailTInv ==
  ASSUME TInv, NEW result \in {"nack", "timeout"}, Fail(result),
         writable' = writable, calls' = calls, faults' \in 0 .. MaxFaults
  PROVE  TInv'
  <1>1. /\ Return(result) /\ done' = done /\ sent' = sent /\ got' = got
        /\ bb' = FALSE /\ nack' = FALSE /\ cycle' = cycle /\ unseen' = unseen /\ early' = early
        /\ link' = link /\ out' = out /\ cells' = cells
    BY DEF Fail, chip
  <1>2. req' = req
    BY <1>1 DEF Return
  <1>3. sent' \in 0 .. Len(Block')
    BY <1>1, <1>2, BlockStays, Flags, Lengths
  <1>4. {bb', nack', cycle', writable', unseen', early'} \subseteq BOOLEAN
    BY <1>1, Flags
  <1>5. QED BY <1>1, <1>3, <1>4, Flags, Lengths, ReturnTInv

LEMMA PollTInv == ASSUME TInv, BusPoll \/ Wait \/ Nack PROVE TInv'
  <1>1. ASSUME pc' = pc, tmo' \in 0 .. BUS_TIMEOUT + POLL_TIMEOUT,
               UNCHANGED <<req, ret, handle, done, sent, got, bb, nack, chip, faults, obs, writable, calls>>
        PROVE  TInv'
    <2>1. Block' = Block /\ IsMac(req') = IsMac(req) /\ Reads(req') = Reads(req)
      BY <1>1, BlockStays
    <2>2. Position'
      BY <1>1, <2>1 DEF TInv, Position
    <2>3. TypeOK'
      BY <1>1, <2>1 DEF TInv, TypeOK, chip, obs
    <2>4. QED BY <2>2, <2>3 DEF TInv
  <1>2. CASE BusPoll
    <2>1. CASE tmo + 1 < BUS_TIMEOUT /\ tmo' = tmo + 1 /\ Goto("busy") /\ UNCHANGED <<done, sent, got, bb, nack, chip, obs>>
      BY <1>1, <1>2, <2>1, Flags, Constants DEF BusPoll, Goto
    <2>2. CASE Fail("timeout")
      BY <1>2, <2>2, Flags, Constants, FailTInv DEF BusPoll
    <2>3. QED BY <1>2, <2>1, <2>2 DEF BusPoll
  <1>3. CASE Wait
    <2>1. CASE tmo + 1 < POLL_TIMEOUT /\ tmo' = tmo + 1 /\ Goto(pc) /\ UNCHANGED <<done, sent, got, bb, nack, chip, faults, obs>>
      BY <1>1, <1>3, <2>1, Flags, Constants DEF Wait, Goto
    <2>2. CASE faults < MaxFaults /\ faults' = faults + 1 /\ Fail("timeout")
      <3>1. faults' \in 0 .. MaxFaults
        BY <2>2, Flags, Constants
      <3>2. QED BY <1>3, <2>2, <3>1, FailTInv DEF Wait
    <2>3. QED BY <1>3, <2>1, <2>2 DEF Wait
  <1>4. CASE Nack
    BY <1>4, Flags, Constants, FailTInv DEF Nack
  <1>5. QED BY <1>2, <1>3, <1>4

LEMMA PauseTInv == ASSUME TInv, Pause PROVE TInv'
  <1>1. /\ pc = "pause" /\ done' = done + Len(ChunkData) /\ sent' = 0 /\ got' = got /\ bb' = bb /\ nack' = nack
        /\ cycle' = cycle /\ link' = link /\ out' = out /\ cells' = cells
        /\ writable' = writable /\ calls' = calls /\ faults' = faults /\ unseen' = unseen /\ early' = early
        /\ req' = req
    BY DEF Pause, chip, Goto, Return
  <1>2. ~ IsMac(req) /\ ~ Reads(req) /\ got = <<>> /\ done < Len(req.data)
    BY <1>1 DEF TInv, Position
  <1>3. done' \in 0 .. Len(req.data)
    BY <1>1, <1>2, Lengths
  <1>4. Len(Block') \in Nat
    <2>1. req' \in Request \cup {GetInfo} /\ done' \in 0 .. Len(req'.data)
      BY <1>1, <1>3, Lengths
    <2>2. QED BY <2>1, BlockLength, BlockNow
  <1>5. CASE Goto("busy")
    <2>1. /\ pc' = "busy" /\ ret' = ret /\ handle' = handle /\ done' < Len(req.data)
          /\ tmo' = tmo /\ opened' = opened /\ since' = since
      BY <1>5 DEF Pause, Goto, Return
    <2>2. Position'
      BY <1>1, <1>2, <2>1 DEF Position, IsMac, Reads
    <2>3. sent' \in 0 .. Len(Block')
      BY <1>1, <1>4
    <2>4. QED BY <1>1, <1>3, <2>1, <2>2, <2>3 DEF TInv, TypeOK
  <1>6. CASE Return("ok")
    <2>1. sent' \in 0 .. Len(Block')
      BY <1>1, <1>4
    <2>2. {bb', nack', cycle', writable', unseen', early'} \subseteq BOOLEAN
      BY <1>1, Flags
    <2>3. QED BY <1>1, <1>3, <1>6, <2>1, <2>2, Flags, ReturnTInv
  <1>7. QED BY <1>5, <1>6 DEF Pause

LEMMA TurnTInv == ASSUME TInv, Turn PROVE TInv'
  <1>1. /\ pc = "turn" /\ out' = 0 /\ req' = req /\ ret' = ret /\ handle' = handle /\ done' = done /\ sent' = sent
        /\ tmo' = tmo /\ got' = got /\ bb' = bb /\ cycle' = cycle /\ cells' = cells /\ writable' = writable
        /\ calls' = calls /\ opened' = opened /\ unseen' = unseen /\ early' = early /\ since' = since
        /\ pc' = IF IsMac(req) THEN "macrecv" ELSE "recv"
    BY DEF Turn, Goto, obs
  <1>2. \/ link' = "xmit" /\ nack' = nack /\ faults' = faults
        \/ link' = link /\ nack' = nack /\ faults' = faults
        \/ link' = "deaf" /\ nack' = TRUE /\ faults < MaxFaults /\ faults' = faults + 1
    BY Zenon DEF Turn
  <1>3. IsMac(req') = IsMac(req) /\ Reads(req') = Reads(req) /\ Block' = Block
    BY <1>1, BlockStays
  <1>4. got = <<>> /\ Reads(req) /\ Len(got) < req.len
    BY <1>1, Lengths DEF TInv, Position, WellFormed
  <1>5. Position'
    BY <1>1, <1>3, <1>4 DEF TInv, Position
  <1>6. nack' \in BOOLEAN /\ link' \in {"off", "recv", "xmit", "deaf"}
    BY <1>2, Flags, Zenon
  <1>7. faults' \in 0 .. MaxFaults
    <2>1. faults' = faults \/ (faults < MaxFaults /\ faults' = faults + 1)
      BY <1>2
    <2>2. QED BY <2>1, Flags, Constants
  <1>8. {bb', nack', cycle', writable', unseen', early'} \subseteq BOOLEAN /\ since' \in Int
    BY <1>1, <1>6, Flags
  <1>9. sent' \in 0 .. Len(Block) /\ tmo' \in 0 .. BUS_TIMEOUT + POLL_TIMEOUT /\ out' \in Nat
    BY <1>1, Flags, Lengths, Constants
  <1>10. pc' \in {"macrecv", "recv"} /\ cells' \in [Devices -> [Byte -> Value]]
    BY <1>1, Flags
  <1>11. QED BY <1>1, <1>5, <1>6, <1>7, <1>8, <1>9, <1>10, BlockStepTInv

(* One more byte arrives. *)
LEMMA ByteTInv ==
  ASSUME TInv, pc \in {"recv", "macrecv"}, NEW v \in Value, got' = Append(got, v),
         pc' \in {"recv", "dummy", "macsample"}, pc' = "macsample" => IsMac(req),
         pc' = "recv" => Len(got') < req.len, pc' = "dummy" => Len(got') >= req.len,
         req' = req, ret' = ret, handle' = handle, done' = done, sent' = sent, opened' = opened, calls' = calls,
         tmo' \in {0, tmo}, {bb', nack', cycle', writable', unseen', early'} \subseteq BOOLEAN, since' \in Int,
         link' = link, cells' = cells, out' \in Nat, faults' \in 0 .. MaxFaults
  PROVE  TInv'
  <1>1. IsMac(req') = IsMac(req) /\ Reads(req') = Reads(req) /\ Block' = Block
    BY BlockStays
  <1>2. Len(got) < req.len /\ Reads(req) /\ got \in Seq(Value) /\ (IsMac(req) => done = 0)
    BY DEF TInv, TypeOK, Position
  <1>3. got' \in Seq(Value) /\ Len(got') = Len(got) + 1 /\ Len(got') <= req.len /\ req.len \in Nat
    BY <1>2, Lengths DEF WellFormed
  <1>4. Position'
    BY <1>1, <1>2, <1>3 DEF Position
  <1>5. tmo' \in 0 .. BUS_TIMEOUT + POLL_TIMEOUT
    BY Flags, Constants
  <1>6. sent' \in 0 .. Len(Block')
    BY <1>1, Flags, Lengths
  <1>7. QED BY <1>3, <1>4, <1>5, <1>6 DEF TInv, TypeOK

LEMMA ReceiveTInv == ASSUME TInv, Receive PROVE TInv'
  <1>1. /\ pc = "recv" /\ got' = Append(got, Stored(out)) /\ out' = out + 1 /\ tmo' = 0
        /\ req' = req /\ ret' = ret /\ handle' = handle /\ done' = done /\ sent' = sent /\ opened' = opened
        /\ calls' = calls /\ bb' = bb /\ nack' = nack /\ cycle' = cycle /\ writable' = writable
        /\ unseen' = unseen /\ early' = early /\ since' = since /\ link' = link /\ cells' = cells
        /\ faults' = faults /\ pc' = IF Len(got') < req.len THEN "recv" ELSE "dummy"
    BY DEF Receive, Goto, obs
  <1>2. Stored(out) \in Value /\ out' \in Nat
    BY <1>1, Flags, StoredType DEF TInv
  <1>3. {bb', nack', cycle', writable', unseen', early'} \subseteq BOOLEAN /\ since' \in Int
    BY <1>1, Flags
  <1>4. faults' \in 0 .. MaxFaults
    BY <1>1, Flags, Constants
  <1>5. Len(got') \in Nat /\ req.len \in Nat
    BY <1>1, <1>2, Lengths DEF TInv, TypeOK, WellFormed
  <1>6. /\ pc' \in {"recv", "dummy"}
        /\ pc' = "recv" => Len(got') < req.len
        /\ pc' = "dummy" => Len(got') >= req.len
    BY <1>1, <1>5
  <1>7. QED BY <1>1, <1>2, <1>3, <1>4, <1>6, ByteTInv

LEMMA MacReceiveTInv == ASSUME TInv, MacReceive PROVE TInv'
  <1>1. /\ pc = "macrecv" /\ pc' = "macsample"
        /\ req' = req /\ ret' = ret /\ handle' = handle /\ done' = done /\ sent' = sent /\ opened' = opened
        /\ calls' = calls /\ bb' = bb /\ nack' = nack /\ cycle' = cycle /\ writable' = writable
        /\ unseen' = unseen /\ since' = since /\ link' = link /\ cells' = cells /\ tmo' = tmo
    BY DEF MacReceive, Goto
  <1>2. \/ got' = Append(got, Stored(out)) /\ out' = out + 1 /\ early' = early /\ faults' = faults
        \/ got' = Append(got, Junk) /\ early' = TRUE /\ out' = out /\ faults' = faults
        \/ got' = Append(got, Junk) /\ early' = TRUE /\ out' = out /\ faults < MaxFaults /\ faults' = faults + 1
    BY Zenon DEF MacReceive
  <1>3. PICK v \in Value : got' = Append(got, v)
    <2>1. got' = Append(got, Stored(out)) \/ got' = Append(got, Junk)
      BY <1>2, Zenon
    <2>2. Stored(out) \in Value /\ Junk \in Value
      BY Flags, StoredType, Constants DEF TInv
    <2>3. QED BY <2>1, <2>2, Zenon
  <1>4. out' \in Nat
    <2>1. out' = out \/ out' = out + 1
      BY <1>2
    <2>2. QED BY <2>1, Flags
  <1>5. faults' \in 0 .. MaxFaults
    <2>1. faults' = faults \/ (faults < MaxFaults /\ faults' = faults + 1)
      BY <1>2
    <2>2. QED BY <2>1, Flags, Constants
  <1>6. early' \in BOOLEAN
    BY <1>2, Flags, Zenon
  <1>7. {bb', nack', cycle', writable', unseen', early'} \subseteq BOOLEAN /\ since' \in Int
    BY <1>1, <1>6, Flags
  <1>8. IsMac(req)
    BY <1>1 DEF TInv, Position
  <1>9. QED BY <1>1, <1>3, <1>4, <1>5, <1>7, <1>8, ByteTInv

(* A step of the loop that only goes somewhere else. *)
LEMMA GotoTInv ==
  ASSUME TInv, pc' \in {"turn", "macrecv", "dummy", "spin"}, Position',
         UNCHANGED <<req, ret, handle, done, sent, got, bb, nack, chip, obs, writable, calls, tmo>>,
         faults' \in 0 .. MaxFaults
  PROVE  TInv'
  <1>1. Block' = Block
    BY BlockStays
  <1>2. QED BY <1>1 DEF TInv, TypeOK, chip, obs

LEMMA MacReceivedTInv == ASSUME TInv, MacReceived \/ MacLate PROVE TInv'
  <1>1. IsMac(req') = IsMac(req) /\ Reads(req') = Reads(req) /\ Block' = Block
    BY BlockStays DEF MacReceived, MacLate, Goto
  <1>2. CASE MacReceived
    <2>1. /\ pc = "macsample" /\ pc' = IF Len(got) < req.len THEN "macrecv" ELSE "dummy"
          /\ UNCHANGED <<req, ret, handle, done, sent, got, bb, nack, chip, obs, writable, calls, tmo, faults>>
      BY <1>2 DEF MacReceived, Goto
    <2>2. Len(got) \in Nat /\ Len(got) <= req.len /\ req.len \in Nat
      BY Lengths DEF TInv, TypeOK, WellFormed
    <2>3. Position'
      BY <1>1, <2>1, <2>2 DEF TInv, Position
    <2>4. QED BY <2>1, <2>3, Flags, Constants, GotoTInv
  <1>3. CASE MacLate
    <2>1. /\ pc \in {"sample", "macsample"} /\ pc' = "spin" /\ faults < MaxFaults /\ faults' = faults + 1
          /\ UNCHANGED <<req, ret, handle, done, sent, got, bb, nack, chip, obs, writable, calls, tmo>>
      BY <1>3 DEF MacLate, Goto
    <2>2. Position'
      BY <1>1, <2>1 DEF TInv, Position
    <2>3. faults' \in 0 .. MaxFaults
      BY <2>1, Flags, Constants
    <2>4. QED BY <2>1, <2>2, <2>3, GotoTInv
  <1>4. QED BY <1>2, <1>3

LEMMA DummyTInv == ASSUME TInv, Dummy PROVE TInv'
  <1>1. /\ Return("ok") /\ done' = done /\ sent' = sent /\ got' = got
        /\ bb' = FALSE /\ nack' = nack /\ cycle' = cycle /\ unseen' = unseen /\ early' = early
        /\ link' = "off" /\ out' = 0 /\ cells' = cells /\ writable' = writable /\ calls' = calls
        /\ faults' = faults
    BY DEF Dummy
  <1>2. req' = req
    BY <1>1 DEF Return
  <1>3. sent' \in 0 .. Len(Block')
    BY <1>1, <1>2, BlockStays, Flags, Lengths
  <1>4. {bb', nack', cycle', writable', unseen', early'} \subseteq BOOLEAN
    BY <1>1, Flags
  <1>5. faults' \in 0 .. MaxFaults
    BY <1>1, Flags, Constants
  <1>6. QED BY <1>1, <1>3, <1>4, <1>5, Flags, Lengths, ReturnTInv

LEMMA MacSentTInv == ASSUME TInv, MacSent PROVE TInv'
  <1>1. /\ pc = "sample" /\ req' = req /\ done' = done /\ sent' = sent /\ got' = got /\ nack' = nack
        /\ writable' = writable /\ calls' = calls /\ faults' = faults /\ unseen' = unseen /\ early' = early
    BY DEF MacSent, Goto, Return
  <1>2. IsMac(req') = IsMac(req) /\ Reads(req') = Reads(req) /\ Block' = Block
    BY <1>1, BlockStays
  <1>3. faults' \in 0 .. MaxFaults
    BY <1>1, Flags, Constants
  <1>4. CASE Reads(req)
    <2>1. /\ pc' = "turn"
          /\ UNCHANGED <<req, ret, handle, done, sent, got, bb, nack, chip, obs, writable, calls, tmo, faults>>
      BY <1>1, <1>4 DEF MacSent, Goto, obs
    <2>2. Position'
      BY <1>1, <1>2, <1>4, <2>1 DEF TInv, Position
    <2>3. QED BY <1>3, <2>1, <2>2, GotoTInv
  <1>5. CASE ~ Reads(req)
    <2>1. StopWrite /\ bb' = FALSE /\ Return("ok")
      BY <1>5 DEF MacSent
    <2>2. /\ cells' \in [Devices -> [Byte -> Value]] /\ cycle' \in BOOLEAN
          /\ link' = "off" /\ out' = 0
      BY <2>1, StopWriteType
    <2>3. sent' \in 0 .. Len(Block')
      BY <1>1, <1>2, Flags, Lengths
    <2>4. {bb', nack', cycle', writable', unseen', early'} \subseteq BOOLEAN
      BY <1>1, <2>1, <2>2, Flags
    <2>5. QED BY <1>1, <1>3, <2>1, <2>2, <2>3, <2>4, Lengths, ReturnTInv
  <1>6. QED BY <1>4, <1>5

LEMMA CallTInv ==
  ASSUME TInv, (\E d \in Devices : Open(d) \/ Close(d)) \/ (\E r \in Request : Call(r))
  PROVE  TInv'
  <1>1. ASSUME NEW d \in Devices, Open(d) \/ Close(d) PROVE TInv'
    <2>1. /\ pc = "idle" /\ pc' = pc /\ req' = req /\ done' = done /\ sent' = sent /\ tmo' = tmo /\ got' = got
          /\ ret' = "none" /\ UNCHANGED chip /\ writable' = writable /\ faults' = faults /\ before' = before
          /\ unseen' = unseen /\ early' = early /\ since' = since
          /\ calls' = calls + 1 /\ calls < MaxCalls
          /\ \/ handle' = handle \cup {d} /\ opened' = opened \cup {d} /\ bb' = FALSE /\ nack' = FALSE
             \/ handle' = handle \ {d} /\ opened' = opened \ {d} /\ bb' = bb /\ nack' = nack
      BY <1>1, Zenon DEF Open, Close
    <2>2. Position'
      BY <2>1 DEF Position
    <2>3. Block' = Block
      BY <2>1, BlockStays
    <2>4. bb' \in BOOLEAN /\ nack' \in BOOLEAN
      BY <2>1, Flags, Zenon
    <2>5. handle' \subseteq Devices /\ opened' \subseteq handle'
      BY <2>1 DEF TInv, TypeOK
    <2>6. calls' \in 0 .. MaxCalls
      BY <2>1, Constants DEF TInv, TypeOK
    <2>7. QED BY <2>1, <2>2, <2>3, <2>4, <2>5, <2>6 DEF TInv, TypeOK, chip
  <1>2. ASSUME NEW r \in Request, Call(r) PROVE TInv'
    <2>1. /\ req' = r /\ done' = 0 /\ sent' = 0 /\ tmo' = 0 /\ got' = <<>> /\ calls < MaxCalls /\ calls' = calls + 1
          /\ unseen' \in {FALSE, unseen} /\ early' = FALSE /\ UNCHANGED chip /\ writable' = writable /\ faults' = faults
          /\ opened' = opened
          /\ \/ pc' = "idle" /\ ret' = "unsupported"
             \/ pc' = "busy" /\ ret' = "none"
          /\ \/ handle' = handle \cup {"e50"} /\ bb' = FALSE /\ nack' = FALSE
             \/ handle' = handle /\ bb' = bb /\ nack' = nack
          /\ since' \in {-1, faults}
      BY <1>2, Zenon DEF Call
    <2>2. WellFormed(r)
      BY RequestWellFormed
    <2>3. done' \in 0 .. Len(req'.data) /\ req' \in Request \cup {GetInfo}
      BY <2>1, <2>2 DEF WellFormed
    <2>4. Len(Block') \in Nat
      BY <2>3, BlockLength, BlockNow
    <2>5. Position'
      BY <2>1, <2>2 DEF Position, WellFormed, Reads
    <2>6. bb' \in BOOLEAN /\ nack' \in BOOLEAN
      BY <2>1, Flags, Zenon
    <2>7. handle' \subseteq Devices /\ opened' \subseteq handle'
      BY <2>1 DEF TInv, TypeOK, Devices
    <2>8. calls' \in 0 .. MaxCalls
      BY <2>1, Constants DEF TInv, TypeOK
    <2>9. {bb', nack', cycle', writable', unseen', early'} \subseteq BOOLEAN /\ since' \in Int
      <3>1. unseen' \in BOOLEAN /\ cycle' \in BOOLEAN /\ writable' \in BOOLEAN /\ early' \in BOOLEAN
        BY <2>1, Flags, Zenon DEF chip
      <3>2. since' \in Int
        BY <2>1, Flags
      <3>3. QED BY <2>6, <3>1, <3>2
    <2>10. /\ sent' \in 0 .. Len(Block') /\ tmo' \in 0 .. BUS_TIMEOUT + POLL_TIMEOUT
           /\ got' \in Seq(Value) /\ Len(got') <= req'.len
      BY <2>1, <2>2, <2>4, Constants DEF WellFormed
    <2>11. pc' \in {"idle", "busy"} /\ ret' \in {"none", "unsupported"}
      BY <2>1
    <2>12. QED BY <2>1, <2>3, <2>5, <2>7, <2>8, <2>9, <2>10, <2>11 DEF TInv, TypeOK, chip
  <1>3. QED BY <1>1, <1>2

LEMMA ElseTInv == ASSUME TInv, CycleDone \/ Noise \/ UNCHANGED vars PROVE TInv'
  <1>1. /\ UNCHANGED <<pc, req, done, sent, tmo, got, ret, handle, nack, link, out, cells, writable, calls, obs>>
        /\ \/ cycle' = FALSE /\ bb' = bb /\ faults' = faults
           \/ cycle' = cycle /\ bb' = ~ bb /\ faults < MaxFaults /\ faults' = faults + 1
           \/ cycle' = cycle /\ bb' = bb /\ faults' = faults
    BY Zenon DEF CycleDone, Noise, vars, call, chip
  <1>2. Block' = Block /\ IsMac(req') = IsMac(req) /\ Reads(req') = Reads(req)
    BY <1>1, BlockStays
  <1>3. Position'
    BY <1>1, <1>2 DEF TInv, Position
  <1>4. cycle' \in BOOLEAN /\ bb' \in BOOLEAN
    BY <1>1, Flags, Zenon
  <1>5. faults' \in 0 .. MaxFaults
    <2>1. faults' = faults \/ (faults < MaxFaults /\ faults' = faults + 1)
      BY <1>1
    <2>2. QED BY <2>1, Flags, Constants
  <1>6. QED BY <1>1, <1>2, <1>3, <1>4, <1>5 DEF TInv, TypeOK, obs

LEMMA TInvStep == TInv /\ [Next]_vars => TInv'
  <1> SUFFICES ASSUME TInv, [Next]_vars PROVE TInv'
    OBVIOUS
  <1>1. CASE Step
    BY <1>1, BeginTInv, SendTInv, MacSendTInv, StopTInv, PollTInv, PauseTInv, TurnTInv, ReceiveTInv,
       MacReceiveTInv, MacReceivedTInv, DummyTInv, MacSentTInv, ElseTInv DEF Step, Spin
  <1>2. QED BY <1>1, CallTInv, ElseTInv DEF Next, Finished

(* Whatever the bus does, the locals of the driver stay in their bounds:   *)
(* the bytes counted as written never exceed those asked for, a block      *)
(* never sends more than it has, and a read never takes more bytes than    *)
(* the caller's buffer holds.                                              *)
THEOREM TypeCorrect == Spec => []TypeOK
  <1>1. Init => TInv
    BY InitTInv
  <1>2. TInv /\ [Next]_vars => TInv'
    BY TInvStep
  <1>3. TInv => TypeOK
    BY DEF TInv
  <1>4. QED BY <1>1, <1>2, <1>3, PTL DEF Spec

-----------------------------------------------------------------------------
(* A call that nothing disturbs does not fail *)

Short == req.op = "i2cwrite" => req.len <= CHUNK

Quiet == faults = since

(* Whatever has happened: between the calls and between the blocks of a    *)
(* call the bus is free, and NACK is set only if a block was stopped with  *)
(* its last byte not acknowledged.                                         *)
FlagsClear ==
  /\ pc \in {"idle", "pause"} => ~ bb /\ (nack => unseen)
  /\ pc = "stop" => (nack => link = "deaf")
  /\ pc = "dummy" => ~ nack

(* While a call that is not disturbed runs, the bus is free between its    *)
(* blocks and the EEPROM listens; it has not failed.                       *)
Clean ==
  /\ pc \in {"busy", "pause"} => ~ bb
  /\ pc # "idle" /\ Short => /\ ~ nack /\ pc # "spin" /\ (pc # "pause" => ~ cycle)
                             /\ req.op = "i2cwrite" => done = 0
                             /\ pc \in {"send", "sample", "turn"} => link = "recv"
  /\ pc = "idle" /\ Short =>
       ret \in {"none", "ok"} \/ (ret = "unsupported" /\ req.op \in {"read", "write"} /\ req.dev \notin handle)

CleanInv == since <= faults /\ FlagsClear /\ (Quiet => Clean)

LEMMA FlagsStay ==
  ASSUME FlagsClear, pc = "idle", unseen' = unseen, (bb' = FALSE /\ nack' = FALSE) \/ (bb' = bb /\ nack' = nack)
  PROVE  ~ bb' /\ (nack' => unseen')
  <1>1. ~ bb /\ (nack => unseen)
    BY DEF FlagsClear
  <1>2. CASE bb' = FALSE /\ nack' = FALSE
    BY <1>2, Zenon
  <1>3. CASE bb' = bb /\ nack' = nack
    <2>1. ~ bb'
      BY <1>1, <1>3
    <2>2. nack' => unseen'
      BY <1>1, <1>3
    <2>3. QED BY <2>1, <2>2
  <1>4. QED BY <1>2, <1>3

LEMMA FlagsStep == ASSUME TInv, FlagsClear, [Next]_vars PROVE FlagsClear'
  <1>1. CASE Begin
    BY <1>1, Zenon DEF Begin, Goto, FlagsClear
  <1>2. CASE Send
    <2>1. /\ pc' \in {"send", "turn", "stop"} /\ ~ nack /\ Hears(FALSE)
      BY <1>2, Zenon DEF Send, Goto
    <2>2. nack' => link' = "deaf"
      BY <2>1, HearsCases, Zenon
    <2>3. QED BY <2>1, <2>2 DEF FlagsClear
  <1>3. CASE MacSend
    BY <1>3, Zenon DEF MacSend, Goto, FlagsClear
  <1>4. CASE BusPoll \/ Wait \/ Nack
    <2>1. \/ pc' = pc /\ bb' = bb /\ nack' = nack /\ link' = link /\ unseen' = unseen
          \/ pc' = "idle" /\ bb' = FALSE /\ nack' = FALSE
      <3>1. CASE BusPoll
        BY <3>1, Zenon DEF BusPoll, Fail, Return, Goto, chip, obs
      <3>2. CASE Wait
        BY <3>2, Zenon DEF Wait, Fail, Return, Goto, chip, obs
      <3>3. CASE Nack
        BY <3>3, Zenon DEF Nack, Fail, Return
      <3>4. QED BY <1>4, <3>1, <3>2, <3>3
    <2>2. CASE pc' = pc /\ bb' = bb /\ nack' = nack /\ link' = link /\ unseen' = unseen
      BY <2>2 DEF FlagsClear
    <2>3. CASE pc' = "idle" /\ bb' = FALSE /\ nack' = FALSE
      BY <2>3 DEF FlagsClear
    <2>4. QED BY <2>1, <2>2, <2>3
  <1>5. CASE Stop
    <2>1. pc = "stop" /\ pc' = "pause" /\ bb' = FALSE /\ nack' = nack /\ (link = "deaf" => unseen')
      BY <1>5, Zenon DEF Stop, Goto
    <2>2. QED BY <2>1, Zenon DEF FlagsClear
  <1>6. CASE Pause
    <2>1. pc = "pause" /\ pc' \in {"busy", "idle"} /\ bb' = bb /\ nack' = nack /\ unseen' = unseen
      BY <1>6, Zenon DEF Pause, Goto, Return
    <2>2. QED BY <2>1, Zenon DEF FlagsClear
  <1>7. CASE Turn \/ MacReceive \/ MacLate
    <2>1. pc' \in {"recv", "macrecv", "macsample", "spin"}
      BY <1>7, Zenon DEF Turn, MacReceive, MacLate, Goto
    <2>2. QED BY <2>1, Zenon DEF FlagsClear
  <1>8. CASE Receive \/ MacReceived
    <2>1. ~ nack' /\ pc' \in {"recv", "macrecv", "dummy"}
      <3>1. CASE Receive
        BY <3>1, Zenon DEF Receive, Goto
      <3>2. CASE MacReceived
        BY <3>2, Zenon DEF MacReceived, Goto
      <3>3. QED BY <1>8, <3>1, <3>2
    <2>2. QED BY <2>1, Zenon DEF FlagsClear
  <1>9. CASE Dummy
    <2>1. pc = "dummy" /\ pc' = "idle" /\ bb' = FALSE /\ nack' = nack
      BY <1>9, Zenon DEF Dummy, Return
    <2>2. QED BY <2>1, Zenon DEF FlagsClear
  <1>10. CASE MacSent
    <2>1. ~ nack' /\ (pc' = "turn" \/ (pc' = "idle" /\ bb' = FALSE))
      BY <1>10, Zenon DEF MacSent, Goto, Return
    <2>2. QED BY <2>1, Zenon DEF FlagsClear
  <1>11. ASSUME NEW d \in Devices, Open(d) \/ Close(d) PROVE FlagsClear'
    <2>1. /\ pc = "idle" /\ pc' = pc /\ unseen' = unseen
          /\ (bb' = FALSE /\ nack' = FALSE) \/ (bb' = bb /\ nack' = nack)
      BY <1>11, Zenon DEF Open, Close
    <2>2. ~ bb' /\ (nack' => unseen')
      BY <2>1, FlagsStay
    <2>3. QED BY <2>1, <2>2 DEF FlagsClear
  <1>12. ASSUME NEW r \in Request, Call(r) PROVE FlagsClear'
    <2>1. /\ pc = "idle" /\ (pc' = "busy" \/ (pc' = "idle" /\ unseen' = unseen))
          /\ (bb' = FALSE /\ nack' = FALSE) \/ (bb' = bb /\ nack' = nack)
      BY <1>12, Zenon DEF Call
    <2>2. CASE pc' = "busy"
      BY <2>2 DEF FlagsClear
    <2>3. CASE pc' = "idle" /\ unseen' = unseen
      <3>1. ~ bb' /\ (nack' => unseen')
        BY <2>1, <2>3, FlagsStay
      <3>2. QED BY <2>3, <3>1 DEF FlagsClear
    <2>4. QED BY <2>1, <2>2, <2>3
  <1>13. CASE CycleDone \/ UNCHANGED vars
    <2>1. UNCHANGED <<pc, bb, nack, link, unseen>>
      BY <1>13, Zenon DEF CycleDone, vars, call, chip, obs
    <2>2. QED BY <2>1, Zenon DEF FlagsClear
  <1>14. CASE Noise
    <2>1. pc = "busy" /\ pc' = pc
      BY <1>14, Zenon DEF Noise, call
    <2>2. QED BY <2>1, Zenon DEF FlagsClear
  <1>15. CASE Step
    BY <1>1, <1>2, <1>3, <1>4, <1>5, <1>6, <1>7, <1>8, <1>9, <1>10, <1>13, <1>15 DEF Step, Spin
  <1>16. QED BY <1>11, <1>12, <1>13, <1>14, <1>15 DEF Next, Finished

(* A step of a call adds at most one disturbance. *)
LEMMA FaultSteps ==
  ASSUME TInv, Step \/ CycleDone \/ Noise \/ UNCHANGED vars
  PROVE  since' = since /\ (faults' = faults \/ faults' = faults + 1)
  <1>1. CASE Begin \/ Send \/ MacSend
    <2>1. since' = since /\ (Hears(TRUE) \/ Hears(FALSE))
      BY <1>1, Zenon DEF Begin, Send, MacSend, obs
    <2>2. QED BY <2>1, HearsCases, Zenon
  <1>2. CASE BusPoll \/ Wait \/ Nack
    BY <1>2, Zenon DEF BusPoll, Wait, Nack, Fail, Return, obs
  <1>3. CASE Stop \/ Pause \/ Dummy \/ MacSent
    BY <1>3, Zenon DEF Stop, Pause, Dummy, MacSent, Return
  <1>4. CASE Turn
    BY <1>4, Zenon DEF Turn, obs
  <1>5. CASE MacReceive
    <2>1. faults' = faults \/ faults' = faults + 1
      BY <1>5, Zenon DEF MacReceive
    <2>2. QED BY <1>5, <2>1, Zenon DEF MacReceive
  <1>6. CASE Receive \/ MacReceived \/ MacLate
    BY <1>6, Zenon DEF Receive, MacReceived, MacLate, obs
  <1>7. CASE CycleDone \/ Noise \/ UNCHANGED vars
    BY <1>7, Zenon DEF CycleDone, Noise, vars, obs
  <1>8. QED BY <1>1, <1>2, <1>3, <1>4, <1>5, <1>6, <1>7 DEF Step, Spin

(* Thus a call is quiet only if it was quiet before the step. *)
LEMMA QuietSteps ==
  ASSUME TInv, since <= faults, Step \/ CycleDone \/ Noise \/ UNCHANGED vars, Quiet'
  PROVE  since' = since /\ faults' = faults /\ faults' # faults + 1 /\ Quiet
  <1>1. since' = since /\ (faults' = faults \/ faults' = faults + 1)
    BY FaultSteps
  <1>2. since \in Int /\ faults \in Nat
    BY Flags
  <1>3. QED BY <1>1, <1>2 DEF Quiet

LEMMA HearsQuiet ==
  ASSUME TInv, NEW first \in BOOLEAN, Hears(first), faults' # faults + 1,
         IF first THEN ~ cycle ELSE link = "recv"
  PROVE  link' = "recv" /\ nack' = nack
  <1>1. link = "recv" => link # "deaf"
    OBVIOUS
  <1>2. QED BY <1>1, HearsCases, Zenon

LEMMA BlockClean ==
  ASSUME TInv, CleanInv, Begin \/ Send \/ MacSend, Quiet'
  PROVE  Clean'
  <1>1. /\ pc # "idle" /\ pc' \in {"send", "sample", "turn", "stop"} /\ req' = req /\ done' = done /\ cycle' = cycle
        /\ \/ pc = "busy" /\ Hears(TRUE)
           \/ pc \in {"send", "sample"} /\ Hears(FALSE)
    <2>1. CASE Begin
      BY <2>1, Zenon DEF Begin, Goto, obs
    <2>2. CASE Send
      BY <2>2, Zenon DEF Send, Goto, obs
    <2>3. CASE MacSend
      BY <2>3, Zenon DEF MacSend, Goto, obs
    <2>4. QED BY <2>1, <2>2, <2>3
  <1>2. Step
    BY DEF Step
  <1>3. Short' = Short
    BY <1>1 DEF Short
  <1>4. faults' # faults + 1 /\ Clean
    BY <1>2, QuietSteps DEF CleanInv
  <1>5. CASE Short
    <2>1. ~ nack /\ ~ cycle /\ (req.op = "i2cwrite" => done = 0) /\ (pc \in {"send", "sample"} => link = "recv")
      BY <1>1, <1>4, <1>5 DEF Clean
    <2>2. link' = "recv" /\ nack' = nack
      BY <1>1, <1>4, <2>1, HearsQuiet
    <2>3. QED BY <1>1, <1>3, <2>1, <2>2 DEF Clean
  <1>6. CASE ~ Short
    BY <1>1, <1>3, <1>6 DEF Clean
  <1>7. QED BY <1>5, <1>6

LEMMA PollClean ==
  ASSUME TInv, CleanInv, BusPoll \/ Wait \/ Nack, Quiet'
  PROVE  Clean'
  <1>1. /\ pc # "idle" /\ req' = req /\ done' = done /\ cycle' = cycle /\ link' = link
        /\ \/ faults' = faults + 1
           \/ pc' = pc /\ bb' = bb /\ nack' = nack
           \/ pc = "busy" /\ bb
           \/ nack /\ pc' = "idle" /\ bb' = FALSE /\ nack' = FALSE
    <2>1. CASE BusPoll
      BY <2>1, Zenon DEF BusPoll, Fail, Return, Goto, chip, obs
    <2>2. CASE Wait
      BY <2>2, Zenon DEF Wait, Fail, Return, Goto, chip, obs
    <2>3. CASE Nack
      BY <2>3, Zenon DEF Nack, Fail, Return, chip, obs
    <2>4. QED BY <2>1, <2>2, <2>3
  <1>2. Step
    BY DEF Step
  <1>3. Short' = Short
    BY <1>1 DEF Short
  <1>4. faults' # faults + 1 /\ Clean
    BY <1>2, QuietSteps DEF CleanInv
  <1>5. CASE pc' = pc /\ bb' = bb /\ nack' = nack
    BY <1>1, <1>3, <1>4, <1>5 DEF Clean
  <1>6. CASE pc = "busy" /\ bb
    BY <1>4, <1>6 DEF Clean
  <1>7. CASE nack /\ pc' = "idle" /\ bb' = FALSE /\ nack' = FALSE
    <2>1. ~ Short
      BY <1>1, <1>4, <1>7 DEF Clean
    <2>2. QED BY <1>1, <1>3, <1>7, <2>1 DEF Clean
  <1>8. QED BY <1>1, <1>4, <1>5, <1>6, <1>7, Zenon

(* A step within a call that leaves the bus and the flags alone. *)
LEMMA OnwardClean ==
  ASSUME TInv, CleanInv, Quiet', faults' = faults, since' = since, req' = req, done' = done, cycle' = cycle,
         nack' = nack, pc \notin {"idle", "pause"}, pc' \notin {"idle", "busy", "spin"},
         pc' = "pause" => ~ bb', pc' \in {"send", "sample", "turn"} => link' = link /\ pc \in {"send", "sample", "turn"}
  PROVE  Clean'
  <1>1. Quiet /\ Short' = Short
    BY DEF Quiet, Short
  <1>2. Clean
    BY <1>1 DEF CleanInv
  <1>3. QED BY <1>1, <1>2 DEF Clean

(* A step that returns "ok". *)
LEMMA OkClean == ASSUME Return("ok") PROVE Clean'
  BY DEF Clean, Return

LEMMA StopClean ==
  ASSUME TInv, CleanInv, Stop, Quiet'
  PROVE  Clean'
  <1>1. /\ pc = "stop" /\ pc' = "pause" /\ bb' = FALSE /\ nack' = nack /\ faults' = faults
        /\ since' = since /\ req' = req /\ done' = done
    BY DEF Stop, Goto
  <1>2. Quiet /\ Short' = Short
    BY <1>1 DEF Quiet, Short
  <1>3. Clean
    BY <1>2 DEF CleanInv
  <1>4. QED BY <1>1, <1>2, <1>3 DEF Clean

LEMMA PauseClean ==
  ASSUME TInv, CleanInv, Pause, Quiet'
  PROVE  Clean'
  <1>1. /\ pc = "pause" /\ Paced /\ done' = done + Len(ChunkData) /\ bb' = bb /\ nack' = nack /\ cycle' = cycle
        /\ faults' = faults /\ req' = req
        /\ \/ done' < Len(req.data) /\ pc' = "busy" /\ since' = since
           \/ done' = Len(req.data) /\ Return("ok")
    BY Zenon DEF Pause, Goto, Return, chip
  <1>2. since' = since
    BY <1>1 DEF Return
  <1>3. Quiet /\ Short' = Short
    BY <1>1, <1>2 DEF Quiet, Short
  <1>4. Clean
    BY <1>3 DEF CleanInv
  <1>5. ~ IsMac(req) /\ ~ Reads(req)
    BY <1>1 DEF TInv, Position
  <1>6. ~ bb' /\ (req.op = "write" => ~ cycle) /\ req.op \in {"write", "i2cwrite"}
    BY <1>1, <1>4, <1>5, Lengths DEF Clean, Paced, IsMac, Reads, WellFormed, Op
  <1>7. CASE Return("ok")
    BY <1>7, OkClean
  <1>8. CASE done' < Len(req.data) /\ pc' = "busy"
    <2>1. ASSUME Short PROVE req.op # "i2cwrite"
      <3>1. SUFFICES ASSUME req.op = "i2cwrite" PROVE FALSE
        OBVIOUS
      <3>2. req.len <= CHUNK /\ done = 0
        BY <1>1, <1>4, <2>1, <3>1 DEF Clean, Short
      <3>3. Len(ChunkOf(req, 0)) = Min2(CHUNK, Len(req.data) - 0) /\ Len(req.data) = req.len
        BY <1>5, Lengths, ChunkIsPart DEF WellFormed
      <3>4. Len(ChunkData) = req.len
        BY <3>2, <3>3, BlockNow, Lengths, Constants DEF Min2, WellFormed
      <3>5. QED BY <1>1, <1>8, <3>2, <3>3, <3>4, Lengths DEF WellFormed
    <2>2. QED BY <1>1, <1>3, <1>4, <1>6, <1>8, <2>1 DEF Clean
  <1>9. QED BY <1>1, <1>7, <1>8

LEMMA TurnClean ==
  ASSUME TInv, CleanInv, Turn \/ Receive \/ MacReceive \/ MacReceived \/ MacLate, Quiet'
  PROVE  Clean'
  <1>1. /\ pc \in {"turn", "recv", "macrecv", "macsample", "sample"} /\ req' = req /\ done' = done
        /\ cycle' = cycle
        /\ \/ faults' = faults + 1
           \/ nack' = nack /\ pc' \in {"recv", "macrecv", "dummy", "macsample"}
    <2>1. CASE Turn
      BY <2>1, Zenon DEF Turn, Goto, obs
    <2>2. CASE Receive
      BY <2>2, Zenon DEF Receive, Goto, obs
    <2>3. CASE MacReceive
      BY <2>3, Zenon DEF MacReceive, Goto
    <2>4. CASE MacReceived
      BY <2>4, Zenon DEF MacReceived, Goto, obs, chip
    <2>5. CASE MacLate
      BY <2>5, Zenon DEF MacLate, Goto, obs, chip
    <2>6. QED BY <2>1, <2>2, <2>3, <2>4, <2>5
  <1>2. Step
    BY DEF Step
  <1>3. faults' # faults + 1 /\ faults' = faults /\ since' = since
    BY <1>2, QuietSteps DEF CleanInv
  <1>4. nack' = nack /\ pc' \in {"recv", "macrecv", "dummy", "macsample"}
    BY <1>1, <1>3, Zenon
  <1>5. QED BY <1>1, <1>3, <1>4, OnwardClean

LEMMA EndClean ==
  ASSUME TInv, CleanInv, Dummy \/ MacSent, Quiet'
  PROVE  Clean'
  <1>1. /\ pc \in {"dummy", "sample"} /\ faults' = faults /\ nack' = nack /\ done' = done
        /\ \/ Return("ok")
           \/ pc' = "turn" /\ link' = link /\ cycle' = cycle /\ req' = req /\ since' = since /\ pc = "sample"
    <2>1. CASE Dummy
      BY <2>1, Zenon DEF Dummy
    <2>2. CASE MacSent
      BY <2>2, Zenon DEF MacSent, Goto, chip
    <2>3. QED BY <2>1, <2>2
  <1>2. CASE pc' = "turn" /\ link' = link /\ cycle' = cycle /\ req' = req /\ since' = since /\ pc = "sample"
    BY <1>1, <1>2, OnwardClean
  <1>3. QED BY <1>1, <1>2, OkClean

LEMMA CallClean ==
  ASSUME TInv, CleanInv, (\E d \in Devices : Open(d) \/ Close(d)) \/ (\E r \in Request : Call(r)), Quiet'
  PROVE  Clean'
  <1>1. ASSUME NEW d \in Devices, Open(d) \/ Close(d) PROVE Clean'
    <2>1. pc' = "idle" /\ ret' = "none"
      BY <1>1, Zenon DEF Open, Close
    <2>2. QED BY <2>1 DEF Clean
  <1>2. ASSUME NEW r \in Request, Call(r) PROVE Clean'
    <2>1. /\ pc = "idle" /\ req' = r /\ done' = 0 /\ cycle' = cycle /\ faults' = faults
          /\ \/ bb' = FALSE /\ nack' = FALSE
             \/ bb' = bb /\ nack' = nack
          /\ \/ pc' = "busy" /\ ret' = "none"
             \/ /\ pc' = "idle" /\ ret' = "unsupported" /\ r.op \in {"read", "write"} /\ r.dev \notin handle
                /\ handle' = handle
      <3>1. r.op \in {"read", "write"} => r.op # "getinfo"
        OBVIOUS
      <3>2. QED BY <1>2, <3>1, Zenon DEF Call, chip
    <2>2. ~ cycle /\ ~ unseen
      <3>1. since' = IF cycle \/ unseen THEN -1 ELSE faults
        BY <1>2 DEF Call
      <3>2. since' = faults /\ faults \in Nat
        BY <2>1, Flags DEF Quiet
      <3>3. since' # -1
        BY <3>2
      <3>4. QED BY <3>1, <3>3
    <2>3. ~ bb /\ ~ nack
      BY <2>1, <2>2, Zenon DEF CleanInv, FlagsClear
    <2>4. ~ bb' /\ ~ nack' /\ ~ cycle'
      <3>1. cycle' = cycle
        BY <2>1
      <3>2. CASE bb' = FALSE /\ nack' = FALSE
        BY <2>2, <3>1, <3>2, Zenon
      <3>3. CASE bb' = bb /\ nack' = nack
        BY <2>2, <2>3, <3>1, <3>3, Zenon
      <3>4. QED BY <2>1, <3>2, <3>3, Zenon
    <2>5. CASE pc' = "busy"
      BY <2>1, <2>4, <2>5 DEF Clean
    <2>6. CASE pc' = "idle"
      BY <2>1, <2>6 DEF Clean
    <2>7. QED BY <2>1, <2>5, <2>6
  <1>3. QED BY <1>1, <1>2

LEMMA ElseClean ==
  ASSUME TInv, CleanInv, CycleDone \/ Noise \/ UNCHANGED vars, Quiet'
  PROVE  Clean'
  <1>1. /\ UNCHANGED <<pc, req, done, ret, handle, nack, link>>
        /\ \/ faults' = faults + 1
           \/ bb' = bb /\ (cycle' = FALSE \/ cycle' = cycle)
    BY Zenon DEF CycleDone, Noise, vars, call, chip, obs
  <1>2. faults' # faults + 1 /\ Clean
    BY QuietSteps DEF CleanInv
  <1>3. bb' = bb /\ (cycle' = FALSE \/ cycle' = cycle)
    BY <1>1, <1>2, Zenon
  <1>4. Short' = Short
    BY <1>1 DEF Short
  <1>5. QED BY <1>1, <1>2, <1>3, <1>4 DEF Clean

LEMMA SinceStep == ASSUME TInv, since <= faults, [Next]_vars PROVE since' <= faults'
  <1>1. since \in Int /\ faults \in Nat
    BY Flags
  <1>2. CASE Step \/ CycleDone \/ Noise \/ UNCHANGED vars
    BY <1>1, <1>2, FaultSteps
  <1>3. CASE \E d \in Devices : Open(d) \/ Close(d)
    <2>1. since' = since /\ faults' = faults
      BY <1>3, Zenon DEF Open, Close
    <2>2. QED BY <2>1
  <1>4. ASSUME NEW r \in Request, Call(r) PROVE since' <= faults'
    <2>1. since' = (IF cycle \/ unseen THEN -1 ELSE faults) /\ faults' = faults
      BY <1>4 DEF Call
    <2>2. since' = -1 \/ since' = faults
      BY <2>1, Zenon
    <2>3. QED BY <1>1, <2>1, <2>2
  <1>5. QED BY <1>2, <1>3, <1>4 DEF Next, Finished

(* However large pages and blocks are, whatever calls are made and however *)
(* they have ended: a call that nothing disturbs, made when no write cycle *)
(* runs and the last acknowledge was not missing, succeeds, because every  *)
(* path leaves the bus free and the flags clear and each block waits for   *)
(* the write cycle before it.                                              *)
THEOREM UndisturbedSucceeds == Spec => []SucceedsUndisturbed
  <1>1. Init => TInv /\ CleanInv
    <2>1. Init => CleanInv
      <3> SUFFICES ASSUME Init PROVE CleanInv
        OBVIOUS
      <3>2. since <= faults
        BY DEF Init
      <3>3. FlagsClear /\ Clean
        BY DEF Init, FlagsClear, Clean, GetInfo
      <3>4. QED BY <3>2, <3>3 DEF CleanInv
    <2>2. QED BY <2>1, InitTInv
  <1>2. TInv /\ [Next]_vars => TInv'
    BY TInvStep
  <1>3. TInv /\ CleanInv /\ [Next]_vars => CleanInv'
    <2>1. SUFFICES ASSUME TInv, CleanInv, [Next]_vars PROVE CleanInv'
      OBVIOUS
    <2>2. since' <= faults' /\ FlagsClear'
      BY <2>1, SinceStep, FlagsStep DEF CleanInv
    <2>3. ASSUME Quiet' PROVE Clean'
      <3>1. CASE Step
        BY <2>1, <2>3, <3>1, BlockClean, PollClean, StopClean, PauseClean, TurnClean, EndClean, ElseClean DEF Step, Spin
      <3>2. QED BY <2>1, <2>3, <3>1, CallClean, ElseClean DEF Next, Finished
    <2>4. QED BY <2>2, <2>3 DEF CleanInv
  <1>4. TInv /\ CleanInv => SucceedsUndisturbed
    <2> SUFFICES ASSUME TInv, CleanInv, pc = "idle", ret # "none", Quiet, Short,
                        req.op \in {"read", "write"} => req.dev \in opened
                 PROVE  ret = "ok"
      BY DEF SucceedsUndisturbed, Quiet, Short
    <2>1. opened \subseteq handle
      BY DEF TInv, TypeOK
    <2>2. QED BY <2>1 DEF CleanInv, Clean
  <1>5. QED BY <1>1, <1>2, <1>3, <1>4, PTL DEF Spec

-----------------------------------------------------------------------------
(* A transfer has the effect that was asked for *)

LEMMA QuotientUnique ==
  ASSUME NEW q \in Int, NEW r \in Nat, NEW P \in Nat \ {0}, r < P
  PROVE  (q * P + r) \div P = q /\ (q * P + r) % P = r
  BY SMTT(30)

LEMMA ModSmall ==
  ASSUME NEW x \in Int, NEW P \in Nat \ {0}, - P < x, x < P
  PROVE  x % P = IF x >= 0 THEN x ELSE x + P
  <1>1. CASE x >= 0
    <2>1. (0 * P + x) % P = x
      BY <1>1, QuotientUnique
    <2>2. QED BY <1>1, <2>1
  <1>2. CASE x < 0
    <2>1. x + P \in Nat /\ x + P < P
      BY <1>2
    <2>2. ((0 - 1) * P + (x + P)) % P = x + P
      BY <2>1, QuotientUnique
    <2>3. (0 - 1) * P + (x + P) = x
      OBVIOUS
    <2>4. QED BY <1>2, <2>2, <2>3
  <1>3. QED BY <1>1, <1>2

LEMMA PageBounds ==
  ASSUME NEW a \in Nat, NEW P \in Nat \ {0}
  PROVE  \E p \in Int : \A x \in Nat : x \div P = a \div P => p <= x /\ x < p + P
  <1> DEFINE q == a \div P
  <1>1. q \in Int
    BY DivMod
  <1> HIDE DEF q
  <1>2. q * P \in Int
    BY <1>1
  <1>3. ASSUME NEW x \in Nat, x \div P = q PROVE q * P <= x /\ x < q * P + P
    <2>1. x = (x \div P) * P + (x % P) /\ x % P \in 0 .. P - 1
      BY DivMod
    <2>2. x = q * P + (x % P)
      BY <1>3, <2>1
    <2>3. QED BY <1>2, <2>1, <2>2
  <1>4. QED BY <1>2, <1>3 DEF q

(* The first and the last of n bytes sent to a that come to b. *)
FirstAt(P, a, b) == (b - a) % P
LastAt(P, a, n, b) == n - ((n - 1 - FirstAt(P, a, b)) % P)

(* They are the same within the n bytes, in the page from p. *)
LEMMA InThePage ==
  ASSUME NEW P \in Nat \ {0}, NEW p \in Int, NEW a \in Nat, NEW n \in Nat, NEW b \in Nat,
         p <= a, a + n - 1 < p + P, a <= b, b <= a + n - 1
  PROVE  FirstAt(P, a, b) = b - a /\ b - a < n /\ LastAt(P, a, n, b) = b - a + 1
  <1>1. PICK k \in Int : k = b - a
    OBVIOUS
  <1>2. PICK l \in Int : l = n - 1 - k
    BY <1>1
  <1>3. k % P = k
    <2>1. - P < k /\ k < P /\ k >= 0
      BY <1>1
    <2>2. QED BY <2>1, ModSmall
  <1>4. l % P = l
    <2>1. - P < l /\ l < P /\ l >= 0
      BY <1>1, <1>2
    <2>2. QED BY <2>1, ModSmall
  <1>5. FirstAt(P, a, b) = k
    BY <1>1, <1>3 DEF FirstAt
  <1>6. LastAt(P, a, n, b) = n - l
    BY <1>2, <1>4, <1>5 DEF LastAt
  <1>7. QED BY <1>1, <1>2, <1>5, <1>6

LEMMA BesideInThePage ==
  ASSUME NEW P \in Nat \ {0}, NEW p \in Int, NEW a \in Nat, NEW n \in Nat, NEW b \in Nat,
         n > 0, p <= a, a + n - 1 < p + P, p <= b, b < p + P, b < a \/ b > a + n - 1
  PROVE  FirstAt(P, a, b) >= n
  <1>1. PICK k \in Int : k = b - a
    OBVIOUS
  <1>2. k % P = IF k >= 0 THEN k ELSE k + P
    <2>1. - P < k /\ k < P
      BY <1>1
    <2>2. QED BY <2>1, ModSmall
  <1>3. QED BY <1>1, <1>2 DEF FirstAt

OnePage(a, n) == \A x \in a .. a + n - 1 : x \div PAGE = a \div PAGE

(* Data that stays within a page is programmed where it was sent to. *)
LEMMA ProgramInPage ==
  ASSUME NEW c \in [Byte -> Value], NEW a \in Byte, NEW data \in Seq(Value), Len(data) > 0,
         OnePage(a, Len(data))
  PROVE  AfterProgram(c, a, data) =
           [b \in Byte |-> IF b \in a .. a + Len(data) - 1 THEN data[b - a + 1] ELSE c[b]]
  <1> DEFINE First(b) == FirstAt(PAGE, a, b)
             Last(b) == LastAt(PAGE, a, Len(data), b)
  <1>1. PICK n \in Nat : n = Len(data)
    OBVIOUS
  <1>2. PAGE \in Nat \ {0} /\ n > 0 /\ a \in Nat
    BY <1>1, EepromAssumption, Constants DEF Byte
  <1>3. PICK p \in Int : \A x \in Nat : x \div PAGE = a \div PAGE => p <= x /\ x < p + PAGE
    BY <1>2, PageBounds
  <1>4. p <= a /\ a + n - 1 < p + PAGE
    <2>1. PICK z \in Nat : z = a + n - 1
      BY <1>2
    <2>2. z \in a .. a + Len(data) - 1
      BY <1>1, <1>2, <2>1
    <2>3. z \div PAGE = a \div PAGE
      BY <2>2, Zenon DEF OnePage
    <2>4. p <= a /\ z < p + PAGE
      BY <1>2, <1>3, <2>3, Zenon
    <2>5. QED BY <2>1, <2>4
  <1>5. ASSUME NEW b \in Byte
        PROVE  (IF b \div PAGE = a \div PAGE /\ First(b) < Len(data) THEN data[Last(b)] ELSE c[b])
               = IF b \in a .. a + Len(data) - 1 THEN data[b - a + 1] ELSE c[b]
    <2>0. b \in Nat
      BY Constants DEF Byte
    <2>1. CASE a <= b /\ b <= a + n - 1
      <3>0. b \in a .. a + Len(data) - 1
        BY <1>1, <1>2, <2>0, <2>1
      <3>1. b \div PAGE = a \div PAGE
        BY <3>0, Zenon DEF OnePage
      <3>2. FirstAt(PAGE, a, b) = b - a /\ b - a < n /\ LastAt(PAGE, a, n, b) = b - a + 1
        BY <1>2, <1>4, <2>0, <2>1, InThePage
      <3>3. First(b) < Len(data) /\ Last(b) = b - a + 1
        BY <1>1, <3>2
      <3> HIDE DEF First, Last
      <3>4. QED BY <3>0, <3>1, <3>3, Zenon
    <2>2. CASE b < a \/ b > a + n - 1
      <3>1. ASSUME b \div PAGE = a \div PAGE PROVE First(b) >= n
        BY <1>2, <1>3, <1>4, <2>0, <2>2, <3>1, BesideInThePage
      <3>2. First(b) \in Int
        BY <1>2, <2>0, DivMod DEF FirstAt
      <3> HIDE DEF First, Last
      <3>3. ~ (b \div PAGE = a \div PAGE /\ First(b) < Len(data))
        BY <1>1, <3>1, <3>2
      <3>4. b \notin a .. a + Len(data) - 1
        BY <1>1, <1>2, <2>0, <2>2
      <3>5. QED BY <3>3, <3>4, Zenon
    <2>3. QED BY <1>2, <2>0, <2>1, <2>2
  <1>6. AfterProgram(c, a, data) =
          [b \in Byte |-> IF b \div PAGE = a \div PAGE /\ First(b) < Len(data) THEN data[Last(b)] ELSE c[b]]
    BY DEF AfterProgram, FirstAt, LastAt
  <1> HIDE DEF First, Last
  <1>7. QED BY <1>5, <1>6, Zenon

(* Whole blocks lie before d. *)
Aligned(d) == \E m \in Nat : d = m * CHUNK

LEMMA BlockInPage ==
  ASSUME NEW r \in Request \cup {GetInfo}, ~ Reads(r), Contained(r),
         NEW d \in 0 .. Len(r.data), d < Len(r.data), IsMac(r) => d = 0, Aligned(d)
  PROVE  /\ r.offset + d \in Byte /\ (r.offset + d) % Size = r.offset + d
         /\ OnePage(r.offset + d, Len(ChunkOf(r, d)))
  <1>1. WellFormed(r) /\ CHUNK \in Nat \ {0} /\ Size \in Nat \ {0}
    BY RequestWellFormed, Constants
  <1>2. /\ r.offset \in Nat /\ r.len \in Nat /\ Len(r.data) = r.len /\ d \in Nat /\ d < r.len
        /\ r.op \in {"write", "i2cwrite", "macwrite"}
    BY <1>1 DEF WellFormed, Op, Reads
  <1>3. r.offset + r.len <= Size
    BY DEF Contained
  <1>4. PICK a \in Nat : a = r.offset + d
    BY <1>2
  <1>5. a < Size
    BY <1>1, <1>2, <1>3, <1>4
  <1>6. a \in Byte /\ a % Size = a
    <2>1. a \in Byte
      BY <1>1, <1>5 DEF Byte
    <2>2. PICK S \in Nat \ {0} : S = Size
      BY <1>1
    <2>3. - S < a /\ a < S /\ a >= 0 /\ a \in Int
      BY <1>5, <2>2
    <2>4. a % S = a
      BY <2>3, ModSmall
    <2>5. QED BY <2>1, <2>2, <2>4
  <1>7. PICK n \in Nat : /\ n = Len(ChunkOf(r, d)) /\ d + n <= r.len
                         /\ r.op # "macwrite" => n <= CHUNK
                         /\ r.op = "macwrite" => d = 0
    <2>1. Len(ChunkOf(r, d)) = IF IsMac(r) THEN Len(r.data) ELSE Min2(CHUNK, Len(r.data) - d)
      BY ChunkIsPart
    <2>2. IsMac(r) <=> r.op = "macwrite"
      BY <1>2 DEF IsMac
    <2>3. CASE IsMac(r)
      BY <1>1, <1>2, <2>1, <2>2, <2>3
    <2>4. CASE ~ IsMac(r)
      BY <1>1, <1>2, <2>1, <2>2, <2>4 DEF Min2
    <2>5. QED BY <2>3, <2>4
  <1>8. ASSUME NEW x \in a .. a + n - 1 PROVE x \div PAGE = a \div PAGE
    <2>1. PICK j \in Nat : j = x - a /\ j < n
      BY <1>4, <1>7
    <2>2. PICK i \in 1 .. Len(r.data) : i = d + j + 1
      BY <1>2, <1>7, <2>1
    <2>3. (IF r.op = "macwrite" THEN 1 ELSE ((i - 1) \div CHUNK) * CHUNK + 1) = d + 1
      <3>1. CASE r.op = "macwrite"
        BY <1>7, <3>1
      <3>2. CASE r.op # "macwrite"
        <4>1. PICK m \in Nat : d = m * CHUNK
          BY DEF Aligned
        <4>2. (m * CHUNK + j) \div CHUNK = m
          <5>1. j < CHUNK /\ m \in Int
            BY <1>1, <1>7, <2>1, <3>2
          <5>2. QED BY <1>1, <5>1, QuotientUnique
        <4>3. i - 1 = m * CHUNK + j
          BY <1>2, <2>1, <2>2, <4>1
        <4>4. QED BY <3>2, <4>1, <4>2, <4>3
      <3>3. QED BY <3>1, <3>2
    <2>4. (r.offset + i - 1) \div PAGE = (r.offset + (d + 1) - 1) \div PAGE
      BY <2>3, Zenon DEF Contained
    <2>5. r.offset + i - 1 = x /\ r.offset + (d + 1) - 1 = a
      <3>1. PICK o \in Nat : o = r.offset
        BY <1>2
      <3>2. x = a + j /\ a = o + d /\ i = d + j + 1 /\ d \in Nat /\ i \in Nat /\ x \in Int
        <4>1. x \in Int
          BY <1>4, <1>7
        <4>2. x = a + j
          BY <1>4, <2>1, <4>1
        <4>3. QED BY <1>2, <1>4, <2>2, <3>1, <4>1, <4>2
      <3>3. o + i - 1 = x /\ o + (d + 1) - 1 = a
        BY <3>2
      <3>4. QED BY <3>1, <3>3
    <2>6. QED BY <2>4, <2>5
  <1>9. QED BY <1>4, <1>6, <1>7, <1>8 DEF OnePage

(* The content after the first k bytes of r have come to their place. *)
Wrote(c, r, k) ==
  [c EXCEPT ![r.dev] = [b \in Byte |-> IF b \in r.offset .. r.offset + k - 1 THEN r.data[b - r.offset + 1] ELSE @[b]]]

LEMMA WrittenNow ==
  /\ \A k : WrittenUpTo(k) <=> cells = Wrote(before, req, k)
  /\ \A k : WrittenUpTo(k)' <=> cells' = Wrote(before', req', k)
  BY DEF WrittenUpTo, Wrote

LEMMA BlockProgram ==
  ASSUME NEW r \in Request \cup {GetInfo}, ~ Reads(r), Contained(r),
         NEW d \in 0 .. Len(r.data), d < Len(r.data), IsMac(r) => d = 0, Aligned(d),
         NEW c0 \in [Devices -> [Byte -> Value]], NEW c, c = Wrote(c0, r, d)
  PROVE  [c EXCEPT ![r.dev] = AfterProgram(@, (r.offset + d) % Size, ChunkOf(r, d))]
         = Wrote(c0, r, d + Len(ChunkOf(r, d)))
  <1>1. WellFormed(r) /\ r.dev \in Devices
    BY RequestWellFormed DEF WellFormed
  <1>2. PICK a \in Byte : a = r.offset + d
    BY BlockInPage
  <1>3. PICK chunk \in Seq(Value) : chunk = ChunkOf(r, d)
    BY ChunkIsPart
  <1>0. (r.offset + d) % Size = a /\ OnePage(a, Len(chunk))
    BY <1>2, <1>3, BlockInPage
  <1>4. Len(chunk) > 0
    BY <1>3, BlockLength
  <1>5. /\ r.offset \in Nat /\ d \in Nat /\ a \in Nat /\ Len(chunk) \in Nat
        /\ \A i \in 1 .. Len(chunk) : chunk[i] = r.data[d + i]
    <2>1. r.offset \in Nat /\ d \in Nat /\ Len(chunk) \in Nat /\ a \in Nat
      BY <1>1, <1>2 DEF WellFormed
    <2>2. \A i \in 1 .. Len(chunk) : chunk[i] = r.data[d + i]
      <3>1. CASE IsMac(r)
        BY <1>3, <2>1, <3>1 DEF ChunkOf
      <3>2. CASE ~ IsMac(r)
        BY <1>3, <3>2, ChunkIsPart
      <3>3. QED BY <3>1, <3>2
    <2>3. QED BY <2>1, <2>2
  <1> DEFINE old == c0[r.dev]
             mid == [b \in Byte |-> IF b \in r.offset .. r.offset + d - 1 THEN r.data[b - r.offset + 1] ELSE old[b]]
             new == [b \in Byte |-> IF b \in r.offset .. r.offset + (d + Len(chunk)) - 1
                                    THEN r.data[b - r.offset + 1] ELSE old[b]]
  <1>6. c[r.dev] = mid /\ c = [c0 EXCEPT ![r.dev] = mid]
    BY <1>1 DEF Wrote
  <1>7. Wrote(c0, r, d + Len(chunk)) = [c0 EXCEPT ![r.dev] = new]
    BY <1>1 DEF Wrote
  <1>8. mid \in [Byte -> Value]
    <2>1. ASSUME NEW b \in Byte, b \in r.offset .. r.offset + d - 1 PROVE r.data[b - r.offset + 1] \in Value
      <3>1. b - r.offset + 1 \in 1 .. Len(r.data)
        BY <1>1, <1>5, <2>1, Constants DEF WellFormed, Byte
      <3>2. QED BY <1>1, <3>1 DEF WellFormed
    <2>2. old \in [Byte -> Value]
      BY <1>1
    <2>3. QED BY <2>1, <2>2
  <1> HIDE DEF mid, new
  <1>9. AfterProgram(mid, a, chunk) = [b \in Byte |-> IF b \in a .. a + Len(chunk) - 1 THEN chunk[b - a + 1] ELSE mid[b]]
    BY <1>0, <1>4, <1>8, ProgramInPage
  <1>10. ASSUME NEW b \in Byte
         PROVE  (IF b \in a .. a + Len(chunk) - 1 THEN chunk[b - a + 1] ELSE mid[b]) = new[b]
    <2> USE DEF mid, new
    <2>0. b \in Nat
      BY Constants DEF Byte
    <2>1. CASE b \in a .. a + Len(chunk) - 1
      <3>1. chunk[b - a + 1] = r.data[d + (b - a + 1)]
        BY <1>5, <2>0, <2>1
      <3>2. d + (b - a + 1) = b - r.offset + 1 /\ b \in r.offset .. r.offset + (d + Len(chunk)) - 1
        BY <1>2, <1>5, <2>0, <2>1
      <3>3. QED BY <2>1, <3>1, <3>2
    <2>2. CASE b \notin a .. a + Len(chunk) - 1
      <3>1. b \in r.offset .. r.offset + d - 1 <=> b \in r.offset .. r.offset + (d + Len(chunk)) - 1
        <4>1. PICK n \in Nat : n = Len(chunk)
          BY <1>5
        <4>2. PICK o \in Nat : o = r.offset
          BY <1>5
        <4>3. (b < a \/ b > a + n - 1) /\ a = o + d
          BY <1>2, <1>5, <2>0, <2>2, <4>1, <4>2
        <4>4. b \in o .. o + d - 1 <=> b \in o .. o + (d + n) - 1
          BY <1>5, <2>0, <4>3
        <4>5. QED BY <4>1, <4>2, <4>4
      <3>2. QED BY <2>2, <3>1
    <2>3. QED BY <2>1, <2>2
  <1>11. AfterProgram(mid, a, chunk) = new
    BY <1>9, <1>10 DEF new
  <1>12. [c EXCEPT ![r.dev] = AfterProgram(@, a, chunk)] = [c0 EXCEPT ![r.dev] = new]
    BY <1>1, <1>6, <1>11
  <1>13. QED BY <1>0, <1>3, <1>7, <1>12

LEMMA WroteNothing ==
  ASSUME NEW r \in Request \cup {GetInfo}, NEW c \in [Devices -> [Byte -> Value]]
  PROVE  Wrote(c, r, 0) = c
  <1>1. r.dev \in Devices /\ r.offset \in Nat
    BY RequestWellFormed DEF WellFormed
  <1> DEFINE f == [b \in Byte |-> IF b \in r.offset .. r.offset + 0 - 1 THEN r.data[b - r.offset + 1] ELSE c[r.dev][b]]
  <1>2. \A b \in Byte : b \notin r.offset .. r.offset + 0 - 1
    BY <1>1, Constants DEF Byte
  <1>3. f = c[r.dev]
    BY <1>1, <1>2
  <1>4. Wrote(c, r, 0) = [c EXCEPT ![r.dev] = f]
    BY <1>1 DEF Wrote
  <1> HIDE DEF f
  <1>5. QED BY <1>1, <1>3, <1>4

(* What has been read and written so far, at each place of the driver.     *)
(* Until its block is stopped a write has written the blocks before, or    *)
(* fewer if a byte was not acknowledged; the next poll then sees NACK, or  *)
(* the block was the last one.                                             *)
Partly == \E k \in 0 .. done : WrittenUpTo(k)

ReadSoFar ==
  /\ cells = before
  /\ ~ early => /\ \A i \in 1 .. Len(got) : got[i] = Stored(i - 1)
                /\ pc \in {"recv", "dummy", "macrecv", "macsample"} => out = Len(got)

WrittenSoFar ==
  /\ ~ writable => cells = before
  /\ writable => /\ pc \in {"busy", "send", "sample"} => WrittenUpTo(done) \/ (nack /\ Partly)
                 /\ pc = "stop" => WrittenUpTo(done)
                 /\ pc = "pause" => WrittenUpTo(done + Len(ChunkData)) \/ (WrittenUpTo(done) /\ nack /\ unseen)

Effect == pc # "idle" /\ Contained(req) => IF Reads(req) THEN ReadSoFar ELSE WrittenSoFar

(* The EEPROM listens, or has not acknowledged the last byte. *)
Line == pc \in {"send", "sample", "stop"} => link = "recv" \/ (link = "deaf" /\ nack)

Shape ==
  /\ before \in [Devices -> [Byte -> Value]]
  /\ Line
  /\ pc # "idle" /\ ~ Reads(req) => Aligned(done)

EInv == TInv /\ Shape /\ Effect /\ TransfersExact

LEMMA InitEInv == Init => EInv
  <1> SUFFICES ASSUME Init PROVE EInv
    OBVIOUS
  <1>1. TInv
    BY InitTInv
  <1>2. pc = "idle" /\ ret = "none" /\ before = cells
    BY DEF Init
  <1>3. cells \in [Devices -> [Byte -> Value]]
    BY <1>1, Flags
  <1>4. QED BY <1>1, <1>2, <1>3 DEF EInv, Shape, Line, Effect, TransfersExact

(* A step that changes nothing that the effect depends on. *)
LEMMA SameEffect ==
  ASSUME EInv, UNCHANGED <<pc, req, done, cells, before, writable, early, got, out, unseen, nack, link>>,
         ret' = ret \/ pc # "idle"
  PROVE  Shape' /\ Effect' /\ TransfersExact'
  <1>1. /\ Reads(req') = Reads(req) /\ Contained(req') = Contained(req) /\ Aligned(done') = Aligned(done)
        /\ ChunkData' = ChunkData
    BY BlockStays DEF Contained
  <1>2. Shape'
    BY <1>1 DEF EInv, Shape, Line
  <1>3. \A k : WrittenUpTo(k)' <=> WrittenUpTo(k)
    BY DEF WrittenUpTo
  <1>4. \A k : Stored(k)' = Stored(k)
    BY DEF Stored
  <1>5. ReadSoFar' = ReadSoFar
    BY <1>4 DEF ReadSoFar
  <1>6. WrittenSoFar' = WrittenSoFar
    BY <1>1, <1>3 DEF WrittenSoFar, Partly
  <1>7. Effect'
    BY <1>1, <1>5, <1>6 DEF EInv, Effect
  <1>8. TransfersExact'
    BY <1>1, <1>3, <1>4 DEF EInv, TransfersExact
  <1>9. QED BY <1>2, <1>7, <1>8

LEMMA SendEffect ==
  ASSUME EInv, Begin \/ Send \/ MacSend
  PROVE  Shape' /\ Effect' /\ TransfersExact'
  <1>1. /\ pc \in {"busy", "send", "sample"} /\ pc' \in {"send", "sample", "turn", "stop"}
        /\ pc' = "stop" => pc = "send" /\ ~ nack
        /\ pc' = "turn" => Reads(req)
        /\ UNCHANGED <<req, done, got, cells, before, writable, early, unseen>>
        /\ Hears(pc = "busy")
    <2>1. CASE Begin
      BY <2>1, Zenon DEF Begin, Goto, obs
    <2>2. CASE Send
      BY <2>2, Zenon DEF Send, Goto, obs
    <2>3. CASE MacSend
      BY <2>3, Zenon DEF MacSend, Goto, obs
    <2>4. QED BY <2>1, <2>2, <2>3
  <1>2. (pc = "busy") \in BOOLEAN
    OBVIOUS
  <1>3. (nack => nack') /\ (link' = "recv" \/ (link' = "deaf" /\ nack'))
    BY <1>1, <1>2, HearsCases, Zenon
  <1>4. Reads(req') = Reads(req) /\ (Contained(req') <=> Contained(req)) /\ (Aligned(done') <=> Aligned(done))
    BY <1>1 DEF Reads
  <1>5. Shape'
    BY <1>1, <1>3, <1>4 DEF EInv, Shape, Line
  <1>6. \A k : WrittenUpTo(k)' <=> WrittenUpTo(k)
    BY <1>1 DEF WrittenUpTo
  <1>7. Partly' <=> Partly
    BY <1>1, <1>6 DEF Partly
  <1>8. Effect'
    <2> SUFFICES ASSUME Contained(req) PROVE IF Reads(req) THEN ReadSoFar' ELSE WrittenSoFar'
      BY <1>4 DEF Effect
    <2>1. IF Reads(req) THEN ReadSoFar ELSE WrittenSoFar
      BY <1>1 DEF EInv, Effect
    <2>2. CASE Reads(req)
      <3>1. got' = <<>>
        BY <1>1 DEF EInv, TInv, Position
      <3>2. QED BY <1>1, <2>1, <2>2, <3>1 DEF ReadSoFar
    <2>3. CASE ~ Reads(req)
      <3>2. WrittenUpTo(done)' <=> WrittenUpTo(done)
        BY <1>1 DEF WrittenUpTo
      <3>3. WrittenSoFar
        BY <2>1, <2>3
      <3>4. CASE ~ writable
        BY <1>1, <2>3, <3>3, <3>4 DEF WrittenSoFar
      <3>5. CASE writable
        <4>1. WrittenUpTo(done) \/ (nack /\ Partly)
          BY <1>1, <3>3, <3>5 DEF WrittenSoFar
        <4>2. pc' \in {"send", "sample", "stop"} /\ (pc' = "stop" => ~ nack)
          BY <1>1, <2>3
        <4>3. WrittenUpTo(done)' \/ (nack' /\ Partly')
          BY <1>3, <1>7, <3>2, <4>1, Zenon
        <4>4. pc' = "stop" => WrittenUpTo(done)'
          BY <3>2, <4>1, <4>2, Zenon
        <4>5. writable' = writable
          BY <1>1
        <4>6. QED BY <2>3, <3>5, <4>2, <4>3, <4>4, <4>5 DEF WrittenSoFar
      <3>6. QED BY <2>3, <3>4, <3>5
    <2>4. QED BY <2>2, <2>3
  <1>9. TransfersExact'
    BY <1>1 DEF TransfersExact
  <1>10. QED BY <1>5, <1>8, <1>9

(* The steps of a read after its address has been sent. *)
LEMMA ReadEffect ==
  ASSUME EInv, pc' \notin {"idle", "busy", "send", "sample", "stop", "pause"}, pc # "idle",
         Reads(req) \/ pc' = "spin",
         UNCHANGED <<req, done, cells, before, writable>>, early => early',
         ~ early' => /\ \A i \in 1 .. Len(got') : got'[i] = Stored(i - 1)
                     /\ pc' \in {"recv", "dummy", "macrecv", "macsample"} => out' = Len(got')
  PROVE  Shape' /\ Effect' /\ TransfersExact'
  <1>1. Reads(req') = Reads(req) /\ (Contained(req') <=> Contained(req)) /\ (Aligned(done') <=> Aligned(done))
    BY DEF Reads
  <1>2. Shape'
    BY <1>1 DEF EInv, Shape, Line
  <1>3. \A k : Stored(k)' = Stored(k)
    BY DEF Stored
  <1>4. Effect'
    <2> SUFFICES ASSUME Contained(req) PROVE IF Reads(req) THEN ReadSoFar' ELSE WrittenSoFar'
      BY <1>1 DEF Effect
    <2>1. IF Reads(req) THEN ReadSoFar ELSE WrittenSoFar
      BY DEF EInv, Effect
    <2>2. CASE Reads(req)
      BY <1>3, <2>1, <2>2 DEF ReadSoFar
    <2>3. CASE ~ Reads(req)
      <3>1. WrittenSoFar /\ pc' = "spin"
        BY <2>1, <2>3
      <3>2. QED BY <2>3, <3>1 DEF WrittenSoFar
    <2>4. QED BY <2>2, <2>3
  <1>5. TransfersExact'
    BY DEF TransfersExact
  <1>6. QED BY <1>2, <1>4, <1>5

(* A stop condition programs the block, if the EEPROM has heard all of it. *)
LEMMA StopProgram ==
  ASSUME EInv, StopWrite, pc # "idle", ~ Reads(req), sent = Len(Block), done < Len(req.data)
  PROVE  /\ ~ (link = "recv" /\ writable) => cells' = cells
         /\ link = "recv" /\ writable /\ Contained(req) /\ WrittenUpTo(done)
              => cells' = Wrote(before, req, done + Len(ChunkData))
  <1>1. ~ (link = "recv" /\ writable) => cells' = cells
    BY DEF StopWrite
  <1>2. ASSUME link = "recv", writable, Contained(req), WrittenUpTo(done)
        PROVE  cells' = Wrote(before, req, done + Len(ChunkData))
    <2>0. TInv /\ Aligned(done) /\ before \in [Devices -> [Byte -> Value]] /\ (IsMac(req) => done = 0)
      BY DEF EInv, Shape, TInv, Position
    <2>1. sent > 2
      BY <2>0, Lengths
    <2>2. cells' = [cells EXCEPT ![req.dev] = AfterProgram(@, (req.offset + done) % Size, ChunkData)]
      BY <1>2, <2>1 DEF StopWrite
    <2>3. cells = Wrote(before, req, done) /\ ChunkData = ChunkOf(req, done)
      BY <1>2, WrittenNow, BlockNow
    <2>4. req \in Request \cup {GetInfo} /\ done \in 0 .. Len(req.data)
      BY <2>0, Lengths
    <2>5. [cells EXCEPT ![req.dev] = AfterProgram(@, (req.offset + done) % Size, ChunkOf(req, done))]
          = Wrote(before, req, done + Len(ChunkOf(req, done)))
      BY <1>2, <2>0, <2>3, <2>4, BlockProgram
    <2>6. QED BY <2>2, <2>3, <2>5
  <1>3. QED BY <1>1, <1>2

LEMMA StopEffect ==
  ASSUME EInv, Stop
  PROVE  Shape' /\ Effect' /\ TransfersExact'
  <1>1. /\ pc = "stop" /\ pc' = "pause" /\ StopWrite /\ UNCHANGED <<req, done, before, writable, nack>>
        /\ unseen' = (unseen \/ link = "deaf")
    BY DEF Stop, Goto
  <1>2. ~ Reads(req) /\ sent = Len(Block) /\ done < Len(req.data) /\ (link = "recv" \/ (link = "deaf" /\ nack))
    BY <1>1 DEF EInv, TInv, Position, Shape, Line
  <1>3. /\ Reads(req') = Reads(req) /\ (Contained(req') <=> Contained(req)) /\ (Aligned(done') <=> Aligned(done))
        /\ ChunkData' = ChunkData
    BY <1>1, BlockStays
  <1>4. Shape'
    BY <1>1, <1>3 DEF EInv, Shape, Line
  <1>5. Effect'
    <2> SUFFICES ASSUME Contained(req) PROVE WrittenSoFar'
      BY <1>2, <1>3 DEF Effect
    <2>1. WrittenSoFar
      BY <1>1, <1>2 DEF EInv, Effect
    <2>2. CASE ~ writable
      BY <1>1, <1>2, <2>1, <2>2, StopProgram DEF WrittenSoFar
    <2>3. CASE writable
      <3>1. WrittenUpTo(done)
        BY <1>1, <2>1, <2>3 DEF WrittenSoFar
      <3>2. CASE link = "recv"
        <4>1. cells' = Wrote(before, req, done + Len(ChunkData))
          BY <1>1, <1>2, <2>3, <3>1, <3>2, StopProgram
        <4>2. WrittenUpTo(done + Len(ChunkData))'
          BY <1>1, <1>3, <4>1 DEF WrittenUpTo, Wrote
        <4>3. QED BY <1>1, <2>3, <4>2 DEF WrittenSoFar
      <3>3. CASE link = "deaf" /\ nack
        <4>1. cells' = cells
          BY <1>1, <1>2, <3>3, StopProgram
        <4>2. WrittenUpTo(done)'
          BY <1>1, <3>1, <4>1 DEF WrittenUpTo
        <4>3. nack' /\ unseen'
          BY <1>1, <3>3
        <4>4. QED BY <1>1, <2>3, <4>2, <4>3 DEF WrittenSoFar
      <3>4. QED BY <1>2, <3>2, <3>3
    <2>4. QED BY <2>2, <2>3
  <1>6. TransfersExact'
    BY <1>1 DEF TransfersExact
  <1>7. QED BY <1>4, <1>5, <1>6

(* A write returns: some leading part is written, and all of it if it      *)
(* succeeds, but for a last block whose end was not acknowledged.          *)
LEMMA WriteReturns ==
  ASSUME EInv, NEW result \in {"ok", "nack", "timeout"}, Return(result), pc # "idle", ~ Reads(req),
         writable' = writable,
         Contained(req) /\ ~ writable => cells' = before,
         Contained(req) /\ writable =>
           \E k \in 0 .. req.len : /\ cells' = Wrote(before, req, k)
                                   /\ result = "ok" => k = req.len \/ (unseen' /\ k + CHUNK >= req.len)
  PROVE  Shape' /\ Effect' /\ TransfersExact'
  <1>1. /\ pc' = "idle" /\ ret' = result /\ req' = req /\ before' = before
        /\ Reads(req') = Reads(req) /\ (Contained(req') <=> Contained(req))
    BY DEF Return, Reads
  <1>2. Shape'
    BY <1>1 DEF EInv, Shape, Line
  <1>3. Effect'
    BY <1>1 DEF Effect
  <1>4. TransfersExact'
    <2> SUFFICES ASSUME Contained(req)
                 PROVE  \E k \in 0 .. req.len :
                          /\ WrittenUpTo(k)'
                          /\ (ret' = "ok" /\ writable') => k = req.len \/ (unseen' /\ k + CHUNK >= req.len)
      BY <1>1 DEF TransfersExact
    <2>1. \A k : WrittenUpTo(k)' <=> cells' = Wrote(before, req, k)
      BY <1>1 DEF WrittenUpTo, Wrote
    <2>2. CASE ~ writable
      <3>1. Wrote(before, req, 0) = before
        BY WroteNothing, Lengths DEF EInv, Shape
      <3>2. WrittenUpTo(0)' /\ ~ writable'
        BY <2>1, <2>2, <3>1
      <3>3. 0 \in 0 .. req.len
        BY Lengths DEF EInv, WellFormed
      <3>4. QED BY <3>2, <3>3
    <2>3. CASE writable
      BY <1>1, <2>1, <2>3
    <2>4. QED BY <2>2, <2>3
  <1>5. QED BY <1>2, <1>3, <1>4

(* A read returns: if it succeeds, and never took a byte too early, it has *)
(* what is stored.                                                         *)
LEMMA ReadReturns ==
  ASSUME EInv, NEW result \in {"ok", "nack", "timeout"}, Return(result), pc # "idle", Reads(req),
         cells' = cells, got' = got, early' = early,
         result = "ok" => Len(got) = req.len
  PROVE  Shape' /\ Effect' /\ TransfersExact'
  <1>1. /\ pc' = "idle" /\ ret' = result /\ req' = req /\ before' = before
        /\ Reads(req') = Reads(req) /\ (Contained(req') <=> Contained(req))
    BY DEF Return, Reads
  <1>2. Shape'
    BY <1>1 DEF EInv, Shape, Line
  <1>3. Effect'
    BY <1>1 DEF Effect
  <1>4. TransfersExact'
    <2> SUFFICES ASSUME Contained(req)
                 PROVE  /\ cells' = before
                        /\ (ret' = "ok" /\ ~ early') => got' = [k \in 1 .. req.len |-> Stored(k - 1)']
      BY <1>1 DEF TransfersExact
    <2>1. ReadSoFar
      BY DEF EInv, Effect
    <2>2. ASSUME result = "ok", ~ early PROVE got = [k \in 1 .. req.len |-> Stored(k - 1)]
      <3>1. \A i \in 1 .. Len(got) : got[i] = Stored(i - 1)
        BY <2>1, <2>2 DEF ReadSoFar
      <3>2. got \in Seq(Value) /\ Len(got) = req.len
        BY <2>2 DEF EInv, TInv, TypeOK
      <3>3. got = [i \in 1 .. Len(got) |-> got[i]]
        BY <3>2
      <3>4. QED BY <3>1, <3>2, <3>3
    <2>3. \A k : Stored(k)' = Stored(k)
      BY <1>1 DEF Stored
    <2>4. QED BY <1>1, <2>1, <2>2, <2>3 DEF ReadSoFar
  <1>5. QED BY <1>2, <1>3, <1>4

LEMMA FailEffect ==
  ASSUME EInv, NEW result \in {"nack", "timeout"}, Fail(result), writable' = writable,
         pc \in {"busy", "send", "stop", "recv", "dummy", "sample", "macsample"}
  PROVE  Shape' /\ Effect' /\ TransfersExact'
  <1>1. Return(result) /\ done' = done /\ got' = got /\ cells' = cells /\ early' = early
    BY DEF Fail, chip
  <1>2. result \in {"ok", "nack", "timeout"} /\ result # "ok" /\ pc # "idle"
    OBVIOUS
  <1>3. CASE Reads(req)
    BY <1>1, <1>2, <1>3, ReadReturns
  <1>4. CASE ~ Reads(req)
    <2>1. pc \in {"busy", "send", "stop", "sample"}
      BY <1>4 DEF EInv, TInv, Position
    <2>2. Contained(req) => WrittenSoFar
      BY <1>2, <1>4 DEF EInv, Effect
    <2>3. Contained(req) /\ ~ writable => cells' = before
      BY <1>1, <2>2 DEF WrittenSoFar
    <2>4. ASSUME Contained(req), writable
          PROVE  \E k \in 0 .. req.len : cells' = Wrote(before, req, k)
      <3>1. done \in 0 .. done /\ (\A k \in 0 .. done : k \in 0 .. req.len)
        BY <1>4, Lengths DEF EInv, WellFormed
      <3>2. WrittenUpTo(done) \/ Partly
        BY <2>1, <2>2, <2>4 DEF WrittenSoFar
      <3>3. PICK k \in 0 .. done : WrittenUpTo(k)
        BY <3>1, <3>2 DEF Partly
      <3>4. cells = Wrote(before, req, k)
        BY <3>3, WrittenNow
      <3>5. QED BY <1>1, <3>1, <3>4
    <2>5. QED BY <1>1, <1>2, <1>4, <2>3, <2>4, WriteReturns
  <1>5. QED BY <1>3, <1>4

LEMMA PollEffect ==
  ASSUME EInv, BusPoll \/ Wait \/ Nack
  PROVE  Shape' /\ Effect' /\ TransfersExact'
  <1>1. /\ pc \in {"busy", "send", "stop", "recv", "dummy", "sample", "macsample"} /\ writable' = writable
        /\ \/ UNCHANGED <<pc, req, done, cells, before, writable, early, got, out, unseen, nack, link, ret>>
           \/ Fail("timeout")
           \/ Fail("nack")
    <2>1. CASE BusPoll
      BY <2>1, Zenon DEF BusPoll, Goto, chip, obs
    <2>2. CASE Wait
      BY <2>2, Zenon DEF Wait, Goto, chip, obs
    <2>3. CASE Nack
      BY <2>3, Zenon DEF Nack
    <2>4. QED BY <2>1, <2>2, <2>3
  <1>2. CASE UNCHANGED <<pc, req, done, cells, before, writable, early, got, out, unseen, nack, link, ret>>
    BY <1>2, SameEffect
  <1>3. CASE Fail("timeout")
    BY <1>1, <1>3, FailEffect
  <1>4. CASE Fail("nack")
    BY <1>1, <1>4, FailEffect
  <1>5. QED BY <1>1, <1>2, <1>3, <1>4

LEMMA PauseEffect ==
  ASSUME EInv, Pause
  PROVE  Shape' /\ Effect' /\ TransfersExact'
  <1>1. /\ pc = "pause" /\ done' = done + Len(ChunkData) /\ UNCHANGED <<cells, nack, writable, unseen>>
        /\ \/ done' < Len(req.data) /\ pc' = "busy" /\ UNCHANGED <<req, before>>
           \/ done' = Len(req.data) /\ Return("ok")
    BY Zenon DEF Pause, Goto, chip
  <1>2. ~ Reads(req) /\ ~ IsMac(req) /\ done < Len(req.data) /\ Aligned(done)
    BY <1>1 DEF EInv, TInv, Position, Shape
  <1>3. PICK n \in Nat : n = Len(ChunkData) /\ n = Min2(CHUNK, Len(req.data) - done)
    BY <1>2, Lengths, ChunkIsPart, BlockNow DEF EInv
  <1>4. /\ Len(req.data) = req.len /\ req.len \in Nat /\ done \in Nat /\ done <= req.len
        /\ CHUNK \in Nat
    BY <1>2, Lengths, Constants DEF EInv, WellFormed
  <1>5. Contained(req) => WrittenSoFar
    BY <1>1, <1>2 DEF EInv, Effect
  <1>6. Contained(req) /\ ~ writable => cells = before
    BY <1>5 DEF WrittenSoFar
  <1>7. Contained(req) /\ writable =>
          cells = Wrote(before, req, done + n) \/ (cells = Wrote(before, req, done) /\ nack /\ unseen)
    BY <1>1, <1>3, <1>5, WrittenNow DEF WrittenSoFar
  <1>8. CASE done' = Len(req.data) /\ Return("ok")
    <2>1. done + n \in 0 .. req.len /\ done \in 0 .. req.len /\ done + n = req.len /\ done + CHUNK >= req.len
      BY <1>1, <1>3, <1>4, <1>8 DEF Min2
    <2>2. ASSUME Contained(req), writable
          PROVE  \E k \in 0 .. req.len : cells' = Wrote(before, req, k) /\ (k = req.len \/ (unseen' /\ k + CHUNK >= req.len))
      <3>1. cells' = cells /\ unseen' = unseen
        BY <1>1
      <3>2. CASE cells = Wrote(before, req, done + n)
        BY <2>1, <3>1, <3>2
      <3>3. CASE cells = Wrote(before, req, done) /\ nack /\ unseen
        BY <2>1, <3>1, <3>3
      <3>4. QED BY <1>7, <2>2, <3>2, <3>3
    <2>3. cells' = cells /\ writable' = writable /\ pc # "idle"
      BY <1>1
    <2>4. QED BY <1>2, <1>6, <1>8, <2>2, <2>3, WriteReturns
  <1>9. CASE done' < Len(req.data) /\ pc' = "busy" /\ UNCHANGED <<req, before>>
    <2>1. n = CHUNK /\ done' = done + CHUNK
      BY <1>1, <1>3, <1>4, <1>9 DEF Min2
    <2>2. Aligned(done')
      <3>1. PICK m \in Nat : done = m * CHUNK
        BY <1>2 DEF Aligned
      <3>2. (m + 1) * CHUNK = m * CHUNK + CHUNK
        BY <1>4
      <3>3. done' = (m + 1) * CHUNK /\ m + 1 \in Nat
        BY <2>1, <3>1, <3>2
      <3>4. QED BY <3>3 DEF Aligned
    <2>3. /\ Reads(req') = Reads(req) /\ (Contained(req') <=> Contained(req))
      BY <1>9 DEF Reads
    <2>4. Aligned(done)'
      BY <2>2
    <2>5. Shape'
      BY <1>9, <2>4 DEF EInv, Shape, Line
    <2>6. \A k : WrittenUpTo(k)' <=> cells = Wrote(before, req, k)
      BY <1>1, <1>9 DEF WrittenUpTo, Wrote
    <2>7. Effect'
      <3> SUFFICES ASSUME Contained(req) PROVE WrittenSoFar'
        BY <1>2, <2>3 DEF Effect
      <3>1. CASE ~ writable
        BY <1>1, <1>6, <1>9, <3>1 DEF WrittenSoFar
      <3>2. CASE writable
        <4>1. WrittenUpTo(done)' <=> cells = Wrote(before, req, done + n)
          BY <1>1, <1>3, <1>9 DEF WrittenUpTo, Wrote
        <4>2. ASSUME cells = Wrote(before, req, done) PROVE Partly'
          <5>1. done \in 0 .. done'
            BY <1>4, <2>1
          <5>2. WrittenUpTo(done) => \E k \in 0 .. done' : cells' = Wrote(before', req', k)
            BY <1>1, <1>9, <4>2, <5>1
          <5>3. WrittenUpTo(done)
            BY <4>2, WrittenNow
          <5>4. PICK k \in 0 .. done' : cells' = Wrote(before', req', k)
            BY <5>2, <5>3
          <5>5. WrittenUpTo(k)'
            BY <5>4 DEF WrittenUpTo, Wrote
          <5>6. QED BY <5>5 DEF Partly
        <4>3. nack' = nack
          BY <1>1
        <4>4. WrittenUpTo(done)' \/ (nack' /\ Partly')
          BY <1>7, <3>2, <4>1, <4>2, <4>3, Zenon
        <4>5. QED BY <1>1, <1>9, <3>2, <4>4 DEF WrittenSoFar
      <3>3. QED BY <3>1, <3>2
    <2>8. TransfersExact'
      BY <1>9 DEF TransfersExact
    <2>9. QED BY <2>5, <2>7, <2>8
  <1>10. QED BY <1>1, <1>8, <1>9

LEMMA ReceiveEffect ==
  ASSUME EInv, Turn \/ Receive \/ MacReceive \/ MacReceived \/ MacLate
  PROVE  Shape' /\ Effect' /\ TransfersExact'
  <1>1. /\ UNCHANGED <<req, done, cells, before, writable>>
        /\ \/ pc = "turn" /\ pc' \in {"recv", "macrecv"} /\ out' = 0 /\ got' = got /\ early' = early
           \/ /\ pc \in {"recv", "macrecv"} /\ pc' \in {"recv", "dummy", "macsample"}
              /\ got' = Append(got, Stored(out)) /\ out' = out + 1 /\ early' = early
           \/ pc = "macrecv" /\ pc' = "macsample" /\ early' = TRUE
           \/ pc = "macsample" /\ pc' \in {"macrecv", "dummy"} /\ out' = out /\ got' = got /\ early' = early
           \/ pc \in {"sample", "macsample"} /\ pc' = "spin" /\ out' = out /\ got' = got /\ early' = early
    <2>1. CASE Turn
      BY <2>1, Zenon DEF Turn, Goto, obs
    <2>2. CASE Receive
      BY <2>2, Zenon DEF Receive, Goto, obs
    <2>3. CASE MacReceive
      BY <2>3, Zenon DEF MacReceive, Goto
    <2>4. CASE MacReceived
      BY <2>4, Zenon DEF MacReceived, Goto, chip, obs
    <2>5. CASE MacLate
      BY <2>5, Zenon DEF MacLate, Goto, chip, obs
    <2>6. QED BY <2>1, <2>2, <2>3, <2>4, <2>5
  <1>2. /\ pc # "idle" /\ pc' \notin {"idle", "busy", "send", "sample", "stop", "pause"}
        /\ Reads(req) \/ pc' = "spin"
        /\ early => early'
    BY <1>1 DEF EInv, TInv, Position
  <1>3. got \in Seq(Value) /\ out \in Nat /\ Stored(out) \in Value
    BY StoredType DEF EInv, TInv, TypeOK
  <1>4. CASE Contained(req) /\ Reads(req)
    <2>1. ReadSoFar
      BY <1>2, <1>4 DEF EInv, Effect
    <2>2. ASSUME ~ early'
          PROVE  /\ \A i \in 1 .. Len(got') : got'[i] = Stored(i - 1)
                 /\ pc' \in {"recv", "dummy", "macrecv", "macsample"} => out' = Len(got')
      <3>1. CASE pc = "turn" /\ pc' \in {"recv", "macrecv"} /\ out' = 0 /\ got' = got
        <4>1. got = <<>>
          BY <3>1 DEF EInv, TInv, Position
        <4>2. QED BY <3>1, <4>1
      <3>2. CASE /\ pc \in {"recv", "macrecv"} /\ got' = Append(got, Stored(out)) /\ out' = out + 1
        <4>1. out = Len(got) /\ \A i \in 1 .. Len(got) : got[i] = Stored(i - 1)
          BY <1>2, <2>1, <2>2, <3>2 DEF ReadSoFar
        <4>2. /\ Len(got') = Len(got) + 1 /\ got'[Len(got) + 1] = Stored(Len(got))
              /\ \A i \in 1 .. Len(got) : got'[i] = got[i]
          BY <1>3, <3>2, <4>1
        <4>3. ASSUME NEW i \in 1 .. Len(got') PROVE got'[i] = Stored(i - 1)
          <5>1. CASE i \in 1 .. Len(got)
            BY <4>1, <4>2, <5>1
          <5>2. CASE i = Len(got) + 1
            <6>1. i - 1 = Len(got)
              BY <1>3, <5>2
            <6>2. QED BY <4>2, <5>2, <6>1
          <5>3. QED BY <1>3, <4>2, <5>1, <5>2
        <4>4. out' = Len(got')
          BY <3>2, <4>1, <4>2
        <4>5. QED BY <4>3, <4>4
      <3>3. CASE pc = "macsample" /\ out' = out /\ got' = got
        BY <1>2, <2>1, <2>2, <3>3 DEF ReadSoFar
      <3>4. CASE pc' = "spin" /\ got' = got
        BY <1>2, <2>1, <2>2, <3>4 DEF ReadSoFar
      <3>5. early' # TRUE
        BY <2>2
      <3>6. QED BY <1>1, <3>1, <3>2, <3>3, <3>4, <3>5
    <2>3. QED BY <1>1, <1>2, <2>2, ReadEffect
  <1>5. CASE ~ (Contained(req) /\ Reads(req))
    <2>1. Reads(req') = Reads(req) /\ (Contained(req') <=> Contained(req)) /\ (Aligned(done') <=> Aligned(done))
      BY <1>1 DEF Reads
    <2>2. Shape'
      BY <1>1, <1>2, <2>1 DEF EInv, Shape, Line
    <2>3. Effect'
      <3>1. CASE ~ Contained(req)
        BY <2>1, <3>1 DEF Effect
      <3>2. CASE Contained(req) /\ ~ Reads(req)
        <4>1. WrittenSoFar /\ pc' = "spin"
          BY <1>2, <3>2 DEF EInv, Effect
        <4>2. WrittenSoFar'
          BY <1>1, <4>1 DEF WrittenSoFar
        <4>3. QED BY <2>1, <3>2, <4>2 DEF Effect
      <3>3. QED BY <1>5, <3>1, <3>2
    <2>4. TransfersExact'
      BY <1>2 DEF TransfersExact
    <2>5. QED BY <2>2, <2>3, <2>4
  <1>6. QED BY <1>4, <1>5

LEMMA DummyEffect ==
  ASSUME EInv, Dummy
  PROVE  Shape' /\ Effect' /\ TransfersExact'
  <1>1. pc = "dummy" /\ Return("ok") /\ cells' = cells /\ got' = got /\ early' = early
    BY DEF Dummy
  <1>2. Reads(req) /\ Len(got) = req.len
    BY <1>1 DEF EInv, TInv, Position
  <1>3. QED BY <1>1, <1>2, ReadReturns

LEMMA MacSentEffect ==
  ASSUME EInv, MacSent
  PROVE  Shape' /\ Effect' /\ TransfersExact'
  <1>1. pc = "sample" /\ ~ nack /\ sent = Len(Block) /\ done' = done /\ got' = got /\ writable' = writable /\ early' = early
    BY DEF MacSent
  <1>2. IsMac(req) /\ done = 0 /\ (link = "recv" \/ (link = "deaf" /\ nack))
    BY <1>1 DEF EInv, TInv, Position, Shape, Line
  <1>3. CASE Reads(req)
    <2>1. pc' = "turn" /\ UNCHANGED <<req, cells, before>>
      BY <1>3 DEF MacSent, Goto, chip
    <2>2. got' = <<>>
      BY <1>1 DEF EInv, TInv, Position
    <2>3. QED BY <1>1, <1>3, <2>1, <2>2, ReadEffect
  <1>4. CASE ~ Reads(req)
    <2>1. StopWrite /\ Return("ok")
      BY <1>4 DEF MacSent
    <2>2. link = "recv" /\ pc # "idle" /\ done < Len(req.data)
      BY <1>1, <1>2, <1>4 DEF EInv, TInv, Position
    <2>3. Contained(req) => WrittenSoFar
      BY <1>4, <2>2 DEF EInv, Effect
    <2>4. Contained(req) /\ ~ writable => cells' = before
      BY <1>1, <1>4, <2>1, <2>2, <2>3, StopProgram DEF WrittenSoFar
    <2>5. ASSUME Contained(req), writable
          PROVE  \E k \in 0 .. req.len : cells' = Wrote(before, req, k) /\ k = req.len
      <3>1. WrittenUpTo(done)
        BY <1>1, <2>3, <2>5 DEF WrittenSoFar
      <3>2. cells' = Wrote(before, req, done + Len(ChunkData))
        BY <1>1, <1>4, <2>1, <2>2, <2>5, <3>1, StopProgram
      <3>3. Len(ChunkData) = Len(req.data) /\ Len(req.data) = req.len /\ req.len \in Nat
        BY <1>2, <1>4, Lengths DEF EInv, ChunkData, WellFormed
      <3>4. done + Len(ChunkData) = req.len
        BY <1>2, <3>3
      <3>5. QED BY <3>2, <3>3, <3>4
    <2>6. QED BY <1>1, <1>4, <2>1, <2>2, <2>4, <2>5, WriteReturns
  <1>5. QED BY <1>3, <1>4

LEMMA CallEffect ==
  ASSUME EInv, (\E d \in Devices : Open(d) \/ Close(d)) \/ (\E r \in Request : Call(r))
  PROVE  Shape' /\ Effect' /\ TransfersExact'
  <1>1. ASSUME NEW d \in Devices, Open(d) \/ Close(d) PROVE Shape' /\ Effect' /\ TransfersExact'
    <2>1. pc' = "idle" /\ ret' = "none" /\ before' = before
      BY <1>1, Zenon DEF Open, Close
    <2>2. QED BY <2>1 DEF EInv, Shape, Line, Effect, TransfersExact
  <1>2. ASSUME NEW r \in Request, Call(r) PROVE Shape' /\ Effect' /\ TransfersExact'
    <2>1. /\ req' = r /\ done' = 0 /\ got' = <<>> /\ before' = cells /\ cells' = cells /\ early' = FALSE
          /\ writable' = writable
          /\ (pc' = "idle" /\ ret' = "unsupported") \/ (pc' = "busy" /\ ret' = "none")
      BY <1>2, Zenon DEF Call, chip
    <2>2. cells \in [Devices -> [Byte -> Value]]
      BY Flags DEF EInv
    <2>3. Aligned(0)
      <3>1. 0 = 0 * CHUNK
        BY Constants
      <3>2. QED BY <3>1 DEF Aligned
    <2>4. Aligned(done')
      BY <2>1, <2>3
    <2>5. Shape'
      BY <2>1, <2>2, <2>4 DEF Shape, Line
    <2>6. WrittenUpTo(done)'
      <3>1. Wrote(cells, r, 0) = cells
        BY <2>2, WroteNothing
      <3>2. QED BY <2>1, <3>1 DEF WrittenUpTo, Wrote
    <2>7. ReadSoFar' /\ (pc' = "busy" => WrittenSoFar')
      <3>1. ReadSoFar'
        BY <2>1 DEF ReadSoFar
      <3>2. pc' = "busy" => WrittenSoFar'
        BY <2>1, <2>6 DEF WrittenSoFar
      <3>3. QED BY <3>1, <3>2
    <2>8. Effect'
      BY <2>1, <2>7 DEF Effect
    <2>9. TransfersExact'
      BY <2>1 DEF TransfersExact
    <2>10. QED BY <2>5, <2>8, <2>9
  <1>3. QED BY <1>1, <1>2

(* Under time-outs, missing acknowledges and write cycles, for blocks that *)
(* do not cross a page: a write changes nothing but a leading part of what *)
(* was asked for, and if it succeeds all of it, up to the last block whose *)
(* last acknowledge nobody looks at; a read returns what is stored, unless *)
(* i2cEepromMacRead took a byte too early.                                 *)
THEOREM TransferCorrect == Spec => []TransfersExact
  <1>1. Init => EInv
    BY InitEInv
  <1>2. EInv /\ [Next]_vars => EInv'
    <2> SUFFICES ASSUME EInv, [Next]_vars PROVE EInv'
      OBVIOUS
    <2>1. TInv'
      BY TInvStep DEF EInv
    <2>2. CASE CycleDone \/ Noise \/ UNCHANGED vars
      <3>1. UNCHANGED <<pc, req, done, cells, before, writable, early, got, out, unseen, nack, link, ret>>
        BY <2>2 DEF CycleDone, Noise, vars, call, chip, obs
      <3>2. QED BY <2>1, <3>1, SameEffect DEF EInv
    <2>3. CASE Step
      BY <2>1, <2>2, <2>3, SendEffect, PollEffect, StopEffect, PauseEffect, ReceiveEffect, DummyEffect,
         MacSentEffect DEF Step, Spin, EInv
    <2>4. QED BY <2>1, <2>2, <2>3, CallEffect DEF Next, Finished, EInv
  <1>3. EInv => TransfersExact
    BY DEF EInv
  <1>4. QED BY <1>1, <1>2, <1>3, PTL DEF Spec

=============================================================================
