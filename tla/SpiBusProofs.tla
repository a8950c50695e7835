---------------------------- MODULE SpiBusProofs ----------------------------
(***************************************************************************)
(* Theorems about SpiBus for every number of cores, every flash geometry   *)
(* and every set of calls.                                                 *)
(*                                                                         *)
(* All three invariants come from one inductive invariant, IInv.  That a   *)
(* core which is talking owns the semaphore is inductive by itself; that   *)
(* no command reaches a busy flash also needs that only the owner starts   *)
(* a write.                                                                *)
(***************************************************************************)
EXTENDS SpiBus, SequenceTheorems, TLAPS

PcTypeOK ==
  /\ owner \in Cores \cup {NoCore}
  /\ pc \in [Cores -> {"idle", "claim", "begin", "wren", "command", "wait", "release",
                       "unlock", "reclaim", "fpgawrite"}]
  /\ request \in [Cores -> NorRequest \cup FpgaRequest]
  /\ wip \in BOOLEAN

IInv ==
  /\ PcTypeOK
  /\ BusIsExclusive
  /\ NoCommandWhileBusy

USE SpiAssumption

LEMMA InitIInv == Init => IInv
<1>1. [kind |-> "init"] \in NorRequest
  BY DEF NorRequest
<1>2. Init => /\ request \in [Cores -> NorRequest]
              /\ \A c \in Cores : pc[c] = "idle"
  BY <1>1 DEF Init
<1>3. QED
  BY <1>2 DEF Init, IInv, PcTypeOK, BusIsExclusive, NoCommandWhileBusy, Talking

(* A core's step leaves the other cores where they are. *)
LEMMA CoreStepIInv == ASSUME IInv, NEW c \in Cores, CoreStep(c) PROVE IInv'
<1> USE DEF IInv, PcTypeOK, BusIsExclusive, NoCommandWhileBusy, Talking, Goto, Conclude, chip
<1>1. CASE Claim(c)
  BY <1>1 DEF Claim
<1>2. CASE Release(c)
  BY <1>2 DEF Release
<1>3. CASE NorAsk(c)
  BY <1>3 DEF NorAsk
<1>4. CASE NorWrite(c)
  BY <1>4 DEF NorWrite
<1>5. CASE NorErase(c)
  BY <1>5 DEF NorErase
<1>6. CASE WriteEnable(c)
  BY <1>6 DEF WriteEnable
<1>7. CASE Command(c)
  BY <1>7 DEF Command
<1>8. CASE Poll(c)
  BY <1>8 DEF Poll, Ready, Expired
<1>9. CASE FpgaRead(c)
  BY <1>9 DEF FpgaRead
<1>10. CASE FpgaUnlock(c)
  BY <1>10 DEF FpgaUnlock
<1>11. CASE FpgaWrite(c)
  BY <1>11 DEF FpgaWrite
<1>12. QED
  BY <1>1, <1>2, <1>3, <1>4, <1>5, <1>6, <1>7, <1>8, <1>9, <1>10, <1>11 DEF CoreStep

LEMMA NextIInv == IInv /\ [Next]_vars => IInv'
<1> SUFFICES ASSUME IInv, [Next]_vars PROVE IInv'
  OBVIOUS
<1> USE DEF IInv, PcTypeOK, BusIsExclusive, NoCommandWhileBusy, Talking
<1>1. CASE \E c \in Cores : CoreStep(c)
  BY <1>1, CoreStepIInv
<1>2. CASE \E c \in Cores : \E r \in Request : Call(c, r)
  BY <1>2 DEF Call, Goto, chip
<1>3. CASE FlashDone
  BY <1>3 DEF FlashDone, thread
<1>4. CASE Reset
  BY <1>4 DEF Reset, chip
<1>5. CASE UNCHANGED vars
  BY <1>5 DEF vars, thread, chip
<1>6. QED
  BY <1>1, <1>2, <1>3, <1>4, <1>5 DEF Next

LEMMA Invariance == Spec => []IInv
<1>1. QED
  BY InitIInv, NextIInv, PTL DEF Spec

(* Between spi_claim and spi_release a core has the bus to itself and the  *)
(* controller is configured for its chip.                                  *)
THEOREM ExclusiveBus == Spec => []BusIsExclusive
<1>1. IInv => BusIsExclusive
  BY DEF IInv
<1>2. QED
  BY <1>1, Invariance, PTL

(* nor_wait_ready keeps commands away from a flash that is busy. *)
THEOREM QuietWhileBusy == Spec => []NoCommandWhileBusy
<1>1. IInv => NoCommandWhileBusy
  BY DEF IInv
<1>2. QED
  BY <1>1, Invariance, PTL

-----------------------------------------------------------------------------
(* nor_erase returns without releasing the bus when the sector number is   *)
(* out of range, and nothing else does: where no call asks for that, every *)
(* call that has returned has released the bus.                            *)
ReturnInv ==
  /\ ReturnReleases
  /\ \A c \in Cores : pc[c] # "idle" => request[c] \in Request

THEOREM ValidSectorsRelease ==
  ASSUME \A r \in Request : r.kind = "erase" => r.sector < SECTOR_COUNT /\ r.sector \in Int
  PROVE  Spec => []ReturnReleases
<1> DEFINE RInv == IInv /\ ReturnInv
<1>1. Init => RInv
  BY InitIInv DEF Init, ReturnInv, ReturnReleases, IInv, PcTypeOK
<1>2. RInv /\ [Next]_vars => RInv'
  <2> SUFFICES ASSUME RInv, [Next]_vars PROVE RInv'
    OBVIOUS
  <2>1. IInv'
    BY NextIInv
  <2>2. ReturnInv'
    <3> USE DEF ReturnInv, ReturnReleases, IInv, PcTypeOK, BusIsExclusive, Talking, Goto, Conclude, chip
    <3>1. ASSUME NEW c \in Cores, CoreStep(c) PROVE ReturnInv'
      <4>1. CASE Claim(c) \/ Release(c) \/ FpgaUnlock(c)
        BY <4>1 DEF Claim, Release, FpgaUnlock
      <4>2. CASE NorAsk(c) \/ NorWrite(c) \/ WriteEnable(c) \/ Command(c) \/ Poll(c)
        BY <4>2 DEF NorAsk, NorWrite, WriteEnable, Command, Poll
      <4>3. CASE NorErase(c)
        <5>1. ~(request[c].sector >= SECTOR_COUNT)
          BY <4>3 DEF NorErase
        <5>2. QED
          BY <4>3, <5>1 DEF NorErase
      <4>4. CASE FpgaRead(c) \/ FpgaWrite(c)
        BY <4>4 DEF FpgaRead, FpgaWrite
      <4>5. QED
        BY <3>1, <4>1, <4>2, <4>3, <4>4 DEF CoreStep
    <3>2. CASE \E c \in Cores : \E r \in Request : Call(c, r)
      BY <3>2 DEF Call
    <3>3. CASE FlashDone \/ Reset \/ UNCHANGED vars
      BY <3>3 DEF FlashDone, Reset, vars, thread
    <3>4. QED
      BY <3>1, <3>2, <3>3 DEF Next
  <2>3. QED
    BY <2>1, <2>2
<1>3. RInv => ReturnReleases
  BY DEF ReturnInv
<1>4. QED
  BY <1>1, <1>2, <1>3, PTL DEF Spec

-----------------------------------------------------------------------------
HIDE SpiAssumption

(* The index into a chunk of a cell the chunk covers. *)
LEMMA IndexInChunk ==
  ASSUME NEW x \in Nat, NEW n \in Nat, NEW a \in x .. x + n - 1
  PROVE  a - x + 1 \in 1 .. n
  OBVIOUS

LEMMA Geometry ==
  /\ SECTOR_COUNT \in Nat \ {0} /\ SECTOR_SIZE \in Nat \ {0} /\ PAGE_SIZE \in Nat \ {0}
  /\ Erased \in Value /\ Junk \in Value
  BY SpiAssumption

USE Geometry

(* Arithmetic: what the division of a write into pages rests on. *)
LEMMA DivMod ==
  ASSUME NEW x \in Nat, NEW P \in Nat \ {0}
  PROVE  /\ x = (x \div P) * P + (x % P)
         /\ x % P \in 0 .. P - 1
         /\ x \div P \in Nat
  BY SMT

LEMMA ModUnique ==
  ASSUME NEW q \in Nat, NEW r \in Nat, NEW P \in Nat \ {0}, r < P
  PROVE  (q * P + r) % P = r
  BY SMTT(30)

LEMMA ModAdd ==
  ASSUME NEW x \in Nat, NEW P \in Nat \ {0}, NEW k \in Nat, (x % P) + k < P
  PROVE  (x + k) % P = (x % P) + k
<1> DEFINE q == x \div P
           r == (x % P) + k
<1>1. x + k = q * P + r
  BY DivMod
<1>2. q \in Nat /\ r \in Nat /\ r < P
  BY DivMod
<1> HIDE DEF q, r
<1>3. (q * P + r) % P = r
  BY <1>2, ModUnique
<1>4. QED
  BY <1>1, <1>3 DEF r

(* n cells from x on are in one page. *)
InPage(x, n) == (x % PAGE_SIZE) + n <= PAGE_SIZE

WriteRequest == [kind : {"write"}, addr : Nat, data : Seq(Value)]

(* A chunk is never empty, and neither exceeds the data nor its page. *)
LEMMA ChunkLenBounds ==
  ASSUME NEW r \in WriteRequest, NEW done \in Nat, done < Len(r.data)
  PROVE  /\ ChunkLen(r, done) \in 1 .. Len(r.data) - done
         /\ ((r.addr + done) % PAGE_SIZE) + ChunkLen(r, done) <= PAGE_SIZE
<1>1. r.addr + done \in Nat /\ Len(r.data) \in Nat
  BY DEF WriteRequest
<1>2. (r.addr + done) % PAGE_SIZE \in 0 .. PAGE_SIZE - 1
  BY <1>1, DivMod
<1> DEFINE m == (r.addr + done) % PAGE_SIZE
           n == ChunkLen(r, done)
<1>3. n = Min2(Len(r.data) - done, PAGE_SIZE - m)
  BY DEF ChunkLen
<1> HIDE DEF m, n
<1>4. m \in 0 .. PAGE_SIZE - 1
  BY <1>2 DEF m
<1>5. n \in 1 .. Len(r.data) - done /\ m + n <= PAGE_SIZE
  BY <1>1, <1>3, <1>4 DEF Min2
<1>6. QED
  BY <1>5 DEF m, n

(* The address bytes name the same place in a page as the address does. *)
LEMMA ModMod ==
  ASSUME NEW x \in Nat, NEW P \in Nat \ {0}, NEW k \in Nat \ {0}
  PROVE  (x % (k * P)) % P = x % P
<1> DEFINE n == k * P
           y == x % n
<1>0. n \in Nat \ {0}
  OBVIOUS
<1>1. x = (x \div n) * n + y /\ y \in Nat /\ x \div n \in Nat
  <2> HIDE DEF n
  <2>1. QED
    BY <1>0, DivMod
<1>2. y = (y \div P) * P + (y % P) /\ y % P \in 0 .. P - 1 /\ y \div P \in Nat
  BY <1>1, DivMod
<1>3. PICK a \in Nat : a = x \div n
  BY <1>1
<1>4. PICK b \in Nat : b = y \div P
  BY <1>2
<1>5. PICK z \in Nat : z = y % P
  BY <1>2
<1> HIDE DEF y
<1>6. x = a * n + (b * P + z) /\ z < P
  BY <1>1, <1>2, <1>3, <1>4, <1>5
<1>7. a * n = (a * k) * P /\ a * k \in Nat
  BY <1>3
<1>8. PICK e \in Nat : e = a * k
  BY <1>7
<1>9. x = (e + b) * P + z
  BY <1>4, <1>5, <1>6, <1>7, <1>8
<1>10. ((e + b) * P + z) % P = z
  <2>1. e + b \in Nat /\ z < P
    BY <1>4, <1>5, <1>6, <1>8
  <2>2. QED
    BY <1>5, <2>1, ModUnique
<1>11. QED
  BY <1>5, <1>9, <1>10 DEF y

LEMMA AddressInPage ==
  ASSUME NEW x \in Nat
  PROVE  (x % FlashSize) \in Nat /\ (x % FlashSize) % PAGE_SIZE = x % PAGE_SIZE
<1>1. PICK j \in Nat \ {0} : SECTOR_SIZE = j * PAGE_SIZE
  <2>1. SECTOR_SIZE % PAGE_SIZE = 0
    BY SpiAssumption
  <2>2. SECTOR_SIZE = (SECTOR_SIZE \div PAGE_SIZE) * PAGE_SIZE + 0 /\ SECTOR_SIZE \div PAGE_SIZE \in Nat
    BY <2>1, DivMod
  <2>3. PICK q \in Nat : q = SECTOR_SIZE \div PAGE_SIZE
    BY <2>2
  <2>4. SECTOR_SIZE = q * PAGE_SIZE /\ q # 0
    BY <2>2, <2>3
  <2>5. QED
    BY <2>4
<1>2. PICK k \in Nat \ {0} : k = SECTOR_COUNT * j
  OBVIOUS
<1>3. FlashSize = k * PAGE_SIZE
  BY <1>1, <1>2 DEF FlashSize
<1>4. x % FlashSize \in Nat
  BY <1>3
<1>5. QED
  BY <1>3, <1>4, ModMod

(* A page program that stays in its page programs the cells it is sent. *)
LEMMA ProgramInPage ==
  ASSUME NEW f \in [Cell -> Value], NEW x \in Nat, NEW d \in Seq(Value),
         (x % PAGE_SIZE) + Len(d) <= PAGE_SIZE
  PROVE  AfterProgram(f, x, d) =
           [a \in Cell |-> IF a \in x .. x + Len(d) - 1
                           THEN Programmed(f[a], d[a - x + 1]) ELSE f[a]]
<1> DEFINE base == (x \div PAGE_SIZE) * PAGE_SIZE
           Sent(a) == {i \in 1 .. Len(d) : base + ((x + i - 1) % PAGE_SIZE) = a}
<1>1. ASSUME NEW i \in 1 .. Len(d) PROVE base + ((x + i - 1) % PAGE_SIZE) = x + i - 1
  <2>1. i - 1 \in Nat /\ (x % PAGE_SIZE) + (i - 1) < PAGE_SIZE
    BY DivMod
  <2>2. (x + (i - 1)) % PAGE_SIZE = (x % PAGE_SIZE) + (i - 1)
    BY <2>1, ModAdd
  <2>3. x = base + (x % PAGE_SIZE)
    BY DivMod
  <2>4. x + (i - 1) = x + i - 1
    OBVIOUS
  <2>5. base \in Int /\ x % PAGE_SIZE \in Int
    BY DivMod
  <2> HIDE DEF base
  <2>6. QED
    BY <2>2, <2>3, <2>4, <2>5
<1>2. ASSUME NEW a \in Cell
      PROVE Sent(a) = IF a \in x .. x + Len(d) - 1 THEN {a - x + 1} ELSE {}
  <2>1. Sent(a) = {i \in 1 .. Len(d) : x + i - 1 = a}
    BY <1>1
  <2>2. a \in Int
    BY DEF Cell, FlashSize
  <2> HIDE DEF Sent
  <2>3. QED
    BY <2>1, <2>2
<1>3. \A a \in Cell : a \in x .. x + Len(d) - 1 =>
        (CHOOSE i \in {a - x + 1} : TRUE) = a - x + 1
  OBVIOUS
<1>4. AfterProgram(f, x, d) =
        [a \in Cell |-> IF Sent(a) = {} THEN f[a]
                        ELSE Programmed(f[a], d[CHOOSE i \in Sent(a) : TRUE])]
  BY DEF AfterProgram
<1> HIDE DEF Sent
<1>5. ASSUME NEW a \in Cell
      PROVE (IF Sent(a) = {} THEN f[a]
             ELSE Programmed(f[a], d[CHOOSE i \in Sent(a) : TRUE]))
            = IF a \in x .. x + Len(d) - 1 THEN Programmed(f[a], d[a - x + 1]) ELSE f[a]
  <2>1. CASE a \in x .. x + Len(d) - 1
    <3>1. Sent(a) = {a - x + 1} /\ Sent(a) # {}
      BY <1>2, <2>1
    <3>2. (CHOOSE i \in Sent(a) : TRUE) = a - x + 1
      BY <3>1, <1>3, <2>1
    <3>3. QED
      BY <3>1, <3>2, <2>1, Zenon
  <2>2. CASE a \notin x .. x + Len(d) - 1
    BY <1>2, <2>2, Zenon
  <2>3. QED
    BY <2>1, <2>2, Zenon
<1>6. QED
  BY <1>4, <1>5, Zenon

(* A page program that stays in its page extends the programmed prefix. *)
LEMMA ProgramExtendsPrefix ==
  ASSUME NEW f \in [Cell -> Value], NEW r \in WriteRequest, NEW done \in Nat,
         NEW n \in 1 .. Len(r.data) - done,
         InPage(r.addr + done, n)
  PROVE  AfterProgram(Prefix(f, r, done), r.addr + done, SubSeq(r.data, done + 1, done + n))
           = Prefix(f, r, done + n)
<1> DEFINE g == Prefix(f, r, done)
           x == r.addr + done
           d == SubSeq(r.data, done + 1, done + n)
<1>1. n \in 1 .. Len(r.data) - done /\ done \in Nat
  OBVIOUS
<1>2. r.data \in Seq(Value) /\ r.addr \in Nat /\ Len(r.data) \in Nat /\ x \in Nat
  BY DEF WriteRequest
<1>3. d \in Seq(Value) /\ Len(d) = n /\ \A i \in 1 .. n : d[i] = r.data[done + i]
  <2>1. /\ \A i \in done + 1 .. done + n : r.data[i] \in Value
        /\ done + 1 \in Int /\ done + n \in Int /\ done + 1 <= done + n
        /\ (done + n) - (done + 1) + 1 = n
    BY <1>1, <1>2
  <2>2. /\ d \in Seq(Value)
        /\ Len(d) = n
        /\ \A i \in 1 .. n : d[i] = r.data[done + 1 + i - 1]
    BY <2>1, SubSeqProperties
  <2>3. \A i \in 1 .. n : done + 1 + i - 1 = done + i
    BY <1>1
  <2>4. QED
    BY <2>2, <2>3
<1>4. g \in [Cell -> Value]
  BY <1>2 DEF Prefix, Programmed, Cell, FlashSize
<1>5. AfterProgram(g, x, d) =
        [a \in Cell |-> IF a \in x .. x + Len(d) - 1
                        THEN Programmed(g[a], d[a - x + 1]) ELSE g[a]]
  <2> HIDE DEF d, g, x
  <2>0. InPage(x, n)
    BY DEF x
  <2>1. (x % PAGE_SIZE) + Len(d) <= PAGE_SIZE
    BY <2>0, <1>3 DEF InPage
  <2>2. QED
    BY <2>1, <1>2, <1>3, <1>4, ProgramInPage
<1>6. ASSUME NEW a \in Cell
      PROVE (IF a \in x .. x + Len(d) - 1 THEN Programmed(g[a], d[a - x + 1]) ELSE g[a])
            = IF a \in r.addr .. r.addr + (done + n) - 1
              THEN Programmed(f[a], r.data[a - r.addr + 1]) ELSE f[a]
  <2>1. a \in Nat
    BY DEF Cell, FlashSize
  <2>2. g[a] = IF a \in r.addr .. r.addr + done - 1
               THEN Programmed(f[a], r.data[a - r.addr + 1]) ELSE f[a]
    BY DEF Prefix
  <2> HIDE DEF g, d
  <2>3. CASE a \in x .. x + n - 1
    <3>0. x \in Nat /\ n \in Nat
      BY <1>1, <1>2
    <3>1. a - x + 1 \in 1 .. n
      BY <3>0, <2>3, IndexInChunk, Zenon
    <3>a. done + (a - x + 1) = a - r.addr + 1
      BY <2>1, <1>1, <1>2
    <3>2. d[a - x + 1] = r.data[a - r.addr + 1]
      BY <3>1, <3>a, <1>3
    <3>3. g[a] = f[a]
      BY <2>1, <2>2, <2>3, <1>2
    <3>b. a \in r.addr .. r.addr + (done + n) - 1
      BY <2>1, <2>3, <1>1, <1>2
    <3>4. QED
      BY <3>2, <3>3, <3>b, <2>3, <1>3, Zenon
  <2>4. CASE a \notin x .. x + n - 1
    <3>1. a \in r.addr .. r.addr + done - 1 <=> a \in r.addr .. r.addr + (done + n) - 1
      BY <2>1, <2>4, <1>1, <1>2
    <3>2. QED
      BY <3>1, <2>2, <2>4, <1>3, Zenon
  <2>5. QED
    BY <2>3, <2>4
<1>7. QED
  BY <1>5, <1>6 DEF Prefix

(* One turn of the loop of nor_write extends the programmed prefix. *)
LEMMA ChunkExtendsPrefix ==
  ASSUME NEW f \in [Cell -> Value], NEW r \in WriteRequest, NEW done \in Nat,
         done < Len(r.data)
  PROVE  LET n == ChunkLen(r, done) IN
         AfterProgram(Prefix(f, r, done), r.addr + done, SubSeq(r.data, done + 1, done + n))
           = Prefix(f, r, done + n)
<1>1. QED
  BY ChunkLenBounds, ProgramExtendsPrefix DEF InPage

-----------------------------------------------------------------------------
(* Types.  That a counter stays a natural number needs the loop of         *)
(* nor_write: it goes on only while there is something left to program.    *)
InLoop(c) == pc[c] \in {"wren", "command", "wait"}

LoopInv ==
  \A c \in Cores :
    /\ pc[c] = "claim" => actual[c] = 0
    /\ pc[c] = "wait" => timeout[c] >= 1
    /\ InLoop(c) => request[c].kind \in {"write", "erase"}
    /\ pc[c] = "release" /\ ret[c] = "EOK" /\ request[c].kind \in {"read", "write"} => Fits(request[c])
    /\ request[c].kind = "write" =>
         /\ pc[c] \in {"claim", "begin"} \/ InLoop(c) => actual[c] <= Len(request[c].data)
         /\ pc[c] \in {"wren", "command"} => actual[c] < Len(request[c].data) /\ Fits(request[c])

RegisterInv ==
  \A c \in Cores : pc[c] \in {"unlock", "reclaim", "fpgawrite"} =>
    /\ ~IsNor(request[c])
    /\ value[c] \subseteq Bits[Register(request[c])]

TInv == TypeOK /\ LoopInv /\ RegisterInv

LEMMA WriteRequests ==
  ASSUME NEW r \in NorRequest \cup FpgaRequest, r.kind = "write"
  PROVE  r \in WriteRequest
  BY DEF NorRequest, FpgaRequest, WriteRequest

LEMMA FpgaRequests ==
  ASSUME NEW r \in NorRequest \cup FpgaRequest, ~IsNor(r)
  PROVE  r \in FpgaRequest
  BY DEF NorRequest, FpgaRequest, IsNor

LEMMA ModifyType ==
  ASSUME NEW r \in FpgaRequest, NEW v, v \subseteq Bits[Register(r)]
  PROVE  /\ Modify(r, v) \subseteq Bits[Register(r)]
         /\ Intended(r, v) \subseteq Bits[Register(r)]
<1>1. CASE r.kind = "led"
  BY <1>1 DEF FpgaRequest, Register, Bits, Bit, Intended, Modify, Led
<1>2. CASE r.kind = "protect"
  <2>1. r.device \in {"nand", "nor", "eeprom"}
    BY <1>2 DEF FpgaRequest
  <2>2. Bit(r) \in {NandBit, NorBit, EepromBit}
    BY <1>2, <2>1 DEF Bit
  <2>3. Bits[Register(r)] = {NandBit, NorBit, EepromBit}
    BY <1>2 DEF Register, Bits
  <2>4. QED
    BY <2>2, <2>3 DEF Intended, Modify
<1>3. QED
  BY <1>1, <1>2 DEF FpgaRequest

LEMMA BitsAreNumbers == \A r : Bits[Register(r)] \subseteq Nat
  BY DEF Bits, Register, Led, NandBit, NorBit, EepromBit

LEMMA ProgramType ==
  ASSUME NEW f \in [Cell -> Value], NEW r \in WriteRequest, NEW done \in Nat,
         done < Len(r.data)
  PROVE  AfterProgram(f, CommandAddress(r, done), SubSeq(r.data, done + 1, done + ChunkLen(r, done)))
           \in [Cell -> Value]
<1> DEFINE n == ChunkLen(r, done)
           x == CommandAddress(r, done)
           d == SubSeq(r.data, done + 1, done + n)
<1>a. r.addr + done \in Nat
  BY DEF WriteRequest
<1>0. x \in Nat /\ x % PAGE_SIZE = (r.addr + done) % PAGE_SIZE
  BY <1>a, AddressInPage DEF CommandAddress
<1>1. n \in 1 .. Len(r.data) - done /\ (x % PAGE_SIZE) + n <= PAGE_SIZE
  BY <1>0, ChunkLenBounds
<1>2. r.data \in Seq(Value)
  BY DEF WriteRequest
<1> HIDE DEF n
<1>3. /\ \A i \in done + 1 .. done + n : r.data[i] \in Value
      /\ done + 1 \in Int /\ done + n \in Int /\ done + 1 <= done + n
      /\ (done + n) - (done + 1) + 1 = n
  <2> HIDE DEF x
  <2>1. n \in 1 .. Len(r.data) - done
    BY <1>1
  <2>2. QED
    BY <2>1, <1>2
<1>4. d \in Seq(Value) /\ Len(d) = n
  BY <1>3, SubSeqProperties
<1> HIDE DEF d, x
<1>5. AfterProgram(f, x, d) =
        [a \in Cell |-> IF a \in x .. x + Len(d) - 1
                        THEN Programmed(f[a], d[a - x + 1]) ELSE f[a]]
  BY <1>0, <1>1, <1>4, ProgramInPage
<1>6. ASSUME NEW a \in Cell, a \in x .. x + n - 1 PROVE d[a - x + 1] \in Value
  <2>1. x \in Nat /\ n \in Nat /\ a \in Nat
    BY <1>0, <1>1, <1>2 DEF Cell, FlashSize
  <2>2. a - x + 1 \in 1 .. n
    BY <2>1, <1>6, IndexInChunk, Zenon
  <2>3. QED
    BY <2>2, <1>4
<1>7. \A u, v \in Value : Programmed(u, v) \in Value
  BY DEF Programmed
<1>8. QED
  BY <1>4, <1>5, <1>6, <1>7 DEF x, d, n

LEMMA InitTInv == Init => TInv
<1> SUFFICES ASSUME Init PROVE TInv
  OBVIOUS
<1>1. request \in [Cores -> NorRequest \cup FpgaRequest]
  BY InitIInv DEF IInv, PcTypeOK
<1>2. regs \in [led : SUBSET Bits.led, misc : SUBSET Bits.misc] /\ wanted = regs
  BY DEF Init, Default, Bits
<1>3. calls \in 0 .. MaxCalls
  BY SpiAssumption DEF Init
<1>4. cells \in [Cell -> Value] /\ before = cells
  BY DEF Init
<1>5. TypeOK
  BY <1>1, <1>2, <1>3, <1>4 DEF Init, TypeOK
<1>6. LoopInv /\ RegisterInv
  BY DEF Init, LoopInv, RegisterInv, InLoop
<1>7. QED
  BY <1>5, <1>6 DEF TInv

LEMMA CommandTInv == ASSUME TInv, NEW c \in Cores, Command(c) PROVE TInv'
<1> DEFINE r == request[c]
           n == IF r.kind = "write" THEN ChunkLen(r, actual[c]) ELSE 0
<1> USE DEF TInv
<1>1. r \in NorRequest \cup FpgaRequest /\ actual[c] \in Nat /\ pc[c] = "command"
      /\ r.kind \in {"write", "erase"}
  BY DEF TypeOK, LoopInv, InLoop, Command
<1>2. r.kind = "write" => r \in WriteRequest /\ actual[c] < Len(r.data)
  BY <1>1, WriteRequests DEF LoopInv
<1>3. r.kind = "write" => n \in 1 .. Len(r.data) - actual[c] /\ Len(r.data) \in Nat
  BY <1>1, <1>2, ChunkLenBounds DEF WriteRequest
<1>4. actual[c] + n \in Nat /\ (r.kind = "write" => actual[c] + n <= Len(r.data))
  <2> HIDE DEF r, n
  <2>1. CASE r.kind = "write"
    BY <2>1, <1>1, <1>3
  <2>2. CASE r.kind # "write"
    BY <2>2, <1>1 DEF n
  <2>3. QED
    BY <2>1, <2>2
<1>5. cells' \in [Cell -> Value]
  <2>1. CASE wel /\ ~wip /\ r.kind = "write"
    <3>1. cells' = AfterProgram(cells, CommandAddress(r, actual[c]),
                                SubSeq(r.data, actual[c] + 1, actual[c] + ChunkLen(r, actual[c])))
      BY <2>1 DEF Command
    <3>2. QED
      BY <3>1, <2>1, <1>1, <1>2, ProgramType DEF TypeOK
  <2>2. CASE wel /\ ~wip /\ r.kind # "write"
    BY <2>2 DEF Command, AfterErase, TypeOK
  <2>3. CASE ~(wel /\ ~wip)
    BY <2>3 DEF Command, TypeOK, chip
  <2>4. QED
    BY <2>1, <2>2, <2>3
<1>6. /\ actual' = [actual EXCEPT ![c] = @ + n]
      /\ timeout' = [timeout EXCEPT ![c] =
                       IF r.kind = "write" THEN PROG_TIMEOUT ELSE SECTOR_ERASE_TIMEOUT]
      /\ pc' = [pc EXCEPT ![c] = "wait"]
      /\ wel' \in BOOLEAN /\ wip' \in BOOLEAN
      /\ UNCHANGED <<owner, select, request, value, ret, regs, calls, before, busyAtClaim, wanted, garbled>>
  BY DEF Command, Goto, chip, TypeOK
<1>7. PROG_TIMEOUT \in Nat \ {0} /\ SECTOR_ERASE_TIMEOUT \in Nat \ {0}
  BY SpiAssumption
<1> HIDE DEF n
<1>8. TypeOK'
  BY <1>4, <1>5, <1>6, <1>7 DEF TypeOK
<1>9. LoopInv'
  BY <1>1, <1>4, <1>6, <1>7 DEF TypeOK, LoopInv, InLoop
<1>10. RegisterInv'
  BY <1>6 DEF TypeOK, RegisterInv
<1>11. QED
  BY <1>8, <1>9, <1>10

LEMMA CoreStepTInv == ASSUME TInv, NEW c \in Cores, CoreStep(c) PROVE TInv'
<1> USE DEF TInv, LoopInv, RegisterInv, InLoop, Goto, Conclude, chip
<1>0. request[c] \in NorRequest \cup FpgaRequest
  BY DEF TypeOK
<1>1. CASE Claim(c)
  BY <1>1 DEF Claim, TypeOK
<1>2. CASE Release(c)
  BY <1>2 DEF Release, TypeOK
<1>3. CASE NorAsk(c)
  BY <1>3 DEF NorAsk, TypeOK
<1>4. CASE NorWrite(c)
  <2>1. CASE pc' = [pc EXCEPT ![c] = "release"] /\ ret' = [ret EXCEPT ![c] = "EFAIL"]
    BY <1>4, <2>1 DEF NorWrite, TypeOK
  <2>2. CASE pc' = [pc EXCEPT ![c] = "wren"] /\ ret' = ret /\ actual[c] < Len(request[c].data)
             /\ Fits(request[c])
    BY <1>4, <2>2 DEF NorWrite, TypeOK
  <2>3. CASE pc' = [pc EXCEPT ![c] = "release"] /\ ret' = [ret EXCEPT ![c] = "EOK"]
    BY <1>4, <2>3 DEF NorWrite, TypeOK
  <2>4. QED
    BY <1>4, <2>1, <2>2, <2>3 DEF NorWrite
<1>5. CASE NorErase(c)
  <2>1. CASE pc' = [pc EXCEPT ![c] = "idle"] /\ ret' = [ret EXCEPT ![c] = "EFAIL"]
    BY <1>5, <2>1 DEF NorErase, TypeOK
  <2>2. CASE pc' = [pc EXCEPT ![c] = "wren"] /\ ret' = ret
    BY <1>5, <2>2 DEF NorErase, TypeOK
  <2>3. QED
    BY <1>5, <2>1, <2>2 DEF NorErase
<1>6. CASE WriteEnable(c)
  BY <1>6 DEF WriteEnable, TypeOK
<1>7. CASE Command(c)
  BY <1>7, CommandTInv
<1>8. CASE Poll(c)
  <2>1. CASE /\ pc' = [pc EXCEPT ![c] = "begin"] /\ request[c].kind = "write"
             /\ UNCHANGED <<ret, timeout>>
    BY <1>8, <2>1 DEF Poll, TypeOK
  <2>2. CASE /\ pc' = [pc EXCEPT ![c] = "release"] /\ ret' = [ret EXCEPT ![c] = "EOK"]
             /\ UNCHANGED timeout
    BY <1>8, <2>2 DEF Poll, TypeOK
  <2>3. CASE /\ pc' = [pc EXCEPT ![c] = "release"] /\ ret' = [ret EXCEPT ![c] = "EFAIL"]
             /\ timeout' = [timeout EXCEPT ![c] = @ - 1]
    BY <1>8, <2>3 DEF Poll, TypeOK
  <2>4. CASE /\ timeout[c] # 1 /\ UNCHANGED <<pc, ret>>
             /\ timeout' = [timeout EXCEPT ![c] = @ - 1]
    BY <1>8, <2>4 DEF Poll, TypeOK
  <2>5. QED
    BY <1>8, <2>1, <2>2, <2>3, <2>4 DEF Poll, Ready, Expired
<1>9. CASE FpgaRead(c)
  <2>1. request[c] \in FpgaRequest
    BY <1>0, <1>9, FpgaRequests DEF FpgaRead
  <2>2. PICK v \in SUBSET Bits[Register(request[c])] :
          /\ ReadWord(Register(request[c]), v)
          /\ value' = [value EXCEPT ![c] = Modify(request[c], v)]
    BY <1>9 DEF FpgaRead
  <2>3. v \subseteq Bits[Register(request[c])] /\ garbled' \in BOOLEAN
    BY <2>2 DEF ReadWord, TypeOK
  <2>4. Modify(request[c], v) \subseteq Bits[Register(request[c])]
        /\ Bits[Register(request[c])] \subseteq Nat
    BY <2>1, <2>3, ModifyType, BitsAreNumbers
  <2>5. QED
    BY <1>9, <2>2, <2>3, <2>4 DEF FpgaRead, TypeOK
<1>10. CASE FpgaUnlock(c)
  BY <1>10 DEF FpgaUnlock, TypeOK
<1>11. CASE FpgaWrite(c)
  <2> DEFINE reg == Register(request[c])
  <2>1. request[c] \in FpgaRequest /\ value[c] \subseteq Bits[reg]
    BY <1>0, <1>11, FpgaRequests DEF FpgaWrite
  <2>2. reg \in {"led", "misc"}
    BY DEF Register
  <2>3. wanted[reg] \subseteq Bits[reg]
    BY <2>2 DEF TypeOK
  <2>4. Intended(request[c], wanted[reg]) \subseteq Bits[reg]
    BY <2>1, <2>3, ModifyType
  <2>5. /\ regs' \in {[regs EXCEPT ![reg] = value[c]], regs}
        /\ wanted' = [wanted EXCEPT ![reg] = Intended(request[c], wanted[reg])]
        /\ garbled' \in BOOLEAN
    BY <1>11 DEF FpgaWrite, WriteWord, TypeOK
  <2> HIDE DEF reg
  <2>6. /\ regs' \in [led : SUBSET Bits.led, misc : SUBSET Bits.misc]
        /\ wanted' \in [led : SUBSET Bits.led, misc : SUBSET Bits.misc]
    BY <2>1, <2>2, <2>4, <2>5 DEF TypeOK
  <2>7. TypeOK'
    BY <1>11, <2>5, <2>6 DEF FpgaWrite, TypeOK
  <2>8. RegisterInv' /\ request[c].kind \notin {"read", "write"}
    BY <2>1, <1>11 DEF FpgaWrite, RegisterInv, FpgaRequest, TypeOK
  <2>9. LoopInv'
    BY <2>8, <1>11 DEF FpgaWrite, LoopInv, TypeOK
  <2>10. QED
    BY <2>7, <2>8, <2>9
<1>12. QED
  BY <1>1, <1>2, <1>3, <1>4, <1>5, <1>6, <1>7, <1>8, <1>9, <1>10, <1>11 DEF CoreStep

LEMMA NextTInv == TInv /\ [Next]_vars => TInv'
<1> SUFFICES ASSUME TInv, [Next]_vars PROVE TInv'
  OBVIOUS
<1> USE DEF TInv, LoopInv, RegisterInv, InLoop
<1>1. CASE \E c \in Cores : CoreStep(c)
  BY <1>1, CoreStepTInv
<1>2. CASE \E c \in Cores : \E r \in Request : Call(c, r)
  <2>1. PICK c \in Cores, r \in Request : Call(c, r)
    BY <1>2
  <2>2. r \in NorRequest \cup FpgaRequest /\ MaxCalls \in Nat
    BY SpiAssumption
  <2>3. r.kind = "write" => Len(r.data) \in Nat
    BY <2>2, WriteRequests DEF WriteRequest
  <2>4. QED
    BY <2>1, <2>2, <2>3 DEF Call, Goto, chip, TypeOK
<1>3. CASE FlashDone
  BY <1>3 DEF FlashDone, thread, TypeOK
<1>4. CASE Reset
  BY <1>4 DEF Reset, chip, TypeOK
<1>5. CASE UNCHANGED vars
  BY <1>5 DEF vars, thread, chip, TypeOK
<1>6. QED
  BY <1>1, <1>2, <1>3, <1>4, <1>5 DEF Next

(* Types, which include that every counter stays a natural number. *)
THEOREM TypeCorrect == Spec => []TypeOK
<1>1. TInv => TypeOK
  BY DEF TInv
<1>2. QED
  BY <1>1, InitTInv, NextTInv, PTL DEF Spec

-----------------------------------------------------------------------------
(* What a NOR call has done so far.  Exact(c) is about a core c that has   *)
(* the bus and found the flash ready: the flash is what it was at the      *)
(* claim, but for the part of the call that is done.                       *)
SoFar(c) == IF request[c].kind = "write" THEN Prefix(before, request[c], actual[c]) ELSE before

Exact(c) ==
  /\ pc[c] \in {"begin", "wren", "command"} => ~wip /\ cells = SoFar(c)
  /\ pc[c] = "command" => wel
  /\ pc[c] = "wait" => cells = IF request[c].kind = "write" THEN SoFar(c)
                               ELSE AfterErase(before, request[c].sector)
  /\ pc[c] = "release" /\ ret[c] = "EOK" => cells = Outcome(before, request[c])
  /\ pc[c] = "fpgawrite" => cells = before

ExactInv == \A c \in Cores : Talking(c) /\ ~busyAtClaim /\ ~Wraps(request[c]) => Exact(c)

EInv == IInv /\ TInv /\ ExactInv

LEMMA PrefixNone ==
  ASSUME NEW f \in [Cell -> Value], NEW r \in WriteRequest PROVE Prefix(f, r, 0) = f
<1>1. \A a \in Cell : a \notin r.addr .. r.addr + 0 - 1
  BY DEF WriteRequest
<1>2. QED
  BY <1>1 DEF Prefix

InFlash(r) == r.addr + Length(r) <= FlashSize

(* A sum that does not wrap is checked as it is. *)
LEMMA FitsExactly ==
  ASSUME NEW r \in NorRequest, r.kind \in {"read", "write"}, Fits(r), ~Wraps(r)
  PROVE  InFlash(r)
<1>1. r.addr \in Nat /\ Length(r) \in Nat
  BY DEF NorRequest, Length
<1>2. PICK n \in Nat : n = r.addr + Length(r)
  BY <1>1
<1>3. n < WORD /\ n % WORD <= FlashSize /\ WORD \in Nat \ {0}
  BY <1>1, <1>2, SpiAssumption DEF Fits, Wraps
<1>4. n % WORD = n
  BY <1>3
<1>5. QED
  BY <1>2, <1>3, <1>4 DEF InFlash

(* An address in the flash is sent as it is. *)
LEMMA AddressSent ==
  ASSUME NEW r \in WriteRequest, NEW done \in Nat, done < Len(r.data), InFlash(r)
  PROVE  CommandAddress(r, done) = r.addr + done
<1>1. r.addr \in Nat /\ Len(r.data) \in Nat /\ FlashSize \in Nat /\ r.addr + Len(r.data) <= FlashSize
  BY DEF WriteRequest, FlashSize, InFlash, Length
<1>2. PICK x \in Nat : x = r.addr + done
  BY <1>1
<1>3. x < FlashSize
  BY <1>1, <1>2
<1>4. x % FlashSize = x
  BY <1>1, <1>3
<1>5. QED
  BY <1>2, <1>4 DEF CommandAddress

(* After a core's step no other core can be talking. *)
LEMMA OthersSilent ==
  ASSUME IInv, NEW c \in Cores, CoreStep(c), NEW k \in Cores, Talking(k)'
  PROVE  k = c
<1> SUFFICES ASSUME k # c PROVE FALSE
  OBVIOUS
<1>1. pc'[k] = pc[k]
  BY DEF CoreStep, Claim, Release, NorAsk, NorWrite, NorErase, WriteEnable, Command, Poll,
         FpgaRead, FpgaUnlock, FpgaWrite, Goto, Conclude, IInv, PcTypeOK
<1>2. Talking(k) /\ owner = k /\ ~Talking(c)
  BY <1>1 DEF Talking, IInv, BusIsExclusive
<1>3. ~Claim(c)
  BY <1>2, SpiAssumption DEF Claim
<1>4. QED
  BY <1>2, <1>3 DEF CoreStep, Release, NorAsk, NorWrite, NorErase, WriteEnable, Command, Poll,
         FpgaRead, FpgaUnlock, FpgaWrite, Talking

LEMMA CommandExact ==
  ASSUME EInv, NEW c \in Cores, Command(c), ~busyAtClaim, ~Wraps(request[c])
  PROVE  Exact(c)'
<1> DEFINE r == request[c]
<1>1. /\ r \in NorRequest \cup FpgaRequest /\ actual[c] \in Nat /\ pc[c] = "command"
      /\ r.kind \in {"write", "erase"}
      /\ actual \in [Cores -> Nat] /\ before \in [Cell -> Value]
  BY DEF EInv, TInv, TypeOK, LoopInv, InLoop, Command
<1>2. wel /\ ~wip /\ cells = SoFar(c)
  BY <1>1 DEF EInv, ExactInv, Exact, Talking
<1>3. pc'[c] = "wait" /\ UNCHANGED <<request, before>>
  BY <1>1 DEF Command, Goto, EInv, IInv, PcTypeOK
<1>4. CASE r.kind = "write"
  <2>1. r \in WriteRequest /\ actual[c] < Len(r.data)
    BY <1>1, <1>4, WriteRequests DEF EInv, TInv, LoopInv
  <2>2. cells = Prefix(before, r, actual[c])
    BY <1>2, <1>4 DEF SoFar
  <2>a. CommandAddress(r, actual[c]) = r.addr + actual[c]
    <3>1. r \in NorRequest /\ Fits(r)
      BY <1>1, <1>4 DEF EInv, TInv, LoopInv, FpgaRequest
    <3>2. InFlash(r)
      BY <1>4, <3>1, FitsExactly
    <3>3. QED
      BY <1>1, <2>1, <3>2, AddressSent
  <2>3. /\ cells' = AfterProgram(cells, r.addr + actual[c],
                        SubSeq(r.data, actual[c] + 1, actual[c] + ChunkLen(r, actual[c])))
        /\ actual'[c] = actual[c] + ChunkLen(r, actual[c])
    BY <1>1, <1>2, <1>4, <2>a DEF Command
  <2>4. cells' = Prefix(before, r, actual'[c])
    BY <1>1, <2>1, <2>2, <2>3, ChunkExtendsPrefix
  <2>5. QED
    BY <1>2, <1>3, <1>4, <2>4 DEF Exact, SoFar
<1>5. CASE r.kind # "write"
  <2>1. cells' = AfterErase(before, r.sector)
    BY <1>2, <1>5 DEF Command, SoFar
  <2>2. QED
    BY <1>3, <1>5, <2>1 DEF Exact
<1>6. QED
  BY <1>4, <1>5

LEMMA CoreStepExact ==
  ASSUME EInv, NEW c \in Cores, CoreStep(c), Talking(c)', ~busyAtClaim', ~Wraps(request[c])'
  PROVE  Exact(c)'
<1> USE DEF Goto, Conclude, chip
<1>0. /\ request[c] \in NorRequest \cup FpgaRequest
      /\ pc \in [Cores -> {"idle", "claim", "begin", "wren", "command", "wait", "release",
                           "unlock", "reclaim", "fpgawrite"}]
      /\ ret \in [Cores -> {"none", "EOK", "EFAIL"}] /\ wip \in BOOLEAN
      /\ cells \in [Cell -> Value] /\ before \in [Cell -> Value]
      /\ actual[c] \in Nat
  BY DEF EInv, TInv, TypeOK
<1>b. request' = request /\ ~Wraps(request[c])
  BY DEF CoreStep, Claim, Release, NorAsk, NorWrite, NorErase, WriteEnable, Command, Poll,
         FpgaRead, FpgaUnlock, FpgaWrite
<1>a. Talking(c) /\ ~busyAtClaim => Exact(c)
  BY <1>b DEF EInv, ExactInv
<1>1. CASE Claim(c)
  <2>1. pc[c] = "claim" /\ request[c].kind = "write" =>
          actual[c] = 0 /\ request[c] \in WriteRequest
    BY <1>0, WriteRequests DEF EInv, TInv, LoopInv
  <2>2. before' = cells /\ cells' = cells /\ ~wip /\ wip' = wip
    BY <1>1 DEF Claim
  <2>3. CASE pc[c] = "claim"
    <3>1. pc'[c] = "begin" /\ UNCHANGED <<request, actual>>
      BY <1>0, <1>1, <2>3 DEF Claim
    <3>2. SoFar(c)' = cells
      BY <1>0, <2>1, <2>2, <2>3, <3>1, PrefixNone DEF SoFar
    <3>3. QED
      BY <2>2, <3>1, <3>2 DEF Exact
  <2>4. CASE pc[c] = "reclaim"
    BY <1>0, <1>1, <2>2, <2>4 DEF Claim, Exact
  <2>5. QED
    BY <1>1, <2>3, <2>4 DEF Claim
<1>2. CASE Release(c)
  BY <1>0, <1>2 DEF Release, Talking
<1>3. CASE NorAsk(c)
  BY <1>0, <1>a, <1>3 DEF NorAsk, Talking, Exact, SoFar, Outcome
<1>4. CASE NorWrite(c)
  <2>1. actual[c] <= Len(request[c].data) /\ Len(request[c].data) \in Nat
    BY <1>0, <1>4, WriteRequests DEF NorWrite, EInv, TInv, LoopInv, WriteRequest
  <2>2. ~wip /\ cells = Prefix(before, request[c], actual[c])
    BY <1>0, <1>a, <1>4 DEF NorWrite, Talking, Exact, SoFar
  <2>3. ~(actual[c] < Len(request[c].data)) => cells = Outcome(before, request[c])
    <3>1. ~(actual[c] < Len(request[c].data)) => actual[c] = Len(request[c].data)
      BY <1>0, <2>1
    <3>2. QED
      BY <3>1, <2>2, <1>4 DEF Outcome, NorWrite
  <2>4. UNCHANGED <<cells, before, request, actual, wip>>
    BY <1>4 DEF NorWrite
  <2>5. QED
    BY <1>0, <1>4, <2>2, <2>3, <2>4 DEF NorWrite, Exact, SoFar
<1>5. CASE NorErase(c)
  BY <1>0, <1>a, <1>5 DEF NorErase, Talking, Exact, SoFar
<1>6. CASE WriteEnable(c)
  BY <1>0, <1>a, <1>6 DEF WriteEnable, Talking, Exact, SoFar
<1>7. CASE Command(c)
  BY <1>7, CommandExact DEF Command
<1>8. CASE Poll(c)
  <2>1. request[c].kind # "write" => request[c].kind = "erase"
    BY <1>0, <1>8 DEF Poll, EInv, TInv, LoopInv, InLoop
  <2>2. cells = IF request[c].kind = "write" THEN SoFar(c)
                ELSE AfterErase(before, request[c].sector)
    BY <1>a, <1>8 DEF Poll, Exact, Talking
  <2>3. UNCHANGED <<cells, before, request, actual, wip>>
    BY <1>8 DEF Poll
  <2>4. CASE wip
    BY <1>0, <1>8, <2>2, <2>3, <2>4 DEF Poll, Ready, Expired, Exact, SoFar
  <2>5. CASE ~wip /\ request[c].kind = "write"
    BY <1>0, <1>8, <2>2, <2>3, <2>5 DEF Poll, Ready, Exact, SoFar
  <2>6. CASE ~wip /\ request[c].kind # "write"
    BY <1>0, <1>8, <2>1, <2>2, <2>3, <2>6 DEF Poll, Ready, Exact, Outcome
  <2>7. QED
    BY <1>0, <2>4, <2>5, <2>6
<1>9. CASE FpgaRead(c) \/ FpgaUnlock(c)
  BY <1>0, <1>9 DEF FpgaRead, FpgaUnlock, Exact
<1>10. CASE FpgaWrite(c)
  <2>1. ~IsNor(request[c]) /\ cells = before /\ UNCHANGED <<cells, before, request>>
    BY <1>a, <1>10 DEF FpgaWrite, EInv, TInv, RegisterInv, Exact, Talking
  <2>2. cells' = Outcome(before, request[c])'
    BY <2>1 DEF IsNor, Outcome
  <2>3. QED
    BY <1>0, <1>10, <2>2 DEF FpgaWrite, Exact
<1>11. QED
  BY <1>1, <1>2, <1>3, <1>4, <1>5, <1>6, <1>7, <1>8, <1>9, <1>10 DEF CoreStep

LEMMA NextExact == EInv /\ [Next]_vars => ExactInv'
<1> SUFFICES ASSUME EInv, [Next]_vars, NEW k \in Cores, Talking(k)', ~busyAtClaim',
                    ~Wraps(request[k])'
             PROVE  Exact(k)'
  BY DEF ExactInv
<1>0. pc \in [Cores -> {"idle", "claim", "begin", "wren", "command", "wait", "release",
                        "unlock", "reclaim", "fpgawrite"}]
  BY DEF EInv, TInv, TypeOK
<1>1. CASE \E c \in Cores : CoreStep(c)
  BY <1>1, OthersSilent, CoreStepExact DEF EInv
<1>2. CASE \E c \in Cores : \E r \in Request : Call(c, r)
  <2>1. PICK c \in Cores, r \in Request : Call(c, r)
    BY <1>2
  <2>2. k # c
    BY <1>0, <2>1 DEF Call, Goto, Talking
  <2>3. Talking(k) /\ ~busyAtClaim
    BY <1>0, <2>1, <2>2 DEF Call, Goto, Talking
  <2>4. /\ pc'[k] = pc[k] /\ request'[k] = request[k] /\ actual'[k] = actual[k]
        /\ ret'[k] = ret[k] /\ UNCHANGED <<cells, before, wip, wel>>
    BY <1>0, <2>1, <2>2 DEF Call, Goto, chip, EInv, TInv, TypeOK
  <2>5. QED
    BY <2>3, <2>4 DEF EInv, ExactInv, Exact, SoFar
<1>3. CASE FlashDone
  BY <1>3 DEF FlashDone, thread, EInv, ExactInv, Exact, SoFar, Talking
<1>4. CASE Reset
  BY <1>4 DEF Reset, Talking
<1>5. CASE UNCHANGED vars
  BY <1>5 DEF vars, thread, chip, EInv, ExactInv, Exact, SoFar, Talking
<1>6. QED
  BY <1>1, <1>2, <1>3, <1>4, <1>5 DEF Next

(* A NOR call that found the flash ready and reports success has changed   *)
(* exactly the cells it was asked to change: nor_write's division into     *)
(* page programs neither loses, wraps nor touches a cell, for every page   *)
(* and sector size, and no other core gets in between.                     *)
THEOREM CallsAreExact == Spec => []NorCallsExact
<1>1. Init => EInv
  BY InitIInv, InitTInv DEF EInv, ExactInv, Init, Talking
<1>2. EInv /\ [Next]_vars => EInv'
  BY NextIInv, NextTInv, NextExact DEF EInv
<1>3. EInv => NorCallsExact
  <2> SUFFICES ASSUME EInv, NEW c \in Cores, pc[c] = "release", ret[c] = "EOK", ~busyAtClaim,
                      ~Wraps(request[c])
               PROVE  /\ cells = Outcome(before, request[c])
                      /\ request[c].kind \in {"read", "write"} =>
                           request[c].addr + Length(request[c]) <= FlashSize
    BY DEF NorCallsExact
  <2>1. cells = Outcome(before, request[c])
    BY DEF EInv, ExactInv, Exact, Talking
  <2>2. ASSUME request[c].kind \in {"read", "write"}
        PROVE  request[c].addr + Length(request[c]) <= FlashSize
    <3>1. request[c] \in NorRequest /\ Fits(request[c])
      BY <2>2 DEF EInv, TInv, TypeOK, LoopInv, FpgaRequest
    <3>2. QED
      BY <2>2, <3>1, FitsExactly DEF InFlash
  <2>3. QED
    BY <2>1, <2>2
<1>4. QED
  BY <1>1, <1>2, <1>3, PTL DEF Spec

-----------------------------------------------------------------------------
(* The FPGA's registers.  The driver gives the bus back between the read   *)
(* and the write of a change, so that the value a core carries over is     *)
(* good only while no other core changes the register.                     *)

OneFpgaCore == \A c, d \in FpgaCores : c = d

(* The NOR's write protection is not asked for (see Modify). *)
NoProtectNor == \A r \in Request : ~ (r.kind = "protect" /\ r.device = "nor" /\ r.on)

AskedInv ==
  /\ \A c \in Cores : pc[c] # "idle" /\ ~IsNor(request[c]) => c \in FpgaCores /\ request[c] \in Request
  /\ ~garbled =>
       /\ regs = wanted
       /\ \A c \in Cores : pc[c] \in {"unlock", "reclaim", "fpgawrite"} =>
            value[c] = Intended(request[c], regs[Register(request[c])])

LEMMA ModifyIntended ==
  ASSUME NoProtectNor, NEW r \in Request, ~IsNor(r), NEW v
  PROVE  Modify(r, v) = Intended(r, v)
<1>1. r \in FpgaRequest
  BY SpiAssumption, FpgaRequests
<1>2. CASE r.kind = "protect" /\ r.device = "nor"
  <2>1. r.on = FALSE
    BY <1>1, <1>2 DEF NoProtectNor, FpgaRequest
  <2>2. Bit(r) = NorBit
    BY <1>2 DEF Bit
  <2>3. Intended(r, v) = v \cup {NorBit}
    BY <1>2, <2>1, <2>2 DEF Intended
  <2>4. QED
    BY <1>2, <2>3 DEF Modify
<1>3. CASE ~ (r.kind = "protect" /\ r.device = "nor")
  BY <1>3 DEF Modify
<1>4. QED
  BY <1>2, <1>3

LEMMA InitAsked == Init => AskedInv
  BY DEF Init, AskedInv, IsNor

(* Steps that leave the registers and what the cores carry alone. *)
LEMMA SilentAsked ==
  ASSUME AskedInv, TypeOK, NEW c \in Cores, NEW l,
         pc' = [pc EXCEPT ![c] = l], pc[c] # "idle",
         l \in {"unlock", "reclaim", "fpgawrite"} => pc[c] \in {"unlock", "reclaim", "fpgawrite"},
         UNCHANGED <<request, value, regs, wanted, garbled>>
  PROVE  AskedInv'
<1>1. \A d \in Cores : pc'[d] = IF d = c THEN l ELSE pc[d]
  BY DEF TypeOK
<1>2. QED
  BY <1>1 DEF AskedInv

LEMMA CoreStepAsked ==
  ASSUME OneFpgaCore, NoProtectNor, TInv, AskedInv, NEW c \in Cores, CoreStep(c)
  PROVE  AskedInv'
<1>0. TypeOK
  BY DEF TInv
<1>1. CASE Claim(c)
  BY <1>0, <1>1, SilentAsked DEF Claim, Goto
<1>2. CASE Release(c)
  BY <1>0, <1>2, SilentAsked DEF Release, Goto
<1>3. CASE NorAsk(c)
  BY <1>0, <1>3, SilentAsked DEF NorAsk, Goto, Conclude
<1>4. CASE NorWrite(c)
  BY <1>0, <1>4, SilentAsked DEF NorWrite, Goto, Conclude
<1>5. CASE NorErase(c)
  BY <1>0, <1>5, SilentAsked DEF NorErase, Goto
<1>6. CASE WriteEnable(c)
  BY <1>0, <1>6, SilentAsked DEF WriteEnable, Goto
<1>7. CASE Command(c)
  BY <1>0, <1>7, SilentAsked DEF Command, Goto
<1>8. CASE Poll(c)
  <2>1. CASE UNCHANGED pc
    BY <1>8, <2>1 DEF Poll, AskedInv
  <2>2. CASE \E l \in {"begin", "release"} : pc' = [pc EXCEPT ![c] = l]
    BY <1>0, <1>8, <2>2, SilentAsked DEF Poll
  <2>3. QED
    BY <1>8, <2>1, <2>2 DEF Poll, Goto, Conclude
<1>9. CASE FpgaRead(c)
  <2>1. c \in FpgaCores /\ request[c] \in Request /\ ~IsNor(request[c])
    BY <1>9 DEF FpgaRead, AskedInv
  <2>2. PICK v \in SUBSET Bits[Register(request[c])] :
          /\ ReadWord(Register(request[c]), v)
          /\ value' = [value EXCEPT ![c] = Modify(request[c], v)]
    BY <1>9 DEF FpgaRead
  <2>3. /\ pc' = [pc EXCEPT ![c] = "unlock"] /\ UNCHANGED <<request, regs, wanted>>
        /\ pc[c] # "idle"
    BY <1>9 DEF FpgaRead, Goto
  <2>4. \A d \in Cores : /\ pc'[d] = IF d = c THEN "unlock" ELSE pc[d]
                         /\ value'[d] = IF d = c THEN Intended(request[c], v) ELSE value[d]
    BY <1>0, <2>1, <2>2, <2>3, ModifyIntended DEF TypeOK
  <2>5. ~garbled' => ~garbled /\ v = regs[Register(request[c])]
    BY <2>2 DEF ReadWord
  <2>6. QED
    BY <2>1, <2>3, <2>4, <2>5 DEF AskedInv
<1>10. CASE FpgaUnlock(c)
  BY <1>0, <1>10, SilentAsked DEF FpgaUnlock, Goto
<1>11. CASE FpgaWrite(c)
  <2> DEFINE reg == Register(request[c])
  <2>1. /\ WriteWord(reg, value[c])
        /\ wanted' = [wanted EXCEPT ![reg] = Intended(request[c], wanted[reg])]
        /\ pc' = [pc EXCEPT ![c] = "release"] /\ UNCHANGED <<request, value>>
        /\ pc[c] = "fpgawrite"
    BY <1>11 DEF FpgaWrite, Conclude, Goto
  <2>2. \A d \in Cores : pc'[d] = IF d = c THEN "release" ELSE pc[d]
    BY <1>0, <2>1 DEF TypeOK
  <2>3. ASSUME NEW d \in Cores, pc'[d] \in {"unlock", "reclaim", "fpgawrite"} PROVE FALSE
    <3>1. d # c /\ pc[d] \in {"unlock", "reclaim", "fpgawrite"}
      BY <2>2, <2>3
    <3>2. ~IsNor(request[d]) /\ ~IsNor(request[c])
      BY <2>1, <3>1 DEF TInv, RegisterInv
    <3>3. d \in FpgaCores /\ c \in FpgaCores
      BY <2>1, <3>1, <3>2 DEF AskedInv
    <3>4. QED
      BY <3>1, <3>3 DEF OneFpgaCore
  <2>4. ~garbled' => regs' = wanted'
    <3>1. SUFFICES ASSUME ~garbled' PROVE regs' = wanted'
      OBVIOUS
    <3>2. regs' = [regs EXCEPT ![reg] = value[c]] /\ ~garbled
      BY <2>1, <3>1 DEF WriteWord
    <3>3. regs = wanted /\ value[c] = Intended(request[c], regs[reg])
      BY <2>1, <3>2 DEF AskedInv
    <3>4. QED
      BY <2>1, <3>2, <3>3
  <2>5. QED
    BY <2>1, <2>2, <2>3, <2>4 DEF AskedInv
<1>12. QED
  BY <1>1, <1>2, <1>3, <1>4, <1>5, <1>6, <1>7, <1>8, <1>9, <1>10, <1>11 DEF CoreStep

LEMMA NextAsked ==
  ASSUME OneFpgaCore, NoProtectNor, TInv, AskedInv, [Next]_vars
  PROVE  AskedInv'
<1>1. CASE \E c \in Cores : CoreStep(c)
  BY <1>1, CoreStepAsked
<1>2. ASSUME NEW c \in Cores, NEW r \in Request, Call(c, r) PROVE AskedInv'
  <2>1. /\ UNCHANGED <<value, regs, wanted, garbled>>
        /\ \A d \in Cores : /\ pc'[d] = IF d = c THEN "claim" ELSE pc[d]
                            /\ request'[d] = IF d = c THEN r ELSE request[d]
    BY <1>2 DEF Call, Goto, TInv, TypeOK
  <2>2. IsNor(r) \/ c \in FpgaCores
    BY <1>2 DEF Call
  <2>3. QED
    BY <2>1, <2>2 DEF AskedInv
<1>3. CASE FlashDone
  BY <1>3 DEF FlashDone, thread, AskedInv
<1>4. CASE Reset
  BY <1>4 DEF Reset, AskedInv
<1>5. CASE UNCHANGED vars
  BY <1>5 DEF vars, thread, AskedInv
<1>6. QED
  BY <1>1, <1>2, <1>3, <1>4, <1>5 DEF Next

(* With one core that changes the FPGA's registers, the LEDs and the write *)
(* protect bits are what its calls asked for, whatever the other cores do  *)
(* on the bus in between (evmc66x_fpga.c:136-378); the one request that    *)
(* does something else is fpgaEnableNorWriteProtect.                       *)
THEOREM OneCoreIsObeyed ==
  ASSUME OneFpgaCore, NoProtectNor
  PROVE  Spec => []RegistersAsAsked
<1>1. Init => TInv /\ AskedInv
  BY InitTInv, InitAsked
<1>2. TInv /\ AskedInv /\ [Next]_vars => (TInv /\ AskedInv)'
  BY NextTInv, NextAsked
<1>3. AskedInv => RegistersAsAsked
  BY DEF AskedInv, RegistersAsAsked
<1>4. QED
  BY <1>1, <1>2, <1>3, PTL DEF Spec
=============================================================================
