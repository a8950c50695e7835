----------------------------- MODULE FlashWrite -----------------------------
(***************************************************************************)
(* The NAND/NOR half of the device API of platform.c: opening a flash      *)
(* (which reads the NAND's bad block markers into RAM), erasing a block,   *)
(* marking a block bad, and platform_device_write, which writes a buffer   *)
(* of any length by reading, erasing and programming one block after the   *)
(* other.  One client uses the device; the board may be reset at any step. *)
(* It names the device by p_device->handle, as the test applications do,   *)
(* which platform_device_close sets to 0.                                  *)
(*                                                                         *)
(* Abstracted: a page holds one of the values in Image, lengths and        *)
(* offsets are in units of which a page holds PageSize, the drivers        *)
(* (readNandPage, nandFlashBlockErase, writeNandPage, nor_read, nor_erase, *)
(* nor_write) succeed or fail as a whole.                                  *)
(***************************************************************************)
EXTENDS Integers, Sequences, FiniteSets

CONSTANTS
  NBlocks,     \* p_device->block_count
  NPages,      \* p_device->page_count, pages per block
  PageSize,    \* p_device->page_size
  Image,       \* what a page can hold
  Erased,      \* a page of 0xFF bytes
  Junk,        \* a page nobody wrote: beyond pBlock, or torn by a failure
  Pad(_),      \* Pad(d): a page that starts with d and is 0xFF from there on
  Delivered,   \* content of the flash at power up
  Buffers,     \* the caller's buffers: sequences of page images
  Overshoot,   \* bound: how far beyond the bad block list its scan may run
  MaxCalls,    \* bound: how many calls the client makes
  RoomChecked  \* TRUE: on the NAND the caller only writes what fits in the good blocks

Block == 0 .. NBlocks - 1
Page  == 0 .. NPages - 1

ASSUME FlashAssumption ==
  /\ NBlocks \in Nat \ {0}
  /\ NPages \in Nat \ {0}
  /\ PageSize \in Nat \ {0}
  /\ {Erased, Junk} \subseteq Image
  /\ \A d \in Image : Pad(d) \in Image
  /\ Delivered \in [Block -> [Page -> Image]]
  /\ Buffers \subseteq Seq(Image)
  /\ Overshoot \in Nat \ {0}
  /\ MaxCalls \in Nat
  /\ RoomChecked \in BOOLEAN

VARIABLES
  kind,      \* the device: "NAND" or "NOR"
  flash,     \* flash[b][p]: content of page p of block b
  marked,    \* blocks whose spare area carries the bad block marker
  bblist,    \* gDeviceNandBBlist: blocks the RAM copy lists as bad
  opened,    \* the client has opened the device
  calls,     \* calls the client has made
  pc,        \* where platform_device_write is: idle, pick, read, erase, program
  block, page, len, bufindex, start, buf, pBlock, \* its locals
  held,      \* heap buffers it has allocated
  status     \* what the last call returned

(* Observation only, never read by an action's guard: *)
VARIABLES
  before,    \* flash when the current or last write was called
  placed,    \* where it programmed the pages of buf, in order
  torn,      \* blocks erased and not completely programmed since
  overran    \* it has erased or programmed beyond the last block

device == <<kind, marked, bblist, opened>>
locals == <<block, page, len, bufindex, start, buf, pBlock>>
vars == <<flash, device, calls, pc, locals, held, status, before, placed, torn, overran>>

(* Blocks to be skipped; gDeviceNor.bblist is always NULL. *)
Listed == IF kind = "NAND" THEN bblist ELSE {}

(* The block the hardware addresses: PACK_ADDR keeps the low bits of the   *)
(* block number, so that block NBlocks of the NAND is block 0.             *)
Phys(b) == IF b = NBlocks THEN 0 ELSE b

BlockSize == NPages * PageSize
BlockOf(off) == off \div BlockSize
PageOf(off) == (off % BlockSize) \div PageSize

(* platform_offset_to_blocknpage returns Platform_EOK. *)
Addressable(off) == /\ (off % BlockSize) % PageSize = 0
                    /\ BlockOf(off) <= NBlocks
                    /\ PageOf(off) <= NPages

(* Mutant of GoodFrom: the search starts over at the first block. *)
AnyGood(b) == Block \ Listed

GoodFrom(b) == {i \in Block : i >= b /\ i \notin Listed}

(* k pages from page p of block b on fit into the good blocks. *)
Room(b, p, k) ==
  k <= Cardinality(GoodFrom(b)) * NPages - (IF b \in GoodFrom(b) THEN p ELSE 0)

(* Mutant of ScanStops: only one bad block is skipped. *)
SkipOnce(b) == {IF b \in Listed THEN b + 1 ELSE b}

(* The blocks the scan for a good block can stop at when it starts at b.   *)
(* It has no bound: where no good block is left it reads the bytes after   *)
(* the list, whatever they are.                                            *)
ScanStops(b) ==
  CASE kind = "NOR" -> {b}
    [] kind = "NAND" /\ GoodFrom(b) # {} ->
         {i \in GoodFrom(b) : \A j \in GoodFrom(b) : i <= j}
    [] OTHER -> {i \in NBlocks .. NBlocks + Overshoot : i >= b}

-----------------------------------------------------------------------------
Init ==
  /\ kind \in {"NAND", "NOR"}
  /\ flash = Delivered
  /\ marked \in SUBSET (IF kind = "NAND" THEN Block ELSE {})
  /\ bblist = Block
  /\ opened = FALSE /\ calls = 0
  /\ pc = "idle"
  /\ block = 0 /\ page = 0 /\ len = 0 /\ bufindex = 0
  /\ start = [b |-> 0, p |-> 0]
  /\ buf = <<>>
  /\ pBlock = [p \in Page |-> Junk]
  /\ held = {}
  /\ status = "none"
  /\ before = flash /\ placed = <<>> /\ torn = {} /\ overran = FALSE

(* The client makes its next call. *)
Calling == pc = "idle" /\ calls < MaxCalls /\ calls' = calls + 1

(* The other calls: the locals of the last write are gone. *)
Forget ==
  /\ block' = 0 /\ page' = 0 /\ len' = 0 /\ bufindex' = 0
  /\ start' = [b |-> 0, p |-> 0]
  /\ buf' = <<>>
  /\ pBlock' = [p \in Page |-> Junk]
  /\ before' = flash' /\ placed' = <<>> /\ overran' = FALSE

(* platform_device_open.  NandGetDetails reads the markers block by block  *)
(* and gives up at the first one it cannot read; the handle is then not    *)
(* touched.                                                                *)
Open ==
  /\ Calling
  /\ \/ /\ bblist' = IF kind = "NAND" THEN marked ELSE bblist
        /\ opened' = TRUE /\ status' = "EOK"
     \/ /\ \E n \in Block :
             bblist' = IF kind = "NAND"
                       THEN {b \in Block : b \in (IF b < n THEN marked ELSE bblist)}
                       ELSE bblist
        /\ opened' = opened /\ status' = "EFAIL"
  /\ UNCHANGED <<kind, flash, marked, pc, held, torn>>
  /\ Forget

(* platform_device_close *)
Close ==
  /\ Calling /\ opened
  /\ opened' = FALSE /\ status' = "EOK"
  /\ UNCHANGED <<kind, flash, marked, bblist, pc, held, torn>>
  /\ Forget

(* A call that is refused at once: by a handle that is closed, with a      *)
(* block number that is too large, or of what the device does not have.    *)
Refused ==
  /\ Calling
  /\ status' \in {"EINVALID", "EUNSUPPORTED"}
  /\ UNCHANGED <<kind, flash, marked, bblist, opened, pc, held, torn>>
  /\ Forget

(* A page torn by a failed or interrupted erase or program: it may hold    *)
(* what it held, what it should hold, or neither.                          *)
MaybeTorn(old, new) == {old, new, Junk}

(* platform_device_erase_block.  The NAND's markers go with the spare area *)
(* and the RAM copy of the list is not consulted.                          *)
EraseBlock(b) ==
  /\ Calling /\ opened
  /\ \/ /\ flash' = [flash EXCEPT ![b] = [p \in Page |-> Erased]]
        /\ marked' = marked \ {b} /\ torn' = torn \ {b}
        /\ status' = "EOK"
     \/ /\ \E v \in {flash[b], [p \in Page |-> Junk]} : flash' = [flash EXCEPT ![b] = v]
        /\ torn' = torn \cup {b}
        /\ status' = "EFAIL"
        /\ UNCHANGED marked
  /\ UNCHANGED <<kind, bblist, opened, pc, held>>
  /\ Forget

(* platform_device_mark_block_bad: the marker on the device changes, not   *)
(* the list.  The spare area of page 0 is read, changed and written back;  *)
(* a read that has failed is ignored, and what is written then spoils the  *)
(* ECC that the page is read with.                                         *)
MarkBad(b) ==
  /\ Calling /\ opened /\ kind = "NAND"
  /\ \/ marked' = marked \cup {b} /\ status' = "EOK"
     \/ marked' \in {marked, marked \cup {b}} /\ status' = "EFAIL"
  /\ \E image \in {flash[b][0], Junk} : flash' = [flash EXCEPT ![b][0] = image]
  /\ UNCHANGED <<kind, bblist, opened, pc, held, torn>>
  /\ Forget

-----------------------------------------------------------------------------
(* Mutant of Exit: the return code is lost. *)
ExitOK(st) == pc' = "idle" /\ held' = {} /\ status' = "EOK"

(* Label FLASHWRITE_ERROR, which the loop also runs into when it is done. *)
Exit(st) == /\ pc' = "idle"
            /\ held' = {}
            /\ status' = st

(* platform_device_write up to the loop: arguments, buffers, address. *)
WriteCall(off, n, data) ==
  /\ Calling /\ opened
  /\ RoomChecked /\ kind = "NAND" => Room(BlockOf(off), PageOf(off), Len(data))
  /\ \/ n = 0 /\ Exit("EINVALID") /\ UNCHANGED locals
     \/ n > 0 /\ Exit("EFAIL") /\ UNCHANGED locals      \* Osal_platformMalloc
     \/ n > 0 /\ ~Addressable(off) /\ Exit("EUNSUPPORTED") /\ UNCHANGED locals
     \/ /\ n > 0 /\ Addressable(off)
        /\ pc' = "pick"
        /\ held' = {"pBlock", "pPage"}
        /\ status' = "EOK"
        /\ block' = BlockOf(off)
        /\ start' = [b |-> BlockOf(off), p |-> PageOf(off)]
        /\ len' = n /\ bufindex' = 0 /\ buf' = data
        /\ UNCHANGED <<page, pBlock>>
  /\ before' = flash /\ placed' = <<>> /\ overran' = FALSE
  /\ UNCHANGED <<flash, device, torn>>

(* Head of the loop: stop when everything is written, skip bad blocks. *)
PickBlock ==
  /\ pc = "pick"
  /\ \/ /\ len = 0
        /\ Exit("EOK")
        /\ UNCHANGED block
     \/ /\ len > 0
        /\ \E b \in ScanStops(block) :
             /\ block' = b
             /\ IF b > NBlocks THEN Exit("EFAIL")
                ELSE pc' = "read" /\ UNCHANGED <<held, status>>
  /\ UNCHANGED <<flash, device, calls, page, len, bufindex, start, buf, pBlock,
                 before, placed, torn, overran>>

(* Mutants of ReadBlock: a block that was read is programmed without being *)
(* erased; a read error is retried for ever.                               *)
ReadWithoutErase ==
  /\ pc = "read"
  /\ pBlock' = flash[Phys(block)]
  /\ pc' = "program"
  /\ UNCHANGED <<flash, device, calls, block, page, len, bufindex, start, buf,
                 held, status, before, placed, torn, overran>>
ReadRetried ==
  /\ pc = "read"
  /\ \/ pBlock' = flash[Phys(block)] /\ pc' = "erase"
     \/ pc' = "pick" /\ UNCHANGED pBlock
  /\ UNCHANGED <<flash, device, calls, block, page, len, bufindex, start, buf,
                 held, status, before, placed, torn, overran>>

(* Read the block into pBlock.  nor_read refuses addresses beyond the end. *)
ReadBlock ==
  /\ pc = "read"
  /\ \/ /\ kind = "NOR" => block < NBlocks
        /\ pBlock' = flash[Phys(block)]
        /\ pc' = "erase"
        /\ UNCHANGED <<held, status>>
     \/ Exit("EFAIL") /\ UNCHANGED pBlock
  /\ UNCHANGED <<flash, device, calls, block, page, len, bufindex, start, buf,
                 before, placed, torn, overran>>

EraseForWrite ==
  /\ pc = "erase"
  /\ LET b == Phys(block) IN
     /\ \/ /\ flash' = [flash EXCEPT ![b] = [p \in Page |-> Erased]]
           /\ marked' = marked \ {b}
           /\ pc' = "program"
           /\ UNCHANGED <<held, status>>
        \/ /\ \E v \in {flash[b], [p \in Page |-> Junk]} :
                flash' = [flash EXCEPT ![b] = v]
           /\ Exit("EFAIL")
           /\ UNCHANGED marked
     /\ torn' = torn \cup {b}
  /\ page' = 0
  /\ overran' = (overran \/ block = NBlocks)
  /\ UNCHANGED <<kind, bblist, opened, calls, block, len, bufindex, start, buf, pBlock, before, placed>>

(* Mutant of WritesBack: the start page counts in every block. *)
WritesBackInEveryBlock == page < start.p \/ len = 0

(* Before the start page of the first block and after the end of the data, *)
(* a page is to be written back rather than taken from buf.                *)
WritesBack == \/ block = start.b /\ page < start.p
              \/ len = 0

(* The page taken from pBlock: at bufindex, the position in the caller's   *)
(* buffer, which can lie beyond the end of pBlock.                         *)
OldPage == IF bufindex \in Page THEN pBlock[bufindex] ELSE Junk

(* Mutant of PageImage: buf is indexed like the block. *)
PageImageByPage == IF page + 1 \in DOMAIN buf THEN buf[page + 1] ELSE Junk

(* What is programmed into the current page. *)
PageImage == CASE WritesBack -> OldPage
               [] ~WritesBack /\ len < PageSize -> Pad(buf[bufindex + 1])
               [] OTHER -> buf[bufindex + 1]

(* Mutant of LenAfter: the last, partial page is subtracted in full. *)
LenUnderflows == IF WritesBack THEN len ELSE len - PageSize

(* What is left to write after the current page. *)
LenAfter == IF WritesBack THEN len ELSE IF len < PageSize THEN 0 ELSE len - PageSize

ProgramPage ==
  /\ pc = "program"
  /\ LET b == Phys(block) IN
     \/ /\ flash' = [flash EXCEPT ![b][page] = PageImage]
        /\ placed' = IF WritesBack THEN placed ELSE Append(placed, <<b, page>>)
        /\ len' = LenAfter
        /\ bufindex' = IF WritesBack \/ len < PageSize THEN bufindex ELSE bufindex + 1
        /\ page' = page + 1
        /\ IF page + 1 = NPages
           THEN pc' = "pick" /\ block' = block + 1 /\ torn' = torn \ {b}
           ELSE UNCHANGED <<pc, block, torn>>
        /\ UNCHANGED <<held, status>>
     \/ /\ \E v \in MaybeTorn(flash[b][page], PageImage) :
             flash' = [flash EXCEPT ![b][page] = v]
        /\ Exit("EFAIL")
        /\ UNCHANGED <<block, page, len, bufindex, placed, torn>>
  /\ UNCHANGED <<device, calls, start, buf, pBlock, before, overran>>

WriteStep == PickBlock \/ ReadBlock \/ EraseForWrite \/ ProgramPage

(* The board is reset: the RAM copy of the list is gone (all zero is all   *)
(* bad) and the client has to open the device again.                       *)
Reset ==
  /\ opened
  /\ pc' = "idle" /\ held' = {} /\ status' = "none"
  /\ opened' = FALSE /\ bblist' = Block
  /\ UNCHANGED <<kind, flash, marked, calls, torn>>
  /\ Forget

(* Offsets a caller may pass: within the device and one block beyond. *)
Offset == 0 .. (NBlocks + 1) * BlockSize

(* Lengths for which exactly the pages of data are needed. *)
LengthOf(data) ==
  IF data = <<>> THEN {0} ELSE (Len(data) - 1) * PageSize + 1 .. Len(data) * PageSize

Next ==
  \/ Open \/ Close \/ Refused \/ Reset
  \/ \E b \in Block : EraseBlock(b) \/ MarkBad(b)
  \/ \E off \in Offset, data \in Buffers : \E n \in LengthOf(data) : WriteCall(off, n, data)
  \/ WriteStep

Spec == Init /\ [][Next]_vars

(* A call, once made, is executed to its end. *)
FairSpec == Spec /\ WF_vars(WriteStep)

-----------------------------------------------------------------------------
(* Types, and: every exit of platform_device_write has freed its buffers,  *)
(* and none is freed while a step still needs it.                          *)
TypeOK ==
  /\ kind \in {"NAND", "NOR"}
  /\ flash \in [Block -> [Page -> Image]]
  /\ marked \subseteq Block
  /\ bblist \subseteq Block
  /\ opened \in BOOLEAN
  /\ calls \in Nat
  /\ pc \in {"idle", "pick", "read", "erase", "program"}
  /\ block \in Nat
  /\ page \in Nat
  /\ len \in Nat
  /\ bufindex \in Nat
  /\ start \in [b : Nat, p : Nat]
  /\ buf \in Seq(Image)
  /\ pBlock \in [Page -> Image]
  /\ held = IF pc = "idle" THEN {} ELSE {"pBlock", "pPage"}
  /\ status \in {"none", "EOK", "EFAIL", "EINVALID", "EUNSUPPORTED"}
  /\ before \in [Block -> [Page -> Image]]
  /\ placed \in Seq(Block \X Page)
  /\ torn \subseteq Block
  /\ overran \in BOOLEAN

(* platform_device_write never touches a block the bad block list names,   *)
(* whatever fails on the way ("skip block if bad", platform.c:1441), as    *)
(* long as it has not run beyond the last block; only a client that erases *)
(* the block by number can.                                                *)
BadBlocksSpared ==
  [][\A b \in Listed : flash'[b] # flash[b] => pc = "idle" \/ overran']_vars

(* A page is programmed at most once between two erases of its block: all  *)
(* pages from the current one on are erased when it is programmed.         *)
ProgramsErasedPages ==
  pc = "program" => \A p \in Page : p >= page => flash[Phys(block)][p] = Erased

(* A write changes nothing before its start block nor beyond the block it  *)
(* has reached.                                                            *)
WriteStaysInRange ==
  ~overran => \A b \in Block : b < start.b \/ b > block => flash[b] = before[b]

(* The pages of the caller's buffer are on the flash, unchanged and in     *)
(* order: the n-th page programmed from it holds its n-th page, the last   *)
(* one padded if the data does not fill it; each follows its predecessor   *)
(* directly or starts a later block; the first is where the offset says    *)
(* unless that block is bad.  No later step of the same write disturbs it. *)
DataInPlace ==
  ~overran =>
    /\ \A k \in 1 .. Len(placed) :
         flash[placed[k][1]][placed[k][2]]
            \in IF k < Len(buf) THEN {buf[k]} ELSE {buf[k], Pad(buf[k])}
    /\ \A k \in 2 .. Len(placed) :
         \/ placed[k] = <<placed[k-1][1], placed[k-1][2] + 1>>
         \/ /\ placed[k-1][2] = NPages - 1 /\ placed[k][2] = 0
            /\ placed[k][1] \in ScanStops(placed[k-1][1] + 1)
    /\ placed # <<>> /\ start.b \notin Listed => placed[1] = <<start.b, start.p>>

(* A write that reports success has written the whole buffer. *)
SuccessIsComplete ==
  pc = "idle" /\ status = "EOK" => Len(placed) = Len(buf)

InPlaced(b, p) == \E k \in 1 .. Len(placed) : placed[k] = <<b, p>>

(* Pages the caller's data did not go to are as they were. *)
RestPreserved ==
  pc = "idle" /\ status = "EOK" =>
    \A b \in Block, p \in Page : InPlaced(b, p) \/ flash[b][p] = before[b][p]

(* They are when the data starts and ends at the boundary of a block. *)
WholeBlocksPreserveRest ==
  start.p = 0 /\ Len(buf) % NPages = 0 => RestPreserved

(* What platform_device_read returns as the k-th page from an offset on. *)
ReadPage(b, p, k) == flash[b + (p + k - 1) \div NPages][(p + k - 1) % NPages]

(* "Compare to see if what we wrote is what we read" (test_nand): after a  *)
(* successful write, a read at the same offset returns the data.           *)
ReadBack ==
  pc = "idle" /\ status = "EOK" =>
    \A k \in 1 .. Len(buf) :
      /\ start.b + (start.p + k - 1) \div NPages < NBlocks
      /\ ReadPage(start.b, start.p, k) \in {buf[k], Pad(buf[k])}

(* It does when no block from the start on is listed bad. *)
ReadBackWithoutBadBlocks ==
  ~overran /\ GoodFrom(start.b) = {b \in Block : b >= start.b} => ReadBack

(* "Make sure we didn't exceed number of blocks" (platform.c:1470). *)
NeverOverruns == ~overran

(* A call returns, however many blocks are bad. *)
WriteReturns == pc # "idle" ~> pc = "idle"

-----------------------------------------------------------------------------
(* What FlashStore sees: torn blocks have no content, and the block that   *)
(* is being programmed is the one that is worked on.                       *)
StoreSeen == [b \in Block |-> IF b \in torn THEN <<>> ELSE flash[b]]
WorkingSeen == IF pc = "program" THEN Phys(block) ELSE -1

Store == INSTANCE FlashStore WITH
  BlockImage <- [Page -> Image], Torn <- <<>>, NoBlock <- -1,
  store <- StoreSeen, working <- WorkingSeen

(* The device API keeps the promise of FlashStore: it tears one block at a *)
(* time, makes it whole before it tears the next, and changes no other,    *)
(* with failures and resets at any step (platform.c:1452-1604).            *)
ImplementsStore == Store!Spec
=============================================================================
