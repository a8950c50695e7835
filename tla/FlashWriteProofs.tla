-------------------------- MODULE FlashWriteProofs --------------------------
(***************************************************************************)
(* Proofs about FlashWrite for every geometry, buffer, bad block list and  *)
(* number of calls.  IInv strengthens the type invariant with what the     *)
(* write loop relies on between its steps: where its block index can be,   *)
(* that the pages still to be programmed are erased, and that the rest of  *)
(* the buffer covers the rest of the length.  PlaceInv says where the      *)
(* caller's data goes: the pages placed so far lie before the position of  *)
(* the loop, the last of them directly before it, and only the bad blocks  *)
(* are in between.  MapInv carries the refinement of FlashStore: a block   *)
(* is torn for as long as it is being programmed.                          *)
(***************************************************************************)
EXTENDS FlashWrite, TLAPS

AtBlock == pc \in {"read", "erase", "program"}

(* The current block is one the scan stopped at. *)
BlockInv == /\ AtBlock => block <= NBlocks /\ block \notin Listed
            /\ pc # "idle" => start.b <= block
            /\ pc = "program" => page \in Page
            /\ pc = "program" /\ block = NBlocks => overran

(* What is left of the buffer covers what is left of the length. *)
LengthInv == pc # "idle" => /\ bufindex <= Len(buf)
                            /\ len <= (Len(buf) - bufindex) * PageSize

IInv == TypeOK /\ BlockInv /\ LengthInv /\ ProgramsErasedPages /\ WriteStaysInRange

-----------------------------------------------------------------------------
LEMMA EmptySeq == \A S : <<>> \in Seq(S)
  OBVIOUS

LEMMA PhysInBlock == \A b \in Nat : b <= NBlocks => Phys(b) \in Block
  BY FlashAssumption DEF Phys, Block

LEMMA ScanStopsType ==
  ASSUME NEW b \in Nat, NEW i \in ScanStops(b), TypeOK
  PROVE  i \in Nat /\ i >= b /\ ((i <= NBlocks /\ i \notin Listed) \/ i > NBlocks)
  <1>0. /\ NBlocks \in Nat /\ Overshoot \in Nat /\ kind \in {"NAND", "NOR"}
        /\ bblist \subseteq Block
    BY FlashAssumption DEF TypeOK
  <1>1. CASE kind = "NOR"
    BY <1>0, <1>1 DEF ScanStops, Listed
  <1>2. CASE kind = "NAND" /\ GoodFrom(b) # {}
    <2>1. i \in GoodFrom(b)
      BY <1>2 DEF ScanStops
    <2>2. QED BY <1>0, <2>1 DEF GoodFrom, Block
  <1>3. CASE kind = "NAND" /\ GoodFrom(b) = {}
    <2>1. i \in NBlocks .. NBlocks + Overshoot /\ i >= b
      BY <1>0, <1>3 DEF ScanStops
    <2>2. Listed \subseteq Block
      BY <1>0, <1>3 DEF Listed
    <2>3. QED BY <1>0, <2>1, <2>2 DEF Block
  <1>4. QED BY <1>0, <1>1, <1>2, <1>3

(* Len > 0 means that there is a page left in the buffer. *)
LEMMA PageLeft ==
  ASSUME NEW l \in Nat, NEW n \in Nat, NEW i \in Nat, i <= n,
         l > 0, l <= (n - i) * PageSize
  PROVE  i + 1 \in 1 .. n
  <1>1. PageSize \in Nat /\ PageSize > 0
    BY FlashAssumption
  <1>2. i # n
    BY <1>1
  <1>3. QED BY <1>2

LEMMA LengthStep ==
  ASSUME NEW l \in Nat, NEW n \in Nat, NEW i \in Nat, i < n,
         PageSize <= l, l <= (n - i) * PageSize
  PROVE  l - PageSize \in Nat /\ l - PageSize <= (n - (i + 1)) * PageSize
  <1>1. PageSize \in Nat /\ PageSize > 0
    BY FlashAssumption
  <1>2. (n - (i + 1)) * PageSize = (n - i) * PageSize - PageSize
    BY <1>1
  <1>3. QED BY <1>1, <1>2

LEMMA PageImageType ==
  ASSUME TypeOK, LengthInv, pc = "program"
  PROVE  PageImage \in Image
  <1>1. OldPage \in Image
    BY FlashAssumption DEF OldPage, TypeOK
  <1>2. ~WritesBack => buf[bufindex + 1] \in Image
    <2>1. ASSUME ~WritesBack PROVE buf[bufindex + 1] \in Image
      <3>1. len \in Nat /\ len > 0 /\ Len(buf) \in Nat /\ bufindex \in Nat
        BY <2>1 DEF WritesBack, TypeOK
      <3>2. bufindex + 1 \in 1 .. Len(buf)
        BY <3>1, PageLeft DEF LengthInv
      <3>3. QED BY <3>2 DEF TypeOK
    <2>2. QED BY <2>1
  <1>3. \A d \in Image : Pad(d) \in Image
    BY FlashAssumption
  <1>4. QED BY <1>1, <1>2, <1>3 DEF PageImage

-----------------------------------------------------------------------------
LEMMA InitIInv == Init => IInv
  <1> SUFFICES ASSUME Init PROVE IInv
    OBVIOUS
  <1>1. TypeOK
    <2>1. flash \in [Block -> [Page -> Image]] /\ before \in [Block -> [Page -> Image]]
      BY FlashAssumption DEF Init
    <2>2. buf \in Seq(Image) /\ placed \in Seq(Block \X Page)
      BY EmptySeq DEF Init
    <2>3. pBlock \in [Page -> Image]
      BY FlashAssumption DEF Init
    <2>4. marked \subseteq Block /\ bblist \subseteq Block /\ torn \subseteq Block
      BY DEF Init
    <2>5. start \in [b : Nat, p : Nat] /\ overran \in BOOLEAN /\ opened \in BOOLEAN
      BY DEF Init
    <2>6. QED BY <2>1, <2>2, <2>3, <2>4, <2>5 DEF Init, TypeOK
  <1>2. pc = "idle" /\ before = flash
    BY DEF Init
  <1>3. BlockInv /\ LengthInv /\ ProgramsErasedPages /\ WriteStaysInRange
    BY <1>2 DEF BlockInv, LengthInv, AtBlock, ProgramsErasedPages, WriteStaysInRange
  <1>4. QED BY <1>1, <1>3 DEF IInv

(* Calls that only change the device between two writes. *)
LEMMA ForgetIInv ==
  ASSUME IInv, Forget, pc' = "idle", held' = {}, kind' = kind,
         flash' \in [Block -> [Page -> Image]], calls' \in Nat,
         marked' \subseteq Block, bblist' \subseteq Block, opened' \in BOOLEAN,
         torn' \subseteq Block,
         status' \in {"none", "EOK", "EFAIL", "EINVALID", "EUNSUPPORTED"}
  PROVE  IInv'
  <1>1. TypeOK'
    <2>1. pBlock' \in [Page -> Image]
      BY FlashAssumption DEF Forget
    <2>2. buf' \in Seq(Image) /\ placed' \in Seq(Block \X Page)
      BY EmptySeq DEF Forget
    <2>3. start' \in [b : Nat, p : Nat] /\ overran' \in BOOLEAN
      BY DEF Forget
    <2>4. block' \in Nat /\ page' \in Nat /\ len' \in Nat /\ bufindex' \in Nat
      BY DEF Forget
    <2>5. before' \in [Block -> [Page -> Image]]
      BY DEF Forget
    <2>6. pc' \in {"idle", "pick", "read", "erase", "program"} /\ kind' \in {"NAND", "NOR"}
      BY DEF IInv, TypeOK
    <2>7. QED BY <2>1, <2>2, <2>3, <2>4, <2>5, <2>6 DEF TypeOK
  <1>2. WriteStaysInRange'
    BY DEF Forget, WriteStaysInRange
  <1>3. BlockInv' /\ LengthInv' /\ ProgramsErasedPages'
    BY DEF BlockInv, LengthInv, AtBlock, ProgramsErasedPages
  <1>4. QED BY <1>1, <1>2, <1>3 DEF IInv

LEMMA BetweenWrites ==
  ASSUME IInv,
         \/ Open \/ Close \/ Refused \/ Reset
         \/ \E b \in Block : EraseBlock(b) \/ MarkBad(b)
  PROVE  IInv'
  <1>0. TypeOK
    BY DEF IInv
  <1>1. CASE Open
    <2>1. bblist' \subseteq Block
      BY <1>0, <1>1 DEF Open, TypeOK
    <2>2. /\ pc' = "idle" /\ held' = {} /\ flash' = flash /\ calls' \in Nat
          /\ kind' = kind /\ marked' = marked /\ torn' = torn
          /\ status' \in {"EOK", "EFAIL"} /\ Forget
      BY <1>0, <1>1 DEF Open, Calling, TypeOK
    <2>3. opened' \in BOOLEAN
      BY <1>0, <1>1 DEF Open, TypeOK
    <2>4. QED BY <1>0, <2>1, <2>2, <2>3, ForgetIInv DEF TypeOK
  <1>2. CASE Close
    <2>1. /\ pc' = "idle" /\ held' = {} /\ flash' = flash /\ calls' \in Nat
          /\ kind' = kind /\ marked' = marked /\ torn' = torn /\ opened' = FALSE /\ bblist' = bblist
          /\ status' = "EOK" /\ Forget
      BY <1>0, <1>2 DEF Close, Calling, TypeOK
    <2>2. QED BY <1>0, <2>1, ForgetIInv DEF TypeOK
  <1>7. CASE Refused
    <2>1. /\ pc' = "idle" /\ held' = {} /\ flash' = flash /\ calls' \in Nat
          /\ kind' = kind /\ marked' = marked /\ torn' = torn /\ opened' = opened /\ bblist' = bblist
          /\ status' \in {"EINVALID", "EUNSUPPORTED"} /\ Forget
      BY <1>0, <1>7 DEF Refused, Calling, TypeOK
    <2>2. QED BY <1>0, <2>1, ForgetIInv DEF TypeOK
  <1>3. CASE Reset
    <2>1. /\ pc' = "idle" /\ held' = {} /\ flash' = flash /\ calls' = calls
          /\ kind' = kind /\ marked' = marked /\ torn' = torn /\ opened' = FALSE /\ bblist' = Block
          /\ status' = "none" /\ Forget
      BY <1>3 DEF Reset
    <2>2. QED BY <1>0, <2>1, ForgetIInv DEF TypeOK
  <1>4. ASSUME NEW b \in Block, EraseBlock(b) PROVE IInv'
    <2>1. [p \in Page |-> Erased] \in [Page -> Image] /\ [p \in Page |-> Junk] \in [Page -> Image]
      BY FlashAssumption
    <2>2. flash' \in [Block -> [Page -> Image]]
      BY <1>0, <1>4, <2>1 DEF EraseBlock, TypeOK
    <2>3. marked' \subseteq Block /\ torn' \subseteq Block
      BY <1>0, <1>4 DEF EraseBlock, TypeOK
    <2>4. /\ pc' = "idle" /\ held' = {} /\ calls' \in Nat
          /\ kind' = kind /\ opened' = opened /\ bblist' = bblist
          /\ status' \in {"EOK", "EFAIL"} /\ Forget
      BY <1>0, <1>4 DEF EraseBlock, Calling, TypeOK
    <2>5. QED BY <1>0, <2>2, <2>3, <2>4, ForgetIInv DEF TypeOK
  <1>5. ASSUME NEW b \in Block, MarkBad(b) PROVE IInv'
    <2>1. marked' \subseteq Block
      BY <1>0, <1>5 DEF MarkBad, TypeOK
    <2>2. flash' \in [Block -> [Page -> Image]]
      <3>1. PICK image \in {flash[b][0], Junk} : flash' = [flash EXCEPT ![b][0] = image]
        BY <1>5 DEF MarkBad
      <3>2. 0 \in Page
        BY FlashAssumption DEF Page
      <3>3. image \in Image
        BY <1>0, <3>2, FlashAssumption DEF TypeOK
      <3>4. QED BY <1>0, <3>1, <3>3 DEF TypeOK
    <2>3. /\ pc' = "idle" /\ held' = {} /\ calls' \in Nat
          /\ torn' = torn /\ kind' = kind /\ opened' = opened /\ bblist' = bblist
          /\ status' \in {"EOK", "EFAIL"} /\ Forget
      BY <1>0, <1>5 DEF MarkBad, Calling, TypeOK
    <2>4. QED BY <1>0, <2>1, <2>2, <2>3, ForgetIInv DEF TypeOK
  <1>6. QED BY <1>1, <1>2, <1>3, <1>4, <1>5, <1>7

LEMMA LengthCovers ==
  ASSUME NEW data \in Seq(Image), NEW n \in LengthOf(data)
  PROVE  n \in Nat /\ n <= (Len(data) - 0) * PageSize
  <1>1. PageSize \in Nat /\ PageSize > 0 /\ Len(data) \in Nat
    BY FlashAssumption
  <1>2. CASE data = <<>>
    BY <1>1, <1>2 DEF LengthOf
  <1>3. CASE data # <<>>
    <2>1. Len(data) >= 1
      BY <1>1, <1>3
    <2>2. (Len(data) - 1) * PageSize \in Nat /\ Len(data) * PageSize \in Nat
      BY <1>1, <2>1
    <2>3. n \in (Len(data) - 1) * PageSize + 1 .. Len(data) * PageSize
      BY <1>3 DEF LengthOf
    <2>4. QED BY <1>1, <2>2, <2>3
  <1>4. QED BY <1>2, <1>3

LEMMA AddressType ==
  ASSUME NEW off \in Offset
  PROVE  BlockOf(off) \in Nat /\ PageOf(off) \in Nat
  <1>1. NBlocks \in Nat /\ NPages \in Nat \ {0} /\ PageSize \in Nat \ {0}
    BY FlashAssumption
  <1>2. BlockSize \in Nat /\ BlockSize > 0
    BY <1>1 DEF BlockSize
  <1>3. off \in Nat
    BY <1>1, <1>2 DEF Offset
  <1>4. BlockOf(off) \in Nat /\ off % BlockSize \in Nat
    BY <1>2, <1>3 DEF BlockOf
  <1>5. PageOf(off) \in Nat
    BY <1>1, <1>4 DEF PageOf
  <1>6. QED BY <1>4, <1>5

LEMMA WriteCallIInv ==
  ASSUME IInv, NEW off \in Offset, NEW data \in Buffers, NEW n \in LengthOf(data),
         WriteCall(off, n, data)
  PROVE  IInv'
  <1>0. TypeOK
    BY DEF IInv
  <1>1. /\ flash' = flash /\ before' = flash /\ placed' = <<>> /\ overran' = FALSE
        /\ kind' = kind /\ marked' = marked /\ bblist' = bblist /\ opened' = opened /\ torn' = torn
        /\ calls' \in Nat /\ pc = "idle"
    BY <1>0 DEF WriteCall, Calling, device, TypeOK
  <1>2. WriteStaysInRange'
    BY <1>1 DEF WriteStaysInRange
  <1>3. CASE pc' = "idle"
    <2>1. UNCHANGED locals /\ held' = {} /\ status' \in {"EINVALID", "EFAIL", "EUNSUPPORTED"}
      BY <1>3 DEF WriteCall, Exit
    <2>2. TypeOK'
      BY <1>0, <1>1, <1>3, <2>1, EmptySeq DEF TypeOK, locals
    <2>3. QED BY <1>2, <1>3, <2>2
                 DEF IInv, BlockInv, LengthInv, AtBlock, ProgramsErasedPages
  <1>4. CASE pc' # "idle"
    <2>1. /\ pc' = "pick" /\ held' = {"pBlock", "pPage"} /\ status' = "EOK"
          /\ block' = BlockOf(off) /\ start' = [b |-> BlockOf(off), p |-> PageOf(off)]
          /\ len' = n /\ bufindex' = 0 /\ buf' = data /\ page' = page /\ pBlock' = pBlock
      BY <1>4 DEF WriteCall, Exit
    <2>2. data \in Seq(Image)
      BY FlashAssumption
    <2>3. BlockOf(off) \in Nat /\ PageOf(off) \in Nat
      BY AddressType
    <2>4. n \in Nat /\ n <= (Len(data) - 0) * PageSize
      BY <2>2, LengthCovers
    <2>5. start' \in [b : Nat, p : Nat]
      BY <2>1, <2>3
    <2>6. TypeOK'
      BY <1>0, <1>1, <2>1, <2>2, <2>3, <2>4, <2>5, EmptySeq DEF TypeOK
    <2>7. LengthInv'
      BY <2>1, <2>2, <2>4 DEF LengthInv
    <2>8. BlockInv' /\ ProgramsErasedPages'
      BY <2>1, <2>3 DEF BlockInv, AtBlock, ProgramsErasedPages
    <2>9. QED BY <1>2, <2>6, <2>7, <2>8 DEF IInv
  <1>5. QED BY <1>3, <1>4

LEMMA PickBlockIInv ==
  ASSUME IInv, PickBlock
  PROVE  IInv'
  <1>0. TypeOK
    BY DEF IInv
  <1>1. /\ pc = "pick" /\ UNCHANGED <<flash, device, calls, page, len, bufindex, start, buf,
                                      pBlock, before, placed, torn, overran>>
    BY DEF PickBlock
  <1>2. CASE len = 0
    <2>1. pc' = "idle" /\ held' = {} /\ status' = "EOK" /\ block' = block
      BY <1>0, <1>2 DEF PickBlock, Exit, TypeOK
    <2>2. TypeOK'
      BY <1>0, <1>1, <2>1 DEF TypeOK, device
    <2>3. QED BY <1>1, <2>1, <2>2 DEF IInv, BlockInv, LengthInv, AtBlock,
                                      ProgramsErasedPages, WriteStaysInRange
  <1>3. CASE len > 0
    <2>1. PICK b \in ScanStops(block) :
            /\ block' = b
            /\ IF b > NBlocks THEN Exit("EFAIL")
               ELSE pc' = "read" /\ UNCHANGED <<held, status>>
      BY <1>0, <1>3 DEF PickBlock, TypeOK
    <2>2. b \in Nat /\ b >= block /\ ((b <= NBlocks /\ b \notin Listed) \/ b > NBlocks)
      BY <1>0, ScanStopsType DEF TypeOK
    <2>3. NBlocks \in Nat
      BY FlashAssumption
    <2>4. /\ pc' \in {"idle", "read"}
          /\ held' = IF pc' = "idle" THEN {} ELSE {"pBlock", "pPage"}
          /\ status' \in {"none", "EOK", "EFAIL", "EINVALID", "EUNSUPPORTED"}
          /\ pc' = "read" => b <= NBlocks
      BY <1>0, <1>1, <2>1, <2>2, <2>3 DEF Exit, TypeOK
    <2>5. TypeOK'
      BY <1>0, <1>1, <2>1, <2>2, <2>4 DEF TypeOK, device
    <2>6. Listed' = Listed
      BY <1>1 DEF Listed, device
    <2>7. BlockInv'
      BY <1>0, <1>1, <2>1, <2>2, <2>3, <2>4, <2>6 DEF IInv, BlockInv, AtBlock, TypeOK
    <2>8. LengthInv'
      BY <1>1, <2>4 DEF IInv, LengthInv
    <2>9. WriteStaysInRange'
      BY <1>0, <1>1, <2>1, <2>2 DEF IInv, WriteStaysInRange, TypeOK, Block
    <2>10. QED BY <2>4, <2>5, <2>7, <2>8, <2>9 DEF IInv, ProgramsErasedPages
  <1>4. QED BY <1>0, <1>2, <1>3 DEF TypeOK

LEMMA ReadBlockIInv ==
  ASSUME IInv, ReadBlock
  PROVE  IInv'
  <1>0. TypeOK
    BY DEF IInv
  <1>1. /\ pc = "read" /\ pc' \in {"erase", "idle"}
        /\ UNCHANGED <<flash, device, calls, block, page, len, bufindex, start, buf,
                       before, placed, torn, overran>>
    BY DEF ReadBlock, Exit
  <1>2. block <= NBlocks
    BY <1>1 DEF IInv, BlockInv, AtBlock
  <1>3. pBlock' \in [Page -> Image]
    <2>1. flash[Phys(block)] \in [Page -> Image]
      BY <1>0, <1>2, PhysInBlock DEF TypeOK
    <2>2. QED BY <1>0, <2>1 DEF ReadBlock, TypeOK
  <1>4. /\ held' = IF pc' = "idle" THEN {} ELSE {"pBlock", "pPage"}
        /\ status' \in {"none", "EOK", "EFAIL", "EINVALID", "EUNSUPPORTED"}
    BY <1>0 DEF ReadBlock, Exit, TypeOK
  <1>5. TypeOK'
    BY <1>0, <1>1, <1>3, <1>4 DEF TypeOK, device
  <1>6. BlockInv'
    BY <1>1 DEF IInv, BlockInv, AtBlock, Listed, device
  <1>7. QED BY <1>1, <1>5, <1>6
               DEF IInv, LengthInv, ProgramsErasedPages, WriteStaysInRange

(* Erasing or programming the current block leaves the blocks outside the  *)
(* range of the write alone.                                               *)
LEMMA CurrentBlockInRange ==
  ASSUME TypeOK, WriteStaysInRange, start.b <= block, block <= NBlocks,
         block = NBlocks => overran', overran => overran',
         UNCHANGED <<before, start>>, block' \in {block, block + 1},
         \A b \in Block : b # Phys(block) => flash'[b] = flash[b]
  PROVE  WriteStaysInRange'
  <1> SUFFICES ASSUME ~overran', NEW b \in Block, b < start.b \/ b > block'
               PROVE  flash'[b] = before[b]
    BY DEF WriteStaysInRange
  <1>1. block \in Nat /\ start.b \in Nat /\ b \in Nat
    BY DEF TypeOK, Block
  <1>2. b < start.b \/ b > block
    BY <1>1
  <1>3. flash[b] = before[b]
    BY <1>2 DEF WriteStaysInRange
  <1>4. Phys(block) = block
    BY DEF Phys
  <1>5. QED BY <1>1, <1>2, <1>3, <1>4

LEMMA EraseForWriteIInv ==
  ASSUME IInv, EraseForWrite
  PROVE  IInv'
  <1>0. TypeOK
    BY DEF IInv
  <1>1. /\ pc = "erase" /\ pc' \in {"program", "idle"} /\ page' = 0
        /\ overran' = (overran \/ block = NBlocks)
        /\ UNCHANGED <<kind, bblist, opened, calls, block, len, bufindex, start, buf, pBlock,
                       before, placed>>
    BY DEF EraseForWrite, Exit
  <1>2. block <= NBlocks /\ block \notin Listed /\ start.b <= block
    BY <1>1 DEF IInv, BlockInv, AtBlock
  <1>3. Phys(block) \in Block
    BY <1>0, <1>2, PhysInBlock DEF TypeOK
  <1>4. \E v \in [Page -> Image] : flash' = [flash EXCEPT ![Phys(block)] = v]
    <2>1. [p \in Page |-> Erased] \in [Page -> Image] /\ [p \in Page |-> Junk] \in [Page -> Image]
      BY FlashAssumption
    <2>2. flash[Phys(block)] \in [Page -> Image]
      BY <1>0, <1>3 DEF TypeOK
    <2>3. QED BY <2>1, <2>2 DEF EraseForWrite
  <1>5. /\ flash' \in [Block -> [Page -> Image]]
        /\ \A b \in Block : b # Phys(block) => flash'[b] = flash[b]
    BY <1>0, <1>3, <1>4 DEF TypeOK
  <1>6. /\ marked' \subseteq Block /\ torn' \subseteq Block
        /\ held' = IF pc' = "idle" THEN {} ELSE {"pBlock", "pPage"}
        /\ overran' \in BOOLEAN
        /\ status' \in {"none", "EOK", "EFAIL", "EINVALID", "EUNSUPPORTED"}
    BY <1>0, <1>1, <1>3 DEF EraseForWrite, Exit, TypeOK
  <1>7. TypeOK'
    BY <1>0, <1>1, <1>5, <1>6 DEF TypeOK
  <1>8. BlockInv'
    <2>1. 0 \in Page
      BY FlashAssumption DEF Page
    <2>2. QED BY <1>1, <1>2, <2>1 DEF BlockInv, AtBlock, Listed
  <1>9. ProgramsErasedPages'
    <2>1. SUFFICES ASSUME pc' = "program"
                   PROVE  \A p \in Page : flash'[Phys(block)][p] = Erased
      BY <1>1 DEF ProgramsErasedPages, Phys
    <2>2. flash' = [flash EXCEPT ![Phys(block)] = [p \in Page |-> Erased]]
      BY <2>1 DEF EraseForWrite, Exit
    <2>3. QED BY <1>0, <1>3, <2>2 DEF TypeOK
  <1>10. WriteStaysInRange'
    BY <1>0, <1>1, <1>2, <1>5, CurrentBlockInRange DEF IInv
  <1>11. QED BY <1>1, <1>7, <1>8, <1>9, <1>10 DEF IInv, LengthInv

LEMMA ProgramPageIInv ==
  ASSUME IInv, ProgramPage
  PROVE  IInv'
  <1>0. TypeOK /\ NBlocks \in Nat /\ NPages \in Nat /\ PageSize \in Nat
    BY FlashAssumption DEF IInv
  <1>1. pc = "program" /\ UNCHANGED <<device, calls, start, buf, pBlock, before, overran>>
    BY DEF ProgramPage, LenAfter
  <1>2. /\ block <= NBlocks /\ block \notin Listed /\ start.b <= block
        /\ page \in Page /\ (block = NBlocks => overran)
    BY <1>1 DEF IInv, BlockInv, AtBlock
  <1>3. Phys(block) \in Block
    BY <1>0, <1>2, PhysInBlock DEF TypeOK
  <1>4. PICK v \in Image : flash' = [flash EXCEPT ![Phys(block)][page] = v]
    <2>1. PageImage \in Image
      BY <1>0, <1>1, PageImageType DEF IInv
    <2>2. flash[Phys(block)][page] \in Image /\ Junk \in Image
      BY <1>0, <1>2, <1>3, FlashAssumption DEF TypeOK
    <2>3. QED BY <2>1, <2>2 DEF ProgramPage, LenAfter, MaybeTorn
  <1>5. /\ flash' \in [Block -> [Page -> Image]]
        /\ \A b \in Block : b # Phys(block) => flash'[b] = flash[b]
        /\ \A p \in Page : p # page => flash'[Phys(block)][p] = flash[Phys(block)][p]
    BY <1>0, <1>2, <1>3, <1>4 DEF TypeOK
  <1>6. CASE pc' = "idle"
    <2>1. /\ held' = {} /\ status' = "EFAIL"
          /\ UNCHANGED <<block, page, len, bufindex, placed, torn>>
      BY <1>1, <1>6 DEF ProgramPage, LenAfter, Exit
    <2>2. TypeOK'
      BY <1>0, <1>1, <1>5, <1>6, <2>1 DEF TypeOK, device
    <2>3. WriteStaysInRange'
      BY <1>0, <1>1, <1>2, <1>5, <2>1, CurrentBlockInRange DEF IInv
    <2>4. QED BY <1>6, <2>2, <2>3 DEF IInv, BlockInv, LengthInv, AtBlock, ProgramsErasedPages
  <1>7. CASE pc' # "idle"
    <2>1. /\ placed' = IF WritesBack THEN placed ELSE Append(placed, <<Phys(block), page>>)
          /\ len' = IF WritesBack THEN len ELSE IF len < PageSize THEN 0 ELSE len - PageSize
          /\ bufindex' = IF WritesBack \/ len < PageSize THEN bufindex ELSE bufindex + 1
          /\ page' = page + 1
          /\ IF page + 1 = NPages
             THEN pc' = "pick" /\ block' = block + 1 /\ torn' = torn \ {Phys(block)}
             ELSE UNCHANGED <<pc, block, torn>>
          /\ UNCHANGED <<held, status>>
      BY <1>7 DEF ProgramPage, LenAfter, Exit
    <2>2. /\ block' \in {block, block + 1} /\ pc' \in {"pick", "program"}
          /\ torn' \subseteq Block /\ block' \in Nat /\ page' \in Nat
      BY <1>0, <1>1, <2>1 DEF TypeOK
    <2>3. placed' \in Seq(Block \X Page)
      BY <1>0, <1>2, <1>3, <2>1 DEF TypeOK
    <2>4. bufindex \in Nat /\ len \in Nat /\ Len(buf) \in Nat /\ bufindex <= Len(buf)
          /\ len <= (Len(buf) - bufindex) * PageSize
      BY <1>0, <1>1 DEF IInv, LengthInv, TypeOK
    <2>5. /\ len' \in Nat /\ bufindex' \in Nat /\ bufindex' <= Len(buf)
          /\ len' <= (Len(buf) - bufindex') * PageSize
      <3>1. CASE WritesBack
        BY <2>1, <2>4, <3>1
      <3>2. CASE ~WritesBack /\ len < PageSize
        <4>1. len' = 0 /\ bufindex' = bufindex
          BY <2>1, <3>2
        <4>2. 0 <= (Len(buf) - bufindex) * PageSize
          BY <1>0, <2>4
        <4>3. QED BY <2>4, <4>1, <4>2
      <3>3. CASE ~WritesBack /\ len >= PageSize
        <4>1. len > 0
          BY <2>4, <3>3 DEF WritesBack
        <4>2. bufindex < Len(buf)
          BY <2>4, <4>1, PageLeft
        <4>3. len - PageSize \in Nat
              /\ len - PageSize <= (Len(buf) - (bufindex + 1)) * PageSize
          BY <1>0, <2>4, <3>3, <4>2, LengthStep
        <4>4. len' = len - PageSize /\ bufindex' = bufindex + 1
          BY <1>0, <2>1, <2>4, <3>3
        <4>5. QED BY <2>4, <4>2, <4>3, <4>4
      <3>4. QED BY <1>0, <2>4, <3>1, <3>2, <3>3
    <2>6. TypeOK'
      BY <1>0, <1>1, <1>5, <2>1, <2>2, <2>3, <2>5 DEF TypeOK, device
    <2>7. LengthInv'
      BY <1>1, <2>5 DEF LengthInv
    <2>8. BlockInv'
      <3>1. CASE page + 1 = NPages
        <4>1. pc' = "pick" /\ block' = block + 1
          BY <2>1, <3>1
        <4>2. QED BY <1>0, <1>1, <1>2, <4>1 DEF BlockInv, AtBlock, TypeOK
      <3>2. CASE page + 1 # NPages
        <4>1. pc' = "program" /\ block' = block
          BY <1>1, <2>1, <3>2
        <4>2. page' \in Page
          BY <1>0, <1>2, <2>1, <3>2 DEF Page
        <4>3. QED BY <1>1, <1>2, <4>1, <4>2 DEF BlockInv, AtBlock, Listed, device
      <3>3. QED BY <3>1, <3>2
    <2>9. ProgramsErasedPages'
      <3>1. SUFFICES ASSUME pc' = "program", NEW p \in Page, p >= page'
                     PROVE  flash'[Phys(block')][p] = Erased
        BY DEF ProgramsErasedPages
      <3>2. block' = block /\ p > page /\ p # page
        BY <1>0, <1>2, <2>1, <3>1 DEF Page
      <3>3. flash[Phys(block)][p] = Erased
        BY <1>0, <1>1, <1>2, <3>2 DEF IInv, ProgramsErasedPages, Page
      <3>4. QED BY <1>5, <3>2, <3>3 DEF Phys
    <2>10. WriteStaysInRange'
      BY <1>0, <1>1, <1>2, <1>5, <2>2, CurrentBlockInRange DEF IInv
    <2>11. QED BY <2>6, <2>7, <2>8, <2>9, <2>10 DEF IInv
  <1>8. QED BY <1>6, <1>7

LEMMA NextIInv == IInv /\ [Next]_vars => IInv'
  <1> SUFFICES ASSUME IInv, [Next]_vars PROVE IInv'
    OBVIOUS
  <1>1. CASE Open \/ Close \/ Refused \/ Reset \/ \E b \in Block : EraseBlock(b) \/ MarkBad(b)
    BY <1>1, BetweenWrites
  <1>2. CASE \E off \in Offset, data \in Buffers :
               \E n \in LengthOf(data) : WriteCall(off, n, data)
    BY <1>2, WriteCallIInv
  <1>3. CASE WriteStep
    BY <1>3, PickBlockIInv, ReadBlockIInv, EraseForWriteIInv, ProgramPageIInv DEF WriteStep
  <1>4. CASE UNCHANGED vars
    BY <1>4 DEF vars, device, locals, IInv, TypeOK, BlockInv, LengthInv, AtBlock, Listed,
                ProgramsErasedPages, WriteStaysInRange, Phys
  <1>5. QED BY <1>1, <1>2, <1>3, <1>4 DEF Next

-----------------------------------------------------------------------------
(* Every reachable state of the device API is well typed, whatever the     *)
(* geometry of the flash and the buffers of the caller.                    *)
THEOREM TypeCorrect == Spec => []TypeOK
  <1>1. Spec => []IInv
    BY InitIInv, NextIInv, PTL DEF Spec
  <1>2. IInv => TypeOK
    BY DEF IInv
  <1>3. QED BY <1>1, <1>2, PTL

(* platform_device_write programs only pages that are erased, and never    *)
(* touches a block before its start block or beyond the one it has         *)
(* reached unless it has run off the end of the device.                    *)
THEOREM ErasedAndInRange == Spec => [](ProgramsErasedPages /\ WriteStaysInRange)
  <1>1. Spec => []IInv
    BY InitIInv, NextIInv, PTL DEF Spec
  <1>2. IInv => ProgramsErasedPages /\ WriteStaysInRange
    BY DEF IInv
  <1>3. QED BY <1>1, <1>2, PTL

(* The second half by itself: a block before the start of the write or     *)
(* beyond the one it has reached holds what it held (platform.c:1456-1604).*)
THEOREM WriteInRange == Spec => []WriteStaysInRange
  BY ErasedAndInRange, PTL

(* A step that changes a block on the bad block list is a call of the      *)
(* client (platform_device_erase_block) or beyond the end of the device.   *)
LEMMA SparedStep ==
  ASSUME IInv, [Next]_vars, NEW b \in Listed, flash'[b] # flash[b]
  PROVE  pc = "idle" \/ overran'
  <1>0. TypeOK
    BY DEF IInv
  <1>1. ASSUME pc \in {"erase", "program"}, ~overran',
               NEW v, flash' = [flash EXCEPT ![Phys(block)] = v],
               block = NBlocks => overran'
        PROVE  FALSE
    <2>1. block \notin Listed /\ Phys(block) = block
      BY <1>1 DEF IInv, BlockInv, AtBlock, Phys
    <2>2. b \in Block
      BY <1>0 DEF Listed, TypeOK
    <2>3. QED BY <1>0, <1>1, <2>1, <2>2 DEF TypeOK
  <1>2. CASE EraseForWrite
    <2>1. /\ pc = "erase" /\ (block = NBlocks => overran')
          /\ \E v : flash' = [flash EXCEPT ![Phys(block)] = v]
      BY <1>2 DEF EraseForWrite
    <2>2. QED BY <1>1, <2>1
  <1>3. CASE ProgramPage
    <2>1. /\ pc = "program" /\ (block = NBlocks => overran')
          /\ \E v : flash' = [flash EXCEPT ![Phys(block)][page] = v]
      BY <1>3 DEF ProgramPage, LenAfter, IInv, BlockInv
    <2>2. \E v : flash' = [flash EXCEPT ![Phys(block)] = v]
      BY <2>1
    <2>3. QED BY <1>1, <2>1, <2>2
  <1>4. CASE PickBlock \/ ReadBlock \/ UNCHANGED vars \/ Reset
    BY <1>4 DEF PickBlock, ReadBlock, vars, Reset
  <1>5. CASE \/ Open \/ Close \/ Refused \/ \E c \in Block : EraseBlock(c) \/ MarkBad(c)
             \/ \E off \in Offset, data \in Buffers :
                  \E n \in LengthOf(data) : WriteCall(off, n, data)
    BY <1>5 DEF Open, Close, Refused, EraseBlock, MarkBad, WriteCall, Calling
  <1>6. QED BY <1>2, <1>3, <1>4, <1>5 DEF Next, WriteStep

(* The write loop never erases nor programs a block the bad block list     *)
(* names, in any step, whichever driver calls fail (platform.c:1452).      *)
THEOREM BadBlocksAreSpared == Spec => BadBlocksSpared
  <1>1. Spec => []IInv
    BY InitIInv, NextIInv, PTL DEF Spec
  <1>2. IInv /\ [Next]_vars
          => [\A b \in Listed : flash'[b] # flash[b] => pc = "idle" \/ overran']_vars
    BY SparedStep
  <1>3. QED BY <1>1, <1>2, PTL DEF Spec, BadBlocksSpared

-----------------------------------------------------------------------------
(* Whoever has not finished has still to place what is left of the length, *)
(* whose last page may be partial; whoever has, has placed everything.     *)
CompleteInv ==
  /\ pc # "idle" /\ len = 0 => Len(placed) = Len(buf)
  /\ pc # "idle" /\ len > 0 => /\ Len(placed) = bufindex
                               /\ (Len(buf) - bufindex - 1) * PageSize + 1 <= len
  /\ SuccessIsComplete

LEMMA InitComplete == Init => CompleteInv
  BY DEF Init, CompleteInv, SuccessIsComplete

LEMMA FirstLength ==
  ASSUME NEW data \in Seq(Image), NEW n \in LengthOf(data), n > 0
  PROVE  (Len(data) - 0 - 1) * PageSize + 1 <= n
  <1>1. PageSize \in Nat /\ PageSize > 0 /\ Len(data) \in Nat
    BY FlashAssumption
  <1>2. data # <<>>
    BY DEF LengthOf
  <1>3. n \in (Len(data) - 1) * PageSize + 1 .. Len(data) * PageSize
    BY <1>2 DEF LengthOf
  <1>4. (Len(data) - 1) * PageSize \in Int /\ Len(data) * PageSize \in Int
    BY <1>1
  <1>5. Len(data) - 0 - 1 = Len(data) - 1
    BY <1>1
  <1>6. QED BY <1>3, <1>4, <1>5

(* The last page: at most a page of length is left, so that one page of    *)
(* the buffer is left.                                                     *)
LEMMA LastPage ==
  ASSUME NEW l \in Nat, NEW n \in Nat, NEW i \in Nat, i < n,
         (n - i - 1) * PageSize + 1 <= l, l <= PageSize
  PROVE  n = i + 1
  <1>1. PageSize \in Nat /\ PageSize > 0
    BY FlashAssumption
  <1>2. SUFFICES ASSUME n # i + 1 PROVE FALSE
    OBVIOUS
  <1>3. n - i - 1 \in Nat /\ n - i - 1 >= 1
    BY <1>2
  <1>4. (n - i - 1) * PageSize >= 1 * PageSize
    <2>1. (n - i - 1) * PageSize = PageSize + (n - i - 2) * PageSize
      BY <1>1
    <2>2. (n - i - 2) * PageSize \in Nat
      BY <1>1, <1>3
    <2>3. QED BY <1>1, <2>1, <2>2
  <1>5. (n - i - 1) * PageSize \in Int
    BY <1>1, <1>3
  <1>6. QED BY <1>1, <1>4, <1>5

LEMMA NextPage ==
  ASSUME NEW l \in Nat, NEW n \in Nat, NEW i \in Nat, i < n, PageSize <= l,
         (n - i - 1) * PageSize + 1 <= l, l - PageSize > 0
  PROVE  (n - (i + 1) - 1) * PageSize + 1 <= l - PageSize
  <1>1. PageSize \in Nat
    BY FlashAssumption
  <1>2. (n - (i + 1) - 1) * PageSize = (n - i - 1) * PageSize - PageSize
    BY <1>1
  <1>3. QED BY <1>1, <1>2

LEMMA ProgramComplete ==
  ASSUME IInv, CompleteInv, ProgramPage
  PROVE  CompleteInv'
  <1>0. /\ TypeOK /\ pc = "program" /\ UNCHANGED buf
        /\ len \in Nat /\ bufindex \in Nat /\ Len(buf) \in Nat /\ Len(placed) \in Nat
        /\ bufindex <= Len(buf) /\ len <= (Len(buf) - bufindex) * PageSize
        /\ PageSize \in Nat /\ PageSize > 0
    BY FlashAssumption DEF ProgramPage, IInv, TypeOK, LengthInv
  <1>1. CASE pc' = "idle"
    BY <1>0, <1>1 DEF ProgramPage, Exit, CompleteInv, SuccessIsComplete
  <1>2. CASE pc' # "idle"
    <2>1. /\ placed' = IF WritesBack THEN placed ELSE Append(placed, <<Phys(block), page>>)
          /\ len' = IF WritesBack THEN len ELSE IF len < PageSize THEN 0 ELSE len - PageSize
          /\ bufindex' = IF WritesBack \/ len < PageSize THEN bufindex ELSE bufindex + 1
      BY <1>2 DEF ProgramPage, LenAfter, Exit
    <2>2. CASE WritesBack
      BY <1>0, <1>2, <2>1, <2>2 DEF CompleteInv, SuccessIsComplete
    <2>3. CASE ~ WritesBack
      <3>1. len > 0 /\ Len(placed) = bufindex /\ (Len(buf) - bufindex - 1) * PageSize + 1 <= len
        BY <1>0, <2>3 DEF WritesBack, CompleteInv
      <3>2. bufindex < Len(buf)
        BY <1>0, <3>1, PageLeft
      <3>3. placed' = Append(placed, <<Phys(block), page>>) /\ placed \in Seq(Block \X Page)
        BY <1>0, <2>1, <2>3 DEF TypeOK
      <3>4. Len(placed') = bufindex + 1
        BY <3>1, <3>3
      <3>5. CASE len <= PageSize
        <4>1. Len(buf) = bufindex + 1
          BY <1>0, <3>1, <3>2, <3>5, LastPage
        <4>2. len' = 0
          BY <1>0, <2>1, <2>3, <3>5
        <4>3. QED BY <1>0, <1>2, <3>4, <4>1, <4>2 DEF CompleteInv, SuccessIsComplete
      <3>6. CASE len > PageSize
        <4>1. len' = len - PageSize /\ len' > 0 /\ bufindex' = bufindex + 1
          BY <1>0, <2>1, <2>3, <3>6
        <4>2. (Len(buf) - (bufindex + 1) - 1) * PageSize + 1 <= len - PageSize
          BY <1>0, <3>1, <3>2, <3>6, <4>1, NextPage
        <4>3. QED BY <1>0, <1>2, <3>4, <4>1, <4>2 DEF CompleteInv, SuccessIsComplete
      <3>7. QED BY <1>0, <3>5, <3>6
    <2>4. QED BY <2>2, <2>3
  <1>3. QED BY <1>1, <1>2

LEMMA NextComplete == IInv /\ CompleteInv /\ [Next]_vars => CompleteInv'
  <1> SUFFICES ASSUME IInv, CompleteInv, [Next]_vars PROVE CompleteInv'
    OBVIOUS
  <1>1. CASE Open \/ Close \/ Refused \/ Reset \/ \E b \in Block : EraseBlock(b) \/ MarkBad(b)
    <2>1. pc' = "idle" /\ placed' = <<>> /\ buf' = <<>>
      BY <1>1 DEF Open, Close, Refused, Reset, EraseBlock, MarkBad, Forget, Calling
    <2>2. QED BY <2>1 DEF CompleteInv, SuccessIsComplete
  <1>2. ASSUME NEW off \in Offset, NEW data \in Buffers, NEW n \in LengthOf(data),
               WriteCall(off, n, data)
        PROVE  CompleteInv'
    <2>1. CASE pc' = "idle"
      <3>1. status' # "EOK"
        BY <1>2, <2>1 DEF WriteCall, Exit
      <3>2. QED BY <2>1, <3>1 DEF CompleteInv, SuccessIsComplete
    <2>2. CASE pc' # "idle"
      <3>1. n > 0 /\ len' = n /\ bufindex' = 0 /\ buf' = data /\ placed' = <<>> /\ data \in Seq(Image)
        BY <1>2, <2>2, FlashAssumption DEF WriteCall, Exit
      <3>2. (Len(data) - 0 - 1) * PageSize + 1 <= n
        BY <3>1, FirstLength
      <3>3. QED BY <2>2, <3>1, <3>2 DEF CompleteInv, SuccessIsComplete
    <2>3. QED BY <2>1, <2>2
  <1>3. CASE PickBlock
    BY <1>3 DEF PickBlock, Exit, CompleteInv, SuccessIsComplete
  <1>4. CASE ReadBlock \/ EraseForWrite
    BY <1>4 DEF ReadBlock, EraseForWrite, Exit, CompleteInv, SuccessIsComplete
  <1>5. CASE UNCHANGED vars
    BY <1>5 DEF vars, locals, CompleteInv, SuccessIsComplete
  <1>6. QED BY <1>1, <1>2, <1>3, <1>4, <1>5, ProgramComplete DEF Next, WriteStep

(* A write that reports success has placed every page of the caller's      *)
(* buffer, whatever the lengths of page, block and buffer, however many    *)
(* blocks were skipped (platform.c:1456-1604).                             *)
THEOREM SuccessComplete == Spec => []SuccessIsComplete
  <1>1. Spec => [](IInv /\ CompleteInv)
    BY InitIInv, NextIInv, InitComplete, NextComplete, PTL DEF Spec
  <1>2. IInv /\ CompleteInv => SuccessIsComplete
    BY DEF CompleteInv
  <1>3. QED BY <1>1, <1>2, PTL

(***************************************************************************)
(* Where the data goes, and what a write of whole blocks leaves alone.     *)
(***************************************************************************)

(* The three parts of DataInPlace. *)
Holds ==
  \A k \in 1 .. Len(placed) :
    flash[placed[k][1]][placed[k][2]]
       \in IF k < Len(buf) THEN {buf[k]} ELSE {buf[k], Pad(buf[k])}

Follows(x, y) ==
  \/ y = <<x[1], x[2] + 1>>
  \/ x[2] = NPages - 1 /\ y[2] = 0 /\ y[1] \in ScanStops(x[1] + 1)

Ordered == \A k \in 2 .. Len(placed) : Follows(placed[k-1], placed[k])

Starts == placed # <<>> /\ start.b \notin Listed => placed[1] = <<start.b, start.p>>

(* Where the loop is after x, the last page it has placed. *)
After(x) ==
  /\ pc = "pick" => x[2] = NPages - 1 /\ block = x[1] + 1
  /\ pc \in {"read", "erase"} => x[2] = NPages - 1 /\ block \in ScanStops(x[1] + 1)
  /\ pc = "program" /\ page = 0 => x[2] = NPages - 1 /\ block \in ScanStops(x[1] + 1)
  /\ pc = "program" /\ page > 0 => x = <<block, page - 1>>

(* The position x lies before that of the loop. *)
Before(x) == x[1] < block \/ (pc = "program" /\ x[1] = block /\ x[2] < page)

LoopInv ==
  pc # "idle" =>
    /\ placed = <<>> => len > 0
    /\ start.p < NPages
    /\ \A k \in 1 .. Len(placed) : Before(placed[k])
    /\ len > 0 /\ placed # <<>> => After(placed[Len(placed)])
    /\ placed = <<>> /\ start.b \notin Listed =>
         block = start.b /\ (pc = "program" => page <= start.p)

PlaceInv == ~overran => Holds /\ Ordered /\ Starts /\ LoopInv

-----------------------------------------------------------------------------
LEMMA PlaceDef == (~overran => Holds /\ Ordered /\ Starts) => DataInPlace
  BY DEF DataInPlace, Holds, Ordered, Starts, Follows

LEMMA InitPlace == Init => PlaceInv
  BY DEF Init, PlaceInv, Holds, Ordered, Starts, LoopInv

(* The page of an offset lies within a block. *)
LEMMA PageInBlock == \A off \in Offset : PageOf(off) < NPages
  <1> SUFFICES ASSUME NEW off \in Offset PROVE PageOf(off) < NPages
    OBVIOUS
  <1>1. NBlocks \in Nat /\ NPages \in Nat \ {0} /\ PageSize \in Nat \ {0}
    BY FlashAssumption
  <1>2. BlockSize \in Nat /\ BlockSize > 0
    BY <1>1 DEF BlockSize
  <1>3. off \in Nat
    BY <1>1, <1>2 DEF Offset
  <1>4. PICK x \in Nat : x = off % BlockSize /\ x < NPages * PageSize
    BY <1>2, <1>3 DEF BlockSize
  <1>5. PICK q \in Nat : q = x \div PageSize /\ q * PageSize <= x
    BY <1>1
  <1>6. q < NPages
    <2>1. SUFFICES ASSUME q >= NPages PROVE FALSE
      BY <1>1
    <2>2. q - NPages \in Nat
      BY <1>1, <2>1
    <2>3. (q - NPages) * PageSize \in Nat
      BY <1>1, <2>2
    <2>4. (q - NPages) * PageSize = q * PageSize - NPages * PageSize
      BY <1>1
    <2>5. q * PageSize \in Nat /\ NPages * PageSize \in Nat
      BY <1>1
    <2>6. QED BY <1>4, <1>5, <2>3, <2>4, <2>5
  <1>7. QED BY <1>4, <1>5, <1>6 DEF PageOf

(* Nothing is placed between two writes, nor by a call that is refused. *)
LEMMA CallPlace ==
  ASSUME IInv,
         \/ Open \/ Close \/ Refused \/ Reset \/ \E b \in Block : EraseBlock(b) \/ MarkBad(b)
         \/ \E off \in Offset, data \in Buffers : \E n \in LengthOf(data) : WriteCall(off, n, data)
  PROVE  PlaceInv'
  <1>1. placed' = <<>>
    BY DEF Open, Close, Refused, Reset, EraseBlock, MarkBad, Forget, WriteCall
  <1>2. LoopInv'
    <2>1. CASE pc' = "idle"
      BY <2>1 DEF LoopInv
    <2>2. CASE pc' # "idle"
      <3>1. PICK off \in Offset, data \in Buffers : \E n \in LengthOf(data) : WriteCall(off, n, data)
        BY <2>2 DEF Open, Close, Refused, Reset, EraseBlock, MarkBad, Forget, Calling
      <3>2. /\ pc' = "pick" /\ len' > 0 /\ block' = BlockOf(off)
            /\ start' = [b |-> BlockOf(off), p |-> PageOf(off)]
        BY <2>2, <3>1 DEF WriteCall, Exit
      <3>3. PageOf(off) < NPages
        BY PageInBlock
      <3>4. QED BY <1>1, <3>2, <3>3 DEF LoopInv
    <2>3. QED BY <2>1, <2>2
  <1>3. QED BY <1>1, <1>2 DEF PlaceInv, Holds, Ordered, Starts

(* What a write has placed is still in order after a step that places      *)
(* nothing and leaves the list of bad blocks alone.                        *)
LEMMA OrderStays ==
  ASSUME UNCHANGED <<kind, bblist, placed, start>>
  PROVE  /\ Ordered => Ordered'
         /\ Starts => Starts'
         /\ \A b : ScanStops(b)' = ScanStops(b)
         /\ Listed' = Listed
  BY DEF Ordered, Starts, Follows, ScanStops, GoodFrom, Listed

LEMMA PickPlace == ASSUME IInv, PlaceInv, PickBlock PROVE PlaceInv'
  <1> SUFFICES ASSUME ~overran' PROVE PlaceInv'
    BY DEF PlaceInv
  <1>1. /\ UNCHANGED <<flash, kind, bblist, placed, start, buf, len, page, overran>> /\ pc = "pick" /\ TypeOK
    BY DEF PickBlock, device, IInv
  <1>2. Holds /\ Ordered /\ Starts /\ LoopInv
    BY <1>1 DEF PlaceInv
  <1>3. Holds' /\ Ordered' /\ Starts'
    BY <1>1, <1>2, OrderStays DEF Holds
  <1>4. CASE pc' = "idle"
    BY <1>3, <1>4 DEF PlaceInv, LoopInv
  <1>5. CASE pc' # "idle"
    <2>1. pc' = "read" /\ len > 0 /\ block' \in ScanStops(block) /\ ~ block' > NBlocks
      BY <1>5 DEF PickBlock, Exit
    <2>2. block \in Nat /\ block' \in Nat /\ block' >= block /\ block' <= NBlocks
      BY <1>1, <2>1, ScanStopsType, FlashAssumption DEF TypeOK
    <2>3. ASSUME NEW k \in 1 .. Len(placed) PROVE Before(placed[k])'
      <3>1. placed[k] \in Block \X Page
        BY <1>1 DEF TypeOK
      <3>2. placed[k][1] \in Nat
        BY <3>1 DEF Block
      <3>3. placed[k][1] < block
        BY <1>1, <1>2, <2>3 DEF LoopInv, Before
      <3>4. QED BY <1>1, <2>2, <3>2, <3>3 DEF Before
    <2>4. placed # <<>> => After(placed[Len(placed)])'
      BY <1>1, <1>2, <2>1, OrderStays DEF LoopInv, After
    <2>5. ASSUME placed = <<>>, start.b \notin Listed PROVE block' = start.b
      <3>1. block = start.b
        BY <1>1, <1>2, <2>5 DEF LoopInv
      <3>2. CASE block \in Block
        BY <1>1, <2>1, <2>2, <2>5, <3>1, <3>2 DEF ScanStops, GoodFrom, Block, TypeOK
      <3>3. CASE block \notin Block
        BY <2>2, <3>1, <3>3, FlashAssumption DEF Block
      <3>4. QED BY <3>2, <3>3
    <2>6. LoopInv'
      BY <1>1, <1>2, <2>1, <2>3, <2>4, <2>5, OrderStays DEF LoopInv
    <2>7. QED BY <1>3, <2>6 DEF PlaceInv
  <1>6. QED BY <1>4, <1>5

LEMMA ReadPlace == ASSUME IInv, PlaceInv, ReadBlock PROVE PlaceInv'
  <1> SUFFICES ASSUME ~overran' PROVE PlaceInv'
    BY DEF PlaceInv
  <1>1. /\ UNCHANGED <<flash, kind, bblist, placed, start, buf, len, page, block, overran>>
        /\ pc = "read" /\ pc' \in {"erase", "idle"}
    BY DEF ReadBlock, device, Exit
  <1>2. Holds /\ Ordered /\ Starts /\ LoopInv
    BY <1>1 DEF PlaceInv
  <1>3. Holds' /\ Ordered' /\ Starts'
    BY <1>1, <1>2, OrderStays DEF Holds
  <1>4. LoopInv'
    BY <1>1, <1>2, OrderStays DEF LoopInv, Before, After
  <1>5. QED BY <1>3, <1>4 DEF PlaceInv

LEMMA ErasePlace == ASSUME IInv, PlaceInv, EraseForWrite PROVE PlaceInv'
  <1> SUFFICES ASSUME ~overran' PROVE PlaceInv'
    BY DEF PlaceInv
  <1>1. /\ UNCHANGED <<kind, bblist, placed, start, buf, len, block>> /\ page' = 0
        /\ pc = "erase" /\ pc' \in {"program", "idle"} /\ TypeOK
        /\ ~ overran /\ block # NBlocks
        /\ \E v : flash' = [flash EXCEPT ![Phys(block)] = v]
    BY DEF EraseForWrite, Exit, IInv
  <1>2. Holds /\ Ordered /\ Starts /\ LoopInv
    BY <1>1 DEF PlaceInv
  <1>3. Ordered' /\ Starts'
    BY <1>1, <1>2, OrderStays
  <1>4. Holds'
    <2>1. ASSUME NEW k \in 1 .. Len(placed) PROVE flash'[placed[k][1]] = flash[placed[k][1]]
      <3>1. placed[k] \in Block \X Page
        BY <1>1 DEF TypeOK
      <3>2. placed[k][1] < block /\ placed[k][1] \in Block
        BY <1>1, <1>2, <2>1, <3>1 DEF LoopInv, Before
      <3>3. Phys(block) # placed[k][1]
        BY <1>1, <3>2 DEF Phys, Block, TypeOK
      <3>4. QED BY <1>1, <3>2, <3>3 DEF TypeOK
    <2>2. QED BY <1>1, <1>2, <2>1 DEF Holds
  <1>5. LoopInv'
    <2>1. 0 <= start.p
      BY <1>1 DEF TypeOK
    <2>2. QED BY <1>1, <1>2, <2>1, OrderStays DEF LoopInv, Before, After
  <1>6. QED BY <1>3, <1>4, <1>5 DEF PlaceInv

(* A page that is not written back is the next one of the buffer, padded   *)
(* only if it is the last.                                                 *)
LEMMA NextImage ==
  ASSUME IInv, CompleteInv, pc = "program", ~ WritesBack
  PROVE  /\ bufindex = Len(placed) /\ bufindex < Len(buf)
         /\ PageImage \in IF bufindex + 1 < Len(buf) THEN {buf[bufindex + 1]}
                          ELSE {buf[bufindex + 1], Pad(buf[bufindex + 1])}
  <1>1. /\ len \in Nat /\ bufindex \in Nat /\ Len(buf) \in Nat /\ len > 0
        /\ bufindex <= Len(buf) /\ len <= (Len(buf) - bufindex) * PageSize
        /\ PageSize \in Nat /\ PageSize > 0
    BY FlashAssumption DEF IInv, TypeOK, LengthInv, WritesBack
  <1>2. Len(placed) = bufindex /\ (Len(buf) - bufindex - 1) * PageSize + 1 <= len
    BY <1>1 DEF CompleteInv
  <1>3. bufindex < Len(buf)
    BY <1>1, PageLeft
  <1>4. len < PageSize => Len(buf) = bufindex + 1
    BY <1>1, <1>2, <1>3, LastPage
  <1>5. PageImage = IF len < PageSize THEN Pad(buf[bufindex + 1]) ELSE buf[bufindex + 1]
    BY DEF PageImage
  <1>6. QED BY <1>1, <1>2, <1>3, <1>4, <1>5

(* Where the next page of the buffer goes. *)
LEMMA NextPlace ==
  ASSUME IInv, CompleteInv, PlaceInv, ~ overran, pc = "program", ~ WritesBack
  PROVE  /\ placed # <<>> => Follows(placed[Len(placed)], <<block, page>>)
         /\ placed = <<>> /\ start.b \notin Listed => block = start.b /\ page = start.p
  <1>1. LoopInv /\ page \in Nat /\ start.p \in Nat /\ len > 0
    BY DEF PlaceInv, IInv, TypeOK, WritesBack
  <1>2. ASSUME placed # <<>> PROVE Follows(placed[Len(placed)], <<block, page>>)
    <2>1. After(placed[Len(placed)])
      BY <1>1, <1>2 DEF LoopInv
    <2>2. CASE page = 0
      BY <2>1, <2>2 DEF After, Follows
    <2>3. CASE page > 0
      <3>1. placed[Len(placed)] = <<block, page - 1>>
        BY <2>1, <2>3 DEF After
      <3>2. page - 1 + 1 = page
        BY <1>1
      <3>3. QED BY <3>1, <3>2 DEF Follows
    <2>4. QED BY <1>1, <2>2, <2>3
  <1>3. placed = <<>> /\ start.b \notin Listed => block = start.b /\ page = start.p
    BY <1>1 DEF LoopInv, WritesBack
  <1>4. QED BY <1>2, <1>3

(* A page of the start block is written back only before all the data.     *)
LEMMA BackFirst ==
  ASSUME IInv, PlaceInv, ~ overran, pc = "program", WritesBack, len > 0
  PROVE  placed = <<>> /\ block = start.b /\ page < start.p
  <1>1. block = start.b /\ page < start.p
    BY DEF WritesBack, IInv, TypeOK
  <1>2. SUFFICES ASSUME placed # <<>> PROVE FALSE
    BY <1>1
  <1>3. start.b \notin Listed
    BY <1>1 DEF IInv, BlockInv, AtBlock
  <1>4. placed[1] = <<start.b, start.p>>
    BY <1>2, <1>3 DEF PlaceInv, Starts
  <1>5. 1 \in 1 .. Len(placed)
    BY <1>2 DEF IInv, TypeOK
  <1>6. Before(placed[1])
    BY <1>5 DEF PlaceInv, LoopInv
  <1>7. block \in Nat /\ page \in Nat /\ start.p \in Nat
    BY DEF IInv, TypeOK
  <1>8. QED BY <1>1, <1>4, <1>6, <1>7 DEF Before

LEMMA ProgramPlace == ASSUME IInv, CompleteInv, PlaceInv, ProgramPage PROVE PlaceInv'
  <1> SUFFICES ASSUME ~overran' PROVE PlaceInv'
    BY DEF PlaceInv
  <1>1. /\ UNCHANGED <<kind, bblist, start, buf, overran>> /\ pc = "program" /\ ~ overran
        /\ TypeOK /\ block \in Nat /\ page \in Nat /\ NPages \in Nat \ {0}
    BY FlashAssumption DEF ProgramPage, device, IInv, TypeOK
  <1>2. Holds /\ Ordered /\ Starts /\ LoopInv
    BY <1>1 DEF PlaceInv
  <1>3. block < NBlocks /\ Phys(block) = block /\ page \in Page /\ block \in Block
    BY <1>1, FlashAssumption DEF IInv, BlockInv, AtBlock, Phys, Block
  <1>4. \E v : flash' = [flash EXCEPT ![block][page] = v]
    BY <1>3 DEF ProgramPage
  <1>5. ASSUME NEW k \in 1 .. Len(placed)
        PROVE  /\ flash'[placed[k][1]][placed[k][2]] = flash[placed[k][1]][placed[k][2]]
               /\ placed[k][1] \in Nat /\ placed[k][2] \in Nat
               /\ placed[k][1] < block \/ (placed[k][1] = block /\ placed[k][2] < page)
    <2>1. placed[k] \in Block \X Page
      BY <1>1, <1>5 DEF TypeOK
    <2>2. Before(placed[k])
      BY <1>1, <1>2, <1>5 DEF LoopInv
    <2>3. placed[k][1] # block \/ placed[k][2] # page
      BY <1>1, <2>1, <2>2 DEF Before, Block, Page
    <2>4. flash'[placed[k][1]][placed[k][2]] = flash[placed[k][1]][placed[k][2]]
      BY <1>1, <1>3, <1>4, <2>1, <2>3 DEF TypeOK
    <2>5. QED BY <1>1, <2>1, <2>2, <2>4 DEF Before, Block, Page
  <1>6. CASE pc' = "idle"
    <2>1. placed' = placed
      BY <1>1, <1>6 DEF ProgramPage
    <2>2. Ordered' /\ Starts' /\ Holds'
      BY <1>1, <1>2, <1>5, <2>1, OrderStays DEF Holds
    <2>3. QED BY <1>6, <2>2 DEF PlaceInv, LoopInv
  <1>7. CASE pc' # "idle"
    <2>1. /\ flash' = [flash EXCEPT ![block][page] = PageImage]
          /\ placed' = IF WritesBack THEN placed ELSE Append(placed, <<block, page>>)
          /\ len' = LenAfter /\ page' = page + 1
          /\ IF page + 1 = NPages THEN pc' = "pick" /\ block' = block + 1
             ELSE pc' = "program" /\ block' = block
      BY <1>1, <1>3, <1>7 DEF ProgramPage, Exit
    <2>2. \A k \in 1 .. Len(placed) :
            \/ placed[k][1] < block'
            \/ pc' = "program" /\ placed[k][1] = block' /\ placed[k][2] < page'
      BY <1>1, <1>5, <2>1
    <2>3. \A b : ScanStops(b)' = ScanStops(b)
      BY <1>1 DEF ScanStops, GoodFrom, Listed
    <2>4. CASE WritesBack
      <3>1. placed' = placed /\ len' = len
        BY <2>1, <2>4 DEF LenAfter
      <3>2. Ordered' /\ Starts' /\ Holds'
        BY <1>1, <1>2, <1>5, <3>1, OrderStays DEF Holds
      <3>3. len > 0 => placed = <<>> /\ block = start.b /\ page < start.p
        BY <1>1, <2>4, BackFirst
      <3>4. start.p < NPages /\ start.p \in Nat /\ (placed = <<>> => len > 0)
        BY <1>1, <1>2 DEF LoopInv, TypeOK
      <3>5. len > 0 => block' = start.b /\ page' <= start.p
        BY <1>1, <2>1, <3>3, <3>4
      <3>6. LoopInv'
        BY <1>1, <2>1, <2>2, <3>1, <3>3, <3>4, <3>5 DEF LoopInv, Before
      <3>7. QED BY <3>2, <3>6 DEF PlaceInv
    <2>5. CASE ~ WritesBack
      <3>1. PICK n \in Nat : n = Len(placed)
        BY <1>1 DEF TypeOK
      <3>2. /\ placed' = Append(placed, <<block, page>>) /\ placed \in Seq(Block \X Page)
            /\ Len(placed') = n + 1 /\ placed'[n + 1] = <<block, page>>
            /\ \A k \in 1 .. n : placed'[k] = placed[k]
        BY <1>1, <1>3, <2>1, <2>5, <3>1 DEF TypeOK
      <3>3. /\ n < Len(buf)
            /\ PageImage \in IF n + 1 < Len(buf) THEN {buf[n + 1]} ELSE {buf[n + 1], Pad(buf[n + 1])}
        BY <1>1, <2>5, <3>1, NextImage
      <3>4. Holds'
        <4>1. flash'[block][page] = PageImage
          BY <1>1, <1>3, <2>1 DEF TypeOK
        <4>2. ASSUME NEW k \in 1 .. n + 1
              PROVE  flash'[placed'[k][1]][placed'[k][2]]
                        \in IF k < Len(buf) THEN {buf[k]} ELSE {buf[k], Pad(buf[k])}
          <5>1. CASE k = n + 1
            BY <3>2, <3>3, <4>1, <5>1
          <5>2. CASE k \in 1 .. n
            BY <1>2, <1>5, <3>1, <3>2, <5>2 DEF Holds
          <5>3. QED BY <5>1, <5>2
        <4>3. QED BY <1>1, <3>2, <4>2 DEF Holds
      <3>5. /\ placed # <<>> => Follows(placed[n], <<block, page>>)
            /\ placed = <<>> /\ start.b \notin Listed => block = start.b /\ page = start.p
        BY <1>1, <2>5, <3>1, NextPlace
      <3>6. \A x, y : Follows(x, y)' = Follows(x, y)
        BY <2>3 DEF Follows
      <3>7. Ordered'
        <4>1. ASSUME NEW k \in 2 .. n + 1 PROVE Follows(placed'[k-1], placed'[k])
          <5>1. CASE k = n + 1
            <6>1. n \in 1 .. n /\ placed # <<>> /\ k - 1 = n
              BY <3>1, <5>1
            <6>2. QED BY <3>2, <3>5, <5>1, <6>1
          <5>2. CASE k # n + 1
            <6>1. k \in 2 .. n /\ k \in 1 .. n /\ k - 1 \in 1 .. n
              BY <5>2
            <6>2. QED BY <1>2, <3>1, <3>2, <6>1 DEF Ordered
          <5>3. QED BY <5>1, <5>2
        <4>2. QED BY <2>3, <3>2, <4>1 DEF Ordered, Follows
      <3>8. Starts'
        <4>1. CASE placed = <<>>
          <5>1. n = 0 /\ placed'[1] = <<block, page>>
            BY <3>1, <3>2, <4>1
          <5>2. QED BY <1>1, <3>5, <4>1, <5>1 DEF Starts, Listed
        <4>2. CASE placed # <<>>
          <5>1. placed'[1] = placed[1]
            BY <3>1, <3>2, <4>2
          <5>2. QED BY <1>1, <1>2, <4>2, <5>1 DEF Starts, Listed
        <4>3. QED BY <4>1, <4>2
      <3>9. LoopInv'
        <4>1. ASSUME NEW k \in 1 .. n + 1
              PROVE  \/ placed'[k][1] < block'
                     \/ pc' = "program" /\ placed'[k][1] = block' /\ placed'[k][2] < page'
          <5>1. CASE k = n + 1
            BY <1>1, <2>1, <3>2, <5>1
          <5>2. CASE k \in 1 .. n
            BY <2>2, <3>1, <3>2, <5>2
          <5>3. QED BY <5>1, <5>2
        <4>2. placed' # <<>> /\ placed'[n + 1] = <<block, page>>
          BY <3>1, <3>2
        <4>3. /\ pc' = "pick" => page = NPages - 1 /\ block' = block + 1
              /\ pc' = "program" => block' = block /\ page' = page + 1 /\ page' - 1 = page /\ page' > 0
              /\ pc' \in {"pick", "program"}
          BY <1>1, <2>1
        <4>4. After(placed[Len(placed)])'
          BY <1>1, <3>2, <4>2, <4>3 DEF After
        <4>5. start.p < NPages
          BY <1>1, <1>2 DEF LoopInv
        <4>6. \A k \in 1 .. Len(placed') : Before(placed[k])'
          BY <3>2, <4>1 DEF Before
        <4>7. QED BY <1>1, <2>1, <4>2, <4>4, <4>5, <4>6 DEF LoopInv, Before
      <3>10. QED BY <3>4, <3>7, <3>8, <3>9 DEF PlaceInv
    <2>6. QED BY <2>4, <2>5
  <1>8. QED BY <1>6, <1>7

LEMMA NextPlaced == IInv /\ CompleteInv /\ PlaceInv /\ [Next]_vars => PlaceInv'
  <1> SUFFICES ASSUME IInv, CompleteInv, PlaceInv, [Next]_vars PROVE PlaceInv'
    OBVIOUS
  <1>1. CASE UNCHANGED vars
    <2>1. UNCHANGED <<kind, bblist, placed, start, flash, buf, block, page, len, pc, overran>>
      BY <1>1 DEF vars, device, locals
    <2>2. QED BY <2>1, OrderStays DEF PlaceInv, Holds, LoopInv, Before, After
  <1>2. CASE WriteStep
    BY <1>2, PickPlace, ReadPlace, ErasePlace, ProgramPlace DEF WriteStep
  <1>3. QED BY <1>1, <1>2, CallPlace DEF Next

(* The caller's pages are on the device in order, the last one padded,     *)
(* from the offset asked for on, with only bad blocks in between, at every *)
(* step of the write and after it (platform.c:1456-1604).                  *)
THEOREM DataIsInPlace == Spec => []DataInPlace
  <1>1. Spec => [](IInv /\ CompleteInv /\ PlaceInv)
    BY InitIInv, NextIInv, InitComplete, NextComplete, InitPlace, NextPlaced, PTL DEF Spec
  <1>2. IInv /\ CompleteInv /\ PlaceInv => DataInPlace
    BY PlaceDef DEF PlaceInv
  <1>3. QED BY <1>1, <1>2, PTL

-----------------------------------------------------------------------------
(* Reading back: without bad blocks the pages are consecutive, also across *)
(* the boundaries of blocks.                                               *)

NoneBad == GoodFrom(start.b) = {b \in Block : b >= start.b}

(* The k-th page of the data is the k-th page from the start on. *)
Straight ==
  \A k \in 1 .. Len(placed) :
    /\ placed[k][1] >= start.b
    /\ (placed[k][1] - start.b) * NPages + placed[k][2] = start.p + k - 1

StraightInv == ~overran /\ NoneBad => Straight

LEMMA InitStraight == Init => StraightInv
  BY DEF Init, StraightInv, Straight

LEMMA NextRow ==
  ASSUME NEW d \in Nat
  PROVE  d * NPages \in Nat /\ (d + 1) * NPages = d * NPages + NPages
  BY FlashAssumption

LEMMA QuotientRest ==
  ASSUME NEW d \in Nat, NEW y \in Nat, y < NPages
  PROVE  (d * NPages + y) \div NPages = d /\ (d * NPages + y) % NPages = y
  <1>1. NPages \in Nat /\ NPages > 0
    BY FlashAssumption
  <1>2. QED BY <1>1

(* Where the next page goes if no block is bad. *)
LEMMA NextStraight ==
  ASSUME IInv, CompleteInv, PlaceInv, StraightInv, ~ overran, NoneBad,
         pc = "program", ~ WritesBack, NEW n \in Nat, n = Len(placed)
  PROVE  block >= start.b /\ (block - start.b) * NPages + page = start.p + n
  <1>1. /\ TypeOK /\ block \in Nat /\ page \in Nat /\ start.b \in Nat /\ start.p \in Nat
        /\ NPages \in Nat /\ NPages > 0
    BY FlashAssumption DEF IInv, TypeOK
  <1>2. block >= start.b /\ block \in Block
    BY <1>1, FlashAssumption DEF IInv, BlockInv, AtBlock, Block
  <1>3. \A b \in Block : b >= start.b => b \notin Listed
    BY DEF NoneBad, GoodFrom
  <1>4. /\ placed # <<>> => Follows(placed[n], <<block, page>>)
        /\ placed = <<>> /\ start.b \notin Listed => block = start.b /\ page = start.p
    BY NextPlace
  <1>5. CASE placed = <<>>
    <2>1. start.b \in Block
      BY <1>1, <1>2, FlashAssumption DEF Block
    <2>2. block = start.b /\ page = start.p /\ n = 0
      BY <1>1, <1>3, <1>4, <1>5, <2>1
    <2>3. (block - start.b) * NPages = 0
      BY <1>1, <2>2
    <2>4. QED BY <1>1, <1>2, <2>2, <2>3
  <1>6. CASE placed # <<>>
    <2>1. n \in 1 .. Len(placed)
      BY <1>1, <1>6 DEF TypeOK
    <2>2. placed[n] \in Block \X Page
      BY <1>1, <2>1 DEF TypeOK
    <2>3. PICK x \in Block, y \in Page : placed[n] = <<x, y>>
      BY <2>2
    <2>4. x \in Nat /\ y \in Nat
      BY <2>3 DEF Block, Page
    <2>5. x >= start.b /\ (x - start.b) * NPages + y = start.p + n - 1
      BY <2>1, <2>3 DEF StraightInv, Straight
    <2>6. (x - start.b) * NPages \in Nat
      BY <1>1, <2>4, <2>5
    <2>7. \/ block = x /\ page = y + 1
          \/ y = NPages - 1 /\ page = 0 /\ block \in ScanStops(x + 1)
      BY <1>4, <1>6, <2>3 DEF Follows
    <2>8. CASE block = x /\ page = y + 1
      <3>1. PICK q \in Nat : q = (x - start.b) * NPages
        BY <2>6
      <3>2. q + y = start.p + n - 1
        BY <2>5, <3>1
      <3>3. q + page = start.p + n
        BY <1>1, <2>4, <2>8, <3>2
      <3>4. (block - start.b) * NPages = q
        BY <2>8, <3>1
      <3>5. QED BY <2>5, <2>8, <3>3, <3>4
    <2>9. CASE y = NPages - 1 /\ page = 0 /\ block \in ScanStops(x + 1)
      <3>1. block = x + 1
        <4>1. block >= x + 1
          BY <1>1, <2>4, <2>9, ScanStopsType
        <4>2. x + 1 \in Block /\ x + 1 >= start.b
          BY <1>1, <1>2, <2>4, <2>5, <4>1, FlashAssumption DEF Block
        <4>3. x + 1 \in GoodFrom(x + 1)
          BY <1>3, <2>4, <4>2 DEF GoodFrom
        <4>4. CASE kind = "NOR"
          BY <2>9, <4>4 DEF ScanStops
        <4>5. CASE kind = "NAND"
          <5>1. block <= x + 1
            BY <2>9, <4>3, <4>5 DEF ScanStops
          <5>2. QED BY <1>1, <2>4, <4>1, <5>1
        <4>6. QED BY <1>1, <4>4, <4>5 DEF TypeOK
      <3>2. PICK d \in Nat : x - start.b = d /\ block - start.b = d + 1
        BY <1>1, <2>4, <2>5, <3>1
      <3>3. PICK q \in Nat : q = d * NPages /\ (d + 1) * NPages = q + NPages
        BY NextRow
      <3>4. q + y = start.p + n - 1
        BY <2>5, <3>2, <3>3
      <3>5. (block - start.b) * NPages + page = q + y + 1
        <4>1. (block - start.b) * NPages = q + NPages
          BY <3>2, <3>3
        <4>2. page = 0 /\ NPages = y + 1
          BY <1>1, <2>4, <2>9
        <4>3. PICK r \in Nat : r = (block - start.b) * NPages /\ r = q + NPages
          BY <1>1, <4>1
        <4>4. r + page = q + y + 1
          BY <2>4, <4>2, <4>3
        <4>5. QED BY <4>3, <4>4
      <3>6. q + y + 1 = start.p + n
        BY <1>1, <2>4, <3>4
      <3>7. block >= start.b
        BY <1>1, <2>4, <2>5, <3>1
      <3>8. QED BY <3>5, <3>6, <3>7
    <2>10. QED BY <2>7, <2>8, <2>9
  <1>7. QED BY <1>5, <1>6

LEMMA StraightStays ==
  ASSUME StraightInv, UNCHANGED <<placed, start, kind, bblist>>, overran => overran'
  PROVE  StraightInv'
  BY DEF StraightInv, Straight, NoneBad, GoodFrom, Listed

LEMMA ProgramStraight == ASSUME IInv, CompleteInv, PlaceInv, StraightInv, ProgramPage PROVE StraightInv'
  <1>1. UNCHANGED <<start, kind, bblist, overran>> /\ pc = "program"
    BY DEF ProgramPage, device
  <1>2. CASE placed' = placed
    BY <1>1, <1>2, StraightStays
  <1>3. CASE placed' # placed
    <2>1. /\ ~ WritesBack /\ placed' = Append(placed, <<Phys(block), page>>)
          /\ placed \in Seq(Block \X Page)
      BY <1>3 DEF ProgramPage, IInv, TypeOK
    <2>2. PICK n \in Nat : n = Len(placed)
      BY <2>1
    <2> SUFFICES ASSUME ~ overran, NoneBad
                 PROVE  \A k \in 1 .. n + 1 :
                          /\ placed'[k][1] >= start.b
                          /\ (placed'[k][1] - start.b) * NPages + placed'[k][2] = start.p + k - 1
      BY <1>1, <2>1, <2>2 DEF StraightInv, Straight, NoneBad, GoodFrom, Listed
    <2>3. Phys(block) = block /\ start.p \in Nat
      BY <1>1 DEF IInv, TypeOK, BlockInv, Phys
    <2>4. /\ placed'[n + 1] = <<block, page>>
          /\ \A k \in 1 .. n : placed'[k] = placed[k]
      BY <2>1, <2>2, <2>3
    <2>5. block >= start.b /\ (block - start.b) * NPages + page = start.p + n
      BY <1>1, <2>1, <2>2, NextStraight
    <2>6. start.p + (n + 1) - 1 = start.p + n
      BY <2>3
    <2>7. ASSUME NEW k \in 1 .. n + 1
          PROVE  /\ placed'[k][1] >= start.b
                 /\ (placed'[k][1] - start.b) * NPages + placed'[k][2] = start.p + k - 1
      <3>1. CASE k = n + 1
        BY <2>4, <2>5, <2>6, <3>1
      <3>2. CASE k \in 1 .. n
        BY <2>2, <2>4, <3>2 DEF StraightInv, Straight
      <3>3. QED BY <3>1, <3>2
    <2>8. QED BY <2>7
  <1>4. QED BY <1>2, <1>3

LEMMA NextStraightInv ==
  IInv /\ CompleteInv /\ PlaceInv /\ StraightInv /\ [Next]_vars => StraightInv'
  <1> SUFFICES ASSUME IInv, CompleteInv, PlaceInv, StraightInv, [Next]_vars PROVE StraightInv'
    OBVIOUS
  <1>1. CASE PickBlock \/ ReadBlock \/ EraseForWrite \/ UNCHANGED vars
    <2>1. CASE PickBlock
      BY <2>1, StraightStays DEF PickBlock, device
    <2>2. CASE ReadBlock
      BY <2>2, StraightStays DEF ReadBlock, device
    <2>3. CASE EraseForWrite
      <3>1. UNCHANGED <<placed, start, kind, bblist>> /\ overran' = (overran \/ block = NBlocks)
        BY <2>3 DEF EraseForWrite
      <3>2. QED BY <3>1, StraightStays
    <2>4. CASE UNCHANGED vars
      BY <2>4, StraightStays DEF vars, device, locals
    <2>5. QED BY <1>1, <2>1, <2>2, <2>3, <2>4
  <1>2. CASE \/ Open \/ Close \/ Refused \/ Reset \/ \E b \in Block : EraseBlock(b) \/ MarkBad(b)
             \/ \E off \in Offset, data \in Buffers : \E n \in LengthOf(data) : WriteCall(off, n, data)
    <2>1. placed' = <<>>
      BY <1>2 DEF Open, Close, Refused, Reset, EraseBlock, MarkBad, Forget, WriteCall
    <2>2. QED BY <2>1 DEF StraightInv, Straight
  <1>3. QED BY <1>1, <1>2, ProgramStraight DEF Next, WriteStep

(* "Compare to see if what we wrote is what we read" (test_nand): a read   *)
(* at the offset of a successful write returns the data, whatever the      *)
(* geometry, if no block from there on is listed bad.                      *)
THEOREM ReadsBack == Spec => []ReadBackWithoutBadBlocks
  <1>1. Spec => [](IInv /\ CompleteInv /\ PlaceInv /\ StraightInv)
    BY InitIInv, NextIInv, InitComplete, NextComplete, InitPlace, NextPlaced,
       InitStraight, NextStraightInv, PTL DEF Spec
  <1>2. ASSUME IInv, CompleteInv, PlaceInv, StraightInv PROVE ReadBackWithoutBadBlocks
    <2> SUFFICES ASSUME ~ overran, NoneBad, pc = "idle", status = "EOK", NEW k \in 1 .. Len(buf)
                 PROVE  /\ start.b + (start.p + k - 1) \div NPages < NBlocks
                        /\ ReadPage(start.b, start.p, k) \in {buf[k], Pad(buf[k])}
      BY DEF ReadBackWithoutBadBlocks, ReadBack, NoneBad
    <2>1. Len(placed) = Len(buf) /\ Holds /\ Straight
      BY <1>2 DEF CompleteInv, SuccessIsComplete, PlaceInv, StraightInv
    <2>2. placed[k] \in Block \X Page /\ start.b \in Nat /\ start.p \in Nat
      BY <1>2, <2>1 DEF IInv, TypeOK
    <2>3. PICK x \in Block, y \in Page : placed[k] = <<x, y>>
      BY <2>2
    <2>4. x \in Nat /\ x < NBlocks /\ y \in Nat /\ y < NPages
      BY <2>3, FlashAssumption DEF Block, Page
    <2>5. x >= start.b /\ (x - start.b) * NPages + y = start.p + k - 1
      BY <2>1, <2>3 DEF Straight
    <2>6. PICK d \in Nat : d = x - start.b /\ start.b + d = x
      BY <2>2, <2>4, <2>5
    <2>7. (start.p + k - 1) \div NPages = d /\ (start.p + k - 1) % NPages = y
      BY <2>4, <2>5, <2>6, QuotientRest
    <2>8. ReadPage(start.b, start.p, k) = flash[x][y]
      BY <2>6, <2>7 DEF ReadPage
    <2>9. flash[x][y] \in {buf[k], Pad(buf[k])}
      <3>1. k \in 1 .. Len(placed)
        BY <2>1
      <3>2. flash[placed[k][1]][placed[k][2]]
               \in IF k < Len(buf) THEN {buf[k]} ELSE {buf[k], Pad(buf[k])}
        BY <2>1, <3>1 DEF Holds
      <3>3. placed[k][1] = x /\ placed[k][2] = y
        BY <2>3
      <3>4. flash[x][y] \in IF k < Len(buf) THEN {buf[k]} ELSE {buf[k], Pad(buf[k])}
        BY <3>2, <3>3
      <3>5. QED BY <3>4
    <2>10. QED BY <2>4, <2>6, <2>7, <2>8, <2>9
  <1>3. QED BY <1>1, <1>2, PTL

-----------------------------------------------------------------------------
(* Writes of whole blocks: the pages of the block being programmed are     *)
(* pending, every other page is the caller's or as it was.                 *)

Whole == start.p = 0 /\ Len(buf) % NPages = 0

Pending(b, p) == pc = "program" /\ b = Phys(block) /\ p >= page

RestInv ==
  Whole /\ (pc # "idle" \/ status = "EOK") =>
    /\ \A b \in Block, p \in Page :
         InPlaced(b, p) \/ Pending(b, p) \/ flash[b][p] = before[b][p]
    /\ AtBlock => len > 0
    /\ pc # "idle" => Len(placed) % NPages = IF pc = "program" THEN page ELSE 0

LEMMA InitRest == Init => RestInv
  BY DEF Init, RestInv, AtBlock

LEMMA NextRemainder ==
  ASSUME NEW n \in Nat
  PROVE  (n + 1) % NPages = IF (n % NPages) + 1 = NPages THEN 0 ELSE (n % NPages) + 1
  <1>1. NPages \in Nat /\ NPages > 0
    BY FlashAssumption
  <1>2. PICK d \in Nat, r \in Nat : d = n \div NPages /\ r = n % NPages /\ r < NPages
    BY <1>1
  <1>3. PICK q \in Nat : q = d * NPages /\ (d + 1) * NPages = q + NPages
    BY NextRow
  <1>4. n = q + r
    BY <1>1, <1>2, <1>3
  <1>5. CASE r + 1 = NPages
    <2>1. n + 1 = (d + 1) * NPages + 0
      BY <1>1, <1>3, <1>4, <1>5
    <2>2. ((d + 1) * NPages + 0) % NPages = 0
      BY <1>1, QuotientRest
    <2>3. QED BY <1>2, <1>5, <2>1, <2>2
  <1>6. CASE r + 1 < NPages
    <2>1. n + 1 = d * NPages + (r + 1)
      BY <1>3, <1>4
    <2>2. (d * NPages + (r + 1)) % NPages = r + 1
      BY <1>1, <1>6, QuotientRest
    <2>3. QED BY <1>2, <1>6, <2>1, <2>2
  <1>7. QED BY <1>1, <1>2, <1>5, <1>6

LEMMA CallRest ==
  ASSUME IInv,
         \/ Open \/ Close \/ Refused \/ Reset \/ \E b \in Block : EraseBlock(b) \/ MarkBad(b)
         \/ \E off \in Offset, data \in Buffers : \E n \in LengthOf(data) : WriteCall(off, n, data)
  PROVE  RestInv'
  <1>1. placed' = <<>> /\ before' = flash' /\ pc' \in {"idle", "pick"}
    BY DEF Open, Close, Refused, Reset, EraseBlock, MarkBad, Forget, WriteCall, Exit, Calling
  <1>2. 0 % NPages = 0 /\ Len(placed') = 0
    BY <1>1, FlashAssumption
  <1>3. QED BY <1>1, <1>2 DEF RestInv, AtBlock

LEMMA ProgramRest == ASSUME IInv, CompleteInv, RestInv, ProgramPage PROVE RestInv'
  <1>0. UNCHANGED <<start, buf, before>> /\ pc = "program"
    BY DEF ProgramPage
  <1>1. /\ UNCHANGED <<start, buf, before>> /\ pc = "program" /\ TypeOK
        /\ page \in Page /\ page \in Nat /\ NPages \in Nat /\ NPages > 0
    BY <1>0, FlashAssumption DEF IInv, TypeOK, BlockInv, Page
  <1>2. CASE pc' = "idle"
    <2>1. status' # "EOK"
      BY <1>1, <1>2 DEF ProgramPage, Exit
    <2>2. QED BY <1>2, <2>1 DEF RestInv
  <1>3. CASE pc' # "idle"
    <2> SUFFICES ASSUME Whole PROVE RestInv'
      BY <1>1 DEF RestInv, Whole
    <2>1. /\ \A b \in Block, p \in Page :
               InPlaced(b, p) \/ Pending(b, p) \/ flash[b][p] = before[b][p]
          /\ len > 0 /\ Len(placed) % NPages = page
      BY <1>1 DEF RestInv, AtBlock
    <2>2. ~ WritesBack
      BY <1>1, <2>1 DEF WritesBack, Whole
    <2>3. /\ placed' = Append(placed, <<Phys(block), page>>)
          /\ flash' = [flash EXCEPT ![Phys(block)][page] = PageImage]
          /\ page' = page + 1
          /\ page + 1 = NPages => pc' = "pick"
          /\ page + 1 # NPages => pc' = "program" /\ block' = block
      BY <1>1, <1>3, <2>2 DEF ProgramPage, Exit
    <2>4. PICK n \in Nat : n = Len(placed) /\ Len(placed') = n + 1 /\ n % NPages = page
      BY <1>1, <2>1, <2>3 DEF TypeOK
    <2>5. (n + 1) % NPages = IF page + 1 = NPages THEN 0 ELSE page + 1
      BY <2>4, NextRemainder
    <2>6. /\ placed'[n + 1] = <<Phys(block), page>>
          /\ \A k \in 1 .. n : placed'[k] = placed[k]
      BY <1>1, <2>3, <2>4 DEF TypeOK
    <2>7. ASSUME NEW b \in Block, NEW p \in Page
          PROVE  InPlaced(b, p)' \/ Pending(b, p)' \/ flash'[b][p] = before[b][p]
      <3>1. CASE b = Phys(block) /\ p = page
        <4>1. n + 1 \in 1 .. Len(placed') /\ placed'[n + 1] = <<b, p>>
          BY <2>4, <2>6, <3>1
        <4>2. QED BY <4>1 DEF InPlaced
      <3>2. CASE InPlaced(b, p)
        <4>1. PICK k \in 1 .. n : placed[k] = <<b, p>>
          BY <2>4, <3>2 DEF InPlaced
        <4>2. k \in 1 .. Len(placed') /\ placed'[k] = <<b, p>>
          BY <2>4, <2>6, <4>1
        <4>3. QED BY <4>2 DEF InPlaced
      <3>3. CASE Pending(b, p) /\ ~ (b = Phys(block) /\ p = page)
        <4>1. b = Phys(block) /\ p >= page + 1 /\ p < NPages
          BY <1>1, <3>3 DEF Pending, Page
        <4>2. pc' = "program" /\ block' = block /\ page' = page + 1
          BY <1>1, <2>3, <4>1 DEF Page
        <4>3. Phys(block)' = Phys(block)
          BY <4>2 DEF Phys
        <4>4. QED BY <4>1, <4>2, <4>3 DEF Pending
      <3>4. CASE flash[b][p] = before[b][p] /\ ~ (b = Phys(block) /\ p = page)
        <4>1. flash'[b][p] = flash[b][p]
          BY <1>1, <2>3, <3>4 DEF TypeOK
        <4>2. QED BY <3>4, <4>1
      <3>5. QED BY <2>1, <3>1, <3>2, <3>3, <3>4
    <2>8. AtBlock' => len' > 0
      <3>1. SUFFICES ASSUME pc' = "program" PROVE len' > 0
        BY <2>3 DEF AtBlock
      <3>2. page + 1 # NPages
        BY <2>3, <3>1
      <3>3. Len(placed') # Len(buf)
        BY <1>1, <2>4, <2>5, <3>2 DEF Whole
      <3>4. len' # 0
        BY <1>1, <1>3, <3>3, ProgramComplete DEF CompleteInv
      <3>5. len' \in Nat
        BY NextIInv DEF IInv, TypeOK, Next, WriteStep
      <3>6. QED BY <3>4, <3>5
    <2>9. Len(placed') % NPages = IF pc' = "program" THEN page' ELSE 0
      BY <2>3, <2>4, <2>5
    <2>10. QED BY <1>1, <2>7, <2>8, <2>9 DEF RestInv
  <1>4. QED BY <1>2, <1>3

LEMMA NextRest == IInv /\ CompleteInv /\ RestInv /\ [Next]_vars => RestInv'
  <1> SUFFICES ASSUME IInv, CompleteInv, RestInv, [Next]_vars PROVE RestInv'
    OBVIOUS
  <1>1. CASE PickBlock
    <2>1. /\ UNCHANGED <<flash, before, placed, start, buf, len>> /\ pc = "pick"
          /\ \/ pc' = "idle"
             \/ pc' = "read" /\ len > 0
      BY <1>1 DEF PickBlock, Exit
    <2>2. UNCHANGED <<Whole, Len(placed)>> /\ \A b, p : InPlaced(b, p)' = InPlaced(b, p)
      BY <2>1 DEF Whole, InPlaced
    <2>3. QED BY <2>1, <2>2 DEF RestInv, Pending, AtBlock
  <1>2. CASE ReadBlock
    <2>1. /\ UNCHANGED <<flash, before, placed, start, buf, len>> /\ pc = "read"
          /\ \/ pc' = "idle" /\ status' # "EOK"
             \/ pc' = "erase"
      BY <1>2 DEF ReadBlock, Exit
    <2>2. UNCHANGED <<Whole, Len(placed)>> /\ \A b, p : InPlaced(b, p)' = InPlaced(b, p)
      BY <2>1 DEF Whole, InPlaced
    <2>3. QED BY <2>1, <2>2 DEF RestInv, Pending, AtBlock
  <1>3. CASE EraseForWrite
    <2>1. CASE pc' = "idle"
      <3>1. status' # "EOK"
        BY <1>3, <2>1 DEF EraseForWrite, Exit
      <3>2. QED BY <2>1, <3>1 DEF RestInv
    <2>2. CASE pc' # "idle"
      <3>1. /\ UNCHANGED <<before, placed, start, buf, len, block>> /\ pc = "erase"
            /\ pc' = "program" /\ page' = 0 /\ TypeOK
            /\ flash' = [flash EXCEPT ![Phys(block)] = [p \in Page |-> Erased]]
        BY <1>3, <2>2 DEF EraseForWrite, Exit, IInv
      <3>2. /\ UNCHANGED <<Whole, Len(placed), Phys(block)>>
            /\ \A b, p : InPlaced(b, p)' = InPlaced(b, p)
        BY <3>1 DEF Whole, InPlaced, Phys
      <3>3. ASSUME NEW b \in Block, NEW p \in Page, ~ Pending(b, p)'
            PROVE  flash'[b][p] = flash[b][p] /\ ~ Pending(b, p)
        <4>1. b # Phys(block)
          BY <3>1, <3>2, <3>3, FlashAssumption DEF Pending, Page
        <4>2. QED BY <3>1, <4>1 DEF Pending, TypeOK
      <3>4. QED BY <3>1, <3>2, <3>3 DEF RestInv, AtBlock
    <2>3. QED BY <2>1, <2>2
  <1>4. CASE UNCHANGED vars
    BY <1>4 DEF vars, locals, RestInv, Whole, InPlaced, Pending, Phys, AtBlock
  <1>5. QED BY <1>1, <1>2, <1>3, <1>4, CallRest, ProgramRest DEF Next, WriteStep

(* A successful write that starts and ends at the boundaries of blocks     *)
(* changes nothing but the pages it places, whatever the geometry and      *)
(* whichever blocks are bad in between (platform.c:1487-1560).             *)
THEOREM RestIsPreserved == Spec => []WholeBlocksPreserveRest
  <1>1. Spec => [](IInv /\ CompleteInv /\ RestInv)
    BY InitIInv, NextIInv, InitComplete, NextComplete, InitRest, NextRest, PTL DEF Spec
  <1>2. RestInv => WholeBlocksPreserveRest
    BY DEF RestInv, Whole, Pending, WholeBlocksPreserveRest, RestPreserved
  <1>3. QED BY <1>1, <1>2, PTL

(***************************************************************************)
(* FlashWrite implements FlashStore.                                       *)
(***************************************************************************)

TornInv == pc = "program" => Phys(block) \in torn

MapInv == IInv /\ TornInv

(* A block that is being worked on exists. *)
LEMMA CurrentBlock ==
  ASSUME IInv, AtBlock
  PROVE  Phys(block) \in Block /\ Phys(block) # -1
  <1>1. block \in Nat /\ block <= NBlocks
    BY DEF IInv, TypeOK, BlockInv
  <1>2. QED BY <1>1, PhysInBlock DEF Block

LEMMA InitTorn == Init => TornInv
  BY DEF Init, TornInv

LEMMA NextTorn == IInv /\ TornInv /\ [Next]_vars => TornInv'
  <1> SUFFICES ASSUME IInv, TornInv, [Next]_vars, pc' = "program" PROVE Phys(block') \in torn'
    BY DEF TornInv, Phys
  <1>1. CASE UNCHANGED vars
    BY <1>1 DEF vars, locals, TornInv
  <1>2. CASE PickBlock \/ ReadBlock
    BY <1>2 DEF PickBlock, ReadBlock, Exit
  <1>3. CASE EraseForWrite
    BY <1>3 DEF EraseForWrite
  <1>4. CASE ProgramPage
    BY <1>4 DEF ProgramPage, Exit, TornInv
  <1>5. CASE Open \/ Close \/ Refused \/ Reset \/ \E b \in Block : EraseBlock(b) \/ MarkBad(b)
    BY <1>5 DEF Open, Close, Refused, Reset, EraseBlock, MarkBad, Calling
  <1>6. ASSUME NEW off \in Offset, NEW data \in Buffers, NEW n \in LengthOf(data),
               WriteCall(off, n, data)
        PROVE  FALSE
    BY <1>6 DEF WriteCall, Exit
  <1>7. QED BY <1>1, <1>2, <1>3, <1>4, <1>5, <1>6 DEF Next, WriteStep

-----------------------------------------------------------------------------
LEMMA InitStore == Init => Store!Init
  <1> SUFFICES ASSUME Init PROVE Store!Init
    OBVIOUS
  <1>1. StoreSeen = Delivered
    BY FlashAssumption DEF Init, StoreSeen
  <1>2. WorkingSeen = -1
    BY DEF Init, WorkingSeen
  <1>3. QED BY <1>1, <1>2 DEF Store!Init

(* A step that changes no block the store can see, and works on none. *)
LEMMA Unseen ==
  ASSUME IInv, pc # "program", pc' # "program", UNCHANGED <<flash, torn>>
  PROVE  UNCHANGED Store!vars
  BY DEF Store!vars, StoreSeen, WorkingSeen

LEMMA EraseTears == ASSUME IInv, EraseForWrite PROVE Store!Next
  <1> DEFINE b == Phys(block)
  <1>1. /\ pc = "erase" /\ block' = block /\ torn' = torn \cup {b}
        /\ \E v : flash' = [flash EXCEPT ![b] = v]
        /\ pc' \in {"program", "idle"}
    BY DEF EraseForWrite, Exit
  <1>2. b \in Block /\ b # -1
    BY <1>1, CurrentBlock DEF AtBlock
  <1>3. flash \in [Block -> [Page -> Image]]
    BY DEF IInv, TypeOK
  <1>4. StoreSeen' = [StoreSeen EXCEPT ![b] = <<>>]
    <2> HIDE DEF b
    <2>1. \A o \in Block : o # b => flash'[o] = flash[o]
      BY <1>1, <1>3
    <2>2. QED BY <1>1, <1>2, <2>1 DEF StoreSeen
  <1>5. WorkingSeen = -1
    BY <1>1 DEF WorkingSeen
  <1>6. CASE pc' = "program"
    <2>1. WorkingSeen' = b
      BY <1>1, <1>6 DEF WorkingSeen, Phys
    <2>2. Store!Tear(b)
      BY <1>4, <1>5, <2>1 DEF Store!Tear
    <2>3. QED BY <1>2, <2>2 DEF Store!Next
  <1>7. CASE pc' = "idle"
    <2>1. WorkingSeen' = -1
      BY <1>7 DEF WorkingSeen
    <2>2. Store!Replace(b, <<>>)
      BY <1>4, <1>5, <2>1 DEF Store!Replace
    <2>3. QED BY <1>2, <2>2 DEF Store!Next
  <1>8. QED BY <1>1, <1>6, <1>7

LEMMA ProgramFinishes == ASSUME MapInv, ProgramPage PROVE [Store!Next]_(Store!vars)
  <1> DEFINE b == Phys(block)
  <1>1. /\ pc = "program" /\ b \in torn /\ b \in Block /\ b # -1 /\ page \in Page
        /\ flash \in [Block -> [Page -> Image]]
    BY CurrentBlock DEF ProgramPage, MapInv, TornInv, AtBlock, IInv, TypeOK, BlockInv
  <1>2. PICK v \in Image : flash' = [flash EXCEPT ![b][page] = v]
    <2>1. PageImage \in Image
      BY <1>1, PageImageType DEF MapInv, IInv
    <2>2. flash[b][page] \in Image /\ Junk \in Image
      BY <1>1, FlashAssumption
    <2>3. QED BY <2>1, <2>2 DEF ProgramPage, MaybeTorn
  <1>3. WorkingSeen = b
    BY <1>1 DEF WorkingSeen
  <1> HIDE DEF b
  <1>4. flash' \in [Block -> [Page -> Image]] /\ \A o \in Block : o # b => flash'[o] = flash[o]
    BY <1>1, <1>2
  <1>5. CASE pc' = "program"
    <2>1. torn' = torn /\ block' = block
      BY <1>1, <1>5 DEF ProgramPage, Exit
    <2>2. StoreSeen' = StoreSeen
      BY <1>1, <1>4, <2>1 DEF StoreSeen
    <2>3. WorkingSeen' = WorkingSeen
      BY <1>1, <1>5, <2>1 DEF WorkingSeen, Phys
    <2>4. QED BY <2>2, <2>3 DEF Store!vars
  <1>6. CASE pc' = "pick"
    <2>1. torn' = torn \ {b}
      BY <1>1, <1>6 DEF ProgramPage, Exit, b
    <2>2. StoreSeen' = [StoreSeen EXCEPT ![b] = flash'[b]]
      BY <1>1, <1>4, <2>1 DEF StoreSeen
    <2>3. WorkingSeen' = -1
      BY <1>6 DEF WorkingSeen
    <2>4. flash'[b] \in [Page -> Image]
      BY <1>1, <1>4
    <2>5. Store!Finish(flash'[b])
      BY <1>1, <1>3, <2>2, <2>3 DEF Store!Finish
    <2>6. QED BY <2>4, <2>5 DEF Store!Next
  <1>7. CASE pc' = "idle"
    <2>1. torn' = torn
      BY <1>1, <1>7 DEF ProgramPage
    <2>2. StoreSeen' = StoreSeen
      BY <1>1, <1>4, <2>1 DEF StoreSeen
    <2>3. WorkingSeen' = -1
      BY <1>7 DEF WorkingSeen
    <2>4. Store!Abandon
      BY <1>1, <1>3, <2>2, <2>3 DEF Store!Abandon
    <2>5. QED BY <2>4 DEF Store!Next
  <1>8. pc' \in {"program", "pick", "idle"}
    BY <1>1 DEF ProgramPage, Exit
  <1>9. QED BY <1>5, <1>6, <1>7, <1>8

LEMMA EraseReplaces == ASSUME IInv, NEW b \in Block, EraseBlock(b) PROVE Store!Next
  <1>1. /\ pc = "idle" /\ pc' = "idle" /\ flash \in [Block -> [Page -> Image]]
        /\ \/ torn' = torn \ {b} /\ flash' = [flash EXCEPT ![b] = [p \in Page |-> Erased]]
           \/ torn' = torn \cup {b} /\ \E v : flash' = [flash EXCEPT ![b] = v]
    BY DEF EraseBlock, Calling, IInv, TypeOK
  <1>2. WorkingSeen = -1 /\ WorkingSeen' = -1
    BY <1>1 DEF WorkingSeen
  <1>3. CASE torn' = torn \ {b} /\ flash' = [flash EXCEPT ![b] = [p \in Page |-> Erased]]
    <2> DEFINE image == [p \in Page |-> Erased]
    <2>1. image \in [Page -> Image]
      BY FlashAssumption
    <2>2. StoreSeen' = [StoreSeen EXCEPT ![b] = image]
      BY <1>1, <1>3 DEF StoreSeen
    <2>3. Store!Replace(b, image)
      BY <1>2, <2>2 DEF Store!Replace
    <2>4. QED BY <2>1, <2>3 DEF Store!Next
  <1>4. CASE torn' = torn \cup {b} /\ \E v : flash' = [flash EXCEPT ![b] = v]
    <2>1. StoreSeen' = [StoreSeen EXCEPT ![b] = <<>>]
      BY <1>1, <1>4 DEF StoreSeen
    <2>2. Store!Replace(b, <<>>)
      BY <1>2, <2>1 DEF Store!Replace
    <2>3. QED BY <2>2 DEF Store!Next
  <1>5. QED BY <1>1, <1>3, <1>4

LEMMA ResetAbandons == ASSUME IInv, Reset PROVE [Store!Next]_(Store!vars)
  <1>1. pc' = "idle" /\ UNCHANGED <<flash, torn>>
    BY DEF Reset
  <1>2. StoreSeen' = StoreSeen /\ WorkingSeen' = -1
    BY <1>1 DEF StoreSeen, WorkingSeen
  <1>3. CASE pc = "program"
    <2>1. WorkingSeen # -1
      BY <1>3, CurrentBlock DEF WorkingSeen, AtBlock
    <2>2. QED BY <1>2, <2>1 DEF Store!Abandon, Store!Next
  <1>4. CASE pc # "program"
    BY <1>1, <1>4, Unseen
  <1>5. QED BY <1>3, <1>4

LEMMA MarkReplaces == ASSUME IInv, NEW b \in Block, MarkBad(b) PROVE Store!Next
  <1>1. /\ pc = "idle" /\ pc' = "idle" /\ torn' = torn /\ flash \in [Block -> [Page -> Image]]
        /\ \E v : flash' = [flash EXCEPT ![b] = v]
    BY DEF MarkBad, Calling, IInv, TypeOK
  <1>2. WorkingSeen = -1 /\ WorkingSeen' = -1
    BY <1>1 DEF WorkingSeen
  <1>3. flash'[b] \in [Page -> Image]
    BY BetweenWrites DEF IInv, TypeOK
  <1> DEFINE seen == StoreSeen'[b]
  <1>4. StoreSeen' = [StoreSeen EXCEPT ![b] = seen]
    BY <1>1 DEF StoreSeen
  <1>5. seen \in [Page -> Image] \cup {<<>>}
    BY <1>1, <1>3 DEF StoreSeen
  <1> HIDE DEF seen
  <1>6. Store!Replace(b, seen)
    BY <1>2, <1>4 DEF Store!Replace
  <1>7. QED BY <1>5, <1>6 DEF Store!Next

(* Every step of the device API is a step of the store, or of nothing. *)
LEMMA StepMaps == MapInv /\ [Next]_vars => [Store!Next]_(Store!vars)
  <1> SUFFICES ASSUME MapInv, [Next]_vars PROVE [Store!Next]_(Store!vars)
    OBVIOUS
  <1>1. CASE UNCHANGED vars
    BY <1>1 DEF vars, locals, Store!vars, StoreSeen, WorkingSeen, Phys
  <1>2. CASE PickBlock \/ ReadBlock
    <2>1. pc # "program" /\ pc' # "program" /\ UNCHANGED <<flash, torn>>
      BY <1>2 DEF PickBlock, ReadBlock, Exit
    <2>2. QED BY <2>1, Unseen DEF MapInv
  <1>3. CASE EraseForWrite \/ ProgramPage
    BY <1>3, EraseTears, ProgramFinishes DEF MapInv
  <1>4. CASE Reset \/ \E b \in Block : EraseBlock(b)
    BY <1>4, ResetAbandons, EraseReplaces DEF MapInv
  <1>8. CASE \E b \in Block : MarkBad(b)
    BY <1>8, MarkReplaces DEF MapInv
  <1>5. CASE Open \/ Close \/ Refused
    <2>1. pc # "program" /\ pc' # "program" /\ UNCHANGED <<flash, torn>>
      BY <1>5 DEF Open, Close, Refused, Calling
    <2>2. QED BY <2>1, Unseen DEF MapInv
  <1>6. ASSUME NEW off \in Offset, NEW data \in Buffers, NEW n \in LengthOf(data),
               WriteCall(off, n, data)
        PROVE  UNCHANGED Store!vars
    <2>1. pc # "program" /\ pc' # "program" /\ UNCHANGED <<flash, torn>>
      BY <1>6 DEF WriteCall, Calling, Exit
    <2>2. QED BY <2>1, Unseen DEF MapInv
  <1>7. QED BY <1>1, <1>2, <1>3, <1>4, <1>5, <1>6, <1>8 DEF Next, WriteStep

(* The device API implements FlashStore: whatever fails and whenever the   *)
(* board is reset, a write tears at most one block at a time, makes it     *)
(* whole before it goes on, and leaves all others alone                    *)
(* (platform.c:1452-1604).                                                 *)
THEOREM Implements == Spec => ImplementsStore
  <1>1. Spec => []MapInv
    <2>1. Init => MapInv
      BY InitIInv, InitTorn DEF MapInv
    <2>2. MapInv /\ [Next]_vars => MapInv'
      BY NextIInv, NextTorn DEF MapInv
    <2>3. QED BY <2>1, <2>2, PTL DEF Spec
  <1>2. QED BY <1>1, InitStore, StepMaps, PTL DEF Spec, ImplementsStore, Store!Spec

=============================================================================
