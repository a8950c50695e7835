----------------------------- MODULE FlashStore -----------------------------
(***************************************************************************)
(* What a block-erasable flash promises to the clients of the platform     *)
(* library, without buffers, pages or return codes.  A block is either     *)
(* whole, with some image, or torn: erased and not completely programmed   *)
(* again.  An operation tears at most one block at a time, makes it whole  *)
(* before it tears the next one, and leaves all other blocks alone.  A     *)
(* failing operation, or a reset of the board, abandons the block it is    *)
(* working on.                                                             *)
(***************************************************************************)
CONSTANTS Block,      \* the physical blocks of the device
          BlockImage, \* what a whole block can hold
          Torn,       \* the content of a torn block
          NoBlock,    \* no block is being rewritten
          Delivered   \* content of the device as delivered

VARIABLES store,      \* store[b]: content of block b
          working     \* the block being rewritten, or NoBlock

vars == <<store, working>>

TypeOK == /\ store \in [Block -> BlockImage \cup {Torn}]
          /\ working \in Block \cup {NoBlock}

Init == /\ store = Delivered
        /\ working = NoBlock

(* Erase a block in order to program it. *)
Tear(b) == /\ working = NoBlock
           /\ store' = [store EXCEPT ![b] = Torn]
           /\ working' = b

(* The block being rewritten is whole again. *)
Finish(image) == /\ working # NoBlock
                 /\ store' = [store EXCEPT ![working] = image]
                 /\ working' = NoBlock

(* Give up on the block being rewritten. *)
Abandon == /\ working # NoBlock
           /\ working' = NoBlock
           /\ UNCHANGED store

(* Erase a block for its own sake, or spoil it: it is whole then, or torn. *)
Replace(b, image) == /\ working = NoBlock
                     /\ store' = [store EXCEPT ![b] = image]
                     /\ UNCHANGED working

Next == \/ \E b \in Block : Tear(b)
        \/ \E image \in BlockImage : Finish(image)
        \/ Abandon
        \/ \E b \in Block, image \in BlockImage \cup {Torn} : Replace(b, image)

Spec == Init /\ [][Next]_vars
=============================================================================
