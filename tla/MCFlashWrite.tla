---------------------------- MODULE MCFlashWrite ----------------------------
(***************************************************************************)
(* Small instances of FlashWrite.  The pages of the caller's buffer and of *)
(* the delivered flash are all different, so that a page that ends up in   *)
(* the wrong place is told from one in the right place.                    *)
(***************************************************************************)
EXTENDS FlashWrite

MaxData == 4

(* Pages: 1..MaxData are the buffer's, 50 more their padded forms, 100 and *)
(* up those delivered.                                                     *)
MCPad(d) == IF d \in 1 .. MaxData THEN 50 + d ELSE d
MCDelivered == [b \in Block |-> [p \in Page |-> 100 + 10 * b + p]]
MCImage == {Erased, Junk} \cup 1 .. MaxData \cup {50 + d : d \in 1 .. MaxData}
           \cup {100 + 10 * b + p : b \in Block, p \in Page}
MCBuffers == {[k \in 1 .. n |-> k] : n \in {0, 1, 3, MaxData}}
=============================================================================
