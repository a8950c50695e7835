------------------------------ MODULE MCNandEcc ------------------------------
(* Small instance of NandEcc for TLC: every bit of the 256 bytes flips by  *)
(* itself.  Two bits flip together in some bytes that tell the line        *)
(* parities apart, and in the ECC.                                         *)
EXTENDS NandEcc

MCPattern == { [j \in Index |-> (7 * j + 3) % 256], [j \in Index |-> (j * j) % 256] }
MCPlaces == Index \X Bit
MCTogether == {0, 1, 2, 4, 8, 16, 32, 64, 128, 255} \X {0, 1, 2, 4, 7}
=============================================================================
