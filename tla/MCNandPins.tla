----------------------------- MODULE MCNandPins -----------------------------
(* Small instance of NandPins for TLC: 4 blocks of 2 pages, addressed with *)
(* two cycles of one bit and one for the plane.  The requests hold a block *)
(* number that is one too large, which wraps to block 0.                   *)
EXTENDS NandPins

MCValue == {"ff", "a", "b", "a1", "bad", "junk"}
MCOneBit == {<<"a", "a1">>, <<"a1", "a">>}
Blank == [i \in Place |-> "ff"]
MCContent == {Blank, <<"a", "b", "a", "a", "a", "b", "ff", "bad", "b", "b">>}
MCRequest ==
  { [op |-> "open"],
    [op |-> "read", page |-> 0, block |-> 0], [op |-> "read", page |-> 1, block |-> 3],
    [op |-> "write", page |-> 1, block |-> 3, data |-> <<"a", "b">>],
    [op |-> "erase", block |-> 3], [op |-> "erase", block |-> 4],
    [op |-> "mark", block |-> 3], [op |-> "mark", block |-> 4],
    [op |-> "readspare", page |-> 0, block |-> 0], [op |-> "readspare", page |-> 2, block |-> 1],
    [op |-> "writespare", page |-> 1, block |-> 3, data |-> <<"ff", "ff", "ff", "ff", "a", "bad", "ff", "ff">>] }
=============================================================================
