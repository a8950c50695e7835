------------------------------ MODULE MCEeprom ------------------------------
(* Small instance of Eeprom for TLC: 16 bytes a bank, 4 bytes a page, 2    *)
(* bytes a block.  The requests hold a write of three blocks, one that     *)
(* crosses a page, and a read up to the bank's end.                        *)
EXTENDS Eeprom

MCValue == {"old", "a", "b", "c", "junk"}
Write(op, dev, offset, data) == [op |-> op, dev |-> dev, offset |-> offset, len |-> Len(data), data |-> data]
Read(dev, offset, len) == [op |-> "read", dev |-> dev, offset |-> offset, len |-> len, data |-> <<>>]
MCRequest ==
  { Write("write", "e50", 4, <<"a", "b", "c", "a", "c">>), Write("write", "e51", 3, <<"b", "a">>),
    Write("i2cwrite", "e50", 5, <<"c", "a", "b">>), Read("e50", 4, 3), Read("e51", 14, 2),
    GetInfo, MacRead, MacWrite(<<"a", "b">>) }
MacOnly == {MacRead, MacWrite(<<"a", "b">>)}
=============================================================================
