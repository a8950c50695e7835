------------------------------ MODULE MCSpiBus ------------------------------
(***************************************************************************)
(* Small instances of SpiBus: two sectors of two pages of two cells, and   *)
(* writes that stay in a page, cross pages, cross the end of the flash and *)
(* wrap around 2^32, which is 64 here.                                     *)
(***************************************************************************)
EXTENDS SpiBus

NorRequests ==
  [kind : {"init"}] \cup [kind : {"read"}, addr : {6}, len : {2, 3}] \cup [kind : {"erase"}, sector : {1, Bulk}]
  \cup {[kind |-> "write", addr |-> a, data |-> <<"x", "y", "z">>] : a \in {1, 6, 62}}
  \cup {[kind |-> "write", addr |-> 0, data |-> <<"x">>]}
EraseRequests == [kind : {"erase"}, sector : {1, SECTOR_COUNT}]

Protects == [kind : {"protect"}, device : {"nand", "nor", "eeprom"}, on : BOOLEAN]

(* fpgaEnableNorWriteProtect does the opposite of what it is asked for. *)
ProtectNor == [kind |-> "protect", device |-> "nor", on |-> TRUE]
FewLeds == {[kind |-> "led", num |-> 1, on |-> TRUE], [kind |-> "led", num |-> 1, on |-> FALSE],
            [kind |-> "led", num |-> 2, on |-> TRUE]}
BusRequests == NorRequests \cup FewLeds \cup (Protects \ {ProtectNor})
=============================================================================
