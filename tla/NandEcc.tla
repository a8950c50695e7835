------------------------------ MODULE NandEcc ------------------------------
(***************************************************************************)
(* The error correction of the NAND driver (evmc66x_ecc.c), which          *)
(* writeNandPage and readNandPage apply to every 256 bytes: three bytes of *)
(* ECC are stored in the spare area when a page is written, and compared   *)
(* with those of the bytes read back.  Between the two, bits of the data   *)
(* and of the stored ECC flip.                                             *)
(*                                                                         *)
(* A data byte is a number, an ECC byte or a parity register the set of    *)
(* its bits that are 1, so that exclusive or is symmetric difference.      *)
(***************************************************************************)
EXTENDS Integers, FiniteSets, Sequences

CONSTANTS
  Pattern,   \* the contents that are written, as functions of the byte number
  Places,    \* the data bits that may flip, as <<byte, bit>>
  Together,  \* those of them that may flip together with another bit
  MaxFlips   \* bound: how many bits flip

Index == 0 .. 255
Bit == 0 .. 7
Erased == [j \in Index |-> 255]

ASSUME EccAssumption ==
  /\ Pattern \subseteq [Index -> Index]
  /\ Places \subseteq Index \X Bit /\ Together \subseteq Places /\ MaxFlips \in Nat

VARIABLES
  original,  \* the data as written; Erased is a page that never was
  data, ecc, \* the data and the stored ECC as the chip gives them back
  flips,     \* the bits that have flipped: <<byte, bit>>, or <<256 + n, bit>> of ECC byte n
  status     \* what readNandPage has made of it

vars == <<original, data, ecc, flips, status>>

BitsOf == [n \in Index |-> {k \in Bit : ((n \div 2^k) % 2) = 1}]
Xor(s, t) == (s \ t) \cup (t \ s)
Odd(s) == (Cardinality(s) % 2) = 1

(* The exclusive or of the bytes f[j]. *)
XorOver(f) == {k \in Bit : Odd({j \in DOMAIN f : k \in f[j]})}

(* nand_ecc_precalc_table: of a byte, the six column parities and in bit 6 *)
(* the parity of all its bits.                                             *)
Precalc == <<
   0, 85, 86, 3, 89, 12, 15, 90, 90, 15, 12, 89, 3, 86, 85, 0,
   101, 48, 51, 102, 60, 105, 106, 63, 63, 106, 105, 60, 102, 51, 48, 101,
   102, 51, 48, 101, 63, 106, 105, 60, 60, 105, 106, 63, 101, 48, 51, 102,
   3, 86, 85, 0, 90, 15, 12, 89, 89, 12, 15, 90, 0, 85, 86, 3,
   105, 60, 63, 106, 48, 101, 102, 51, 51, 102, 101, 48, 106, 63, 60, 105,
   12, 89, 90, 15, 85, 0, 3, 86, 86, 3, 0, 85, 15, 90, 89, 12,
   15, 90, 89, 12, 86, 3, 0, 85, 85, 0, 3, 86, 12, 89, 90, 15,
   106, 63, 60, 105, 51, 102, 101, 48, 48, 101, 102, 51, 105, 60, 63, 106,
   106, 63, 60, 105, 51, 102, 101, 48, 48, 101, 102, 51, 105, 60, 63, 106,
   15, 90, 89, 12, 86, 3, 0, 85, 85, 0, 3, 86, 12, 89, 90, 15,
   12, 89, 90, 15, 85, 0, 3, 86, 86, 3, 0, 85, 15, 90, 89, 12,
   105, 60, 63, 106, 48, 101, 102, 51, 51, 102, 101, 48, 106, 63, 60, 105,
   3, 86, 85, 0, 90, 15, 12, 89, 89, 12, 15, 90, 0, 85, 86, 3,
   102, 51, 48, 101, 63, 106, 105, 60, 60, 105, 106, 63, 101, 48, 51, 102,
   101, 48, 51, 102, 60, 105, 106, 63, 63, 106, 105, 60, 102, 51, 48, 101,
   0, 85, 86, 3, 89, 12, 15, 90, 90, 15, 12, 89, 3, 86, 85, 0 >>

(* nandTransResult: four bits of each line parity register, alternating. *)
Weave(reg3, reg2, from) ==
  {2 * (k - from) + 1 : k \in reg3 \cap (from .. from + 3)}
  \cup {2 * (k - from) : k \in reg2 \cap (from .. from + 3)}

(* eccComputeECC *)
ComputeECC(d) ==
  LET column == [j \in Index |-> BitsOf[Precalc[d[j] + 1]]]
      OddBytes == {j \in Index : 6 \in column[j]}
      reg1 == XorOver(column) \cap (0 .. 5)
      reg3 == XorOver([j \in OddBytes |-> BitsOf[j]])
      reg2 == XorOver([j \in OddBytes |-> Bit \ BitsOf[j]])
  IN << Bit \ Weave(reg3, reg2, 4), Bit \ Weave(reg3, reg2, 0),
        {k + 2 : k \in (0 .. 5) \ reg1} \cup {0, 1} >>

(* Of each of these pairs of neighbouring bits exactly one is in d. *)
OneOfEach(d, pairs) == \A m \in pairs : (2 * m \in d) # (2 * m + 1 \in d)

Flip(n, k) == IF k \in BitsOf[n] THEN n - 2^k ELSE n + 2^k

(* Mutant of Address: the line parities of the two nibbles are swapped. *)
AddressSwapped(d1, d2) ==
  CHOOSE n \in Index : BitsOf[n] = {m \in 0 .. 3 : 2 * m + 1 \in d1} \cup {m + 4 : m \in {i \in 0 .. 3 : 2 * i + 1 \in d2}}

(* The byte and the bit that the parities point at. *)
Address(d1, d2) ==
  CHOOSE n \in Index : BitsOf[n] = {m + 4 : m \in {i \in 0 .. 3 : 2 * i + 1 \in d1}} \cup {m \in 0 .. 3 : 2 * m + 1 \in d2}
BitNumber(d3) == CHOOSE n \in Bit : BitsOf[n] = {m \in 0 .. 2 : 2 * m + 3 \in d3}

(* Mutant of Correctable: the last byte of the ECC is not looked at. *)
CorrectableByLines(d) == OneOfEach(d[1], 0 .. 3) /\ OneOfEach(d[2], 0 .. 3)

(* A single bit of the data has changed. *)
Correctable(d) == OneOfEach(d[1], 0 .. 3) /\ OneOfEach(d[2], 0 .. 3) /\ OneOfEach(d[3], 1 .. 3)

(* A single bit of the ECC has changed. *)
EccAtFault(d) == Cardinality(d[1]) + Cardinality(d[2]) + Cardinality(d[3]) = 1

Init ==
  /\ original \in Pattern \cup {Erased}
  /\ data = original
  /\ ecc = IF original = Erased THEN <<Bit, Bit, Bit>> ELSE ComputeECC(original)
  /\ flips = {} /\ status = "stored"

(* Flips of single bits, and together with others of some of them. *)
MayFlip == status = "stored" /\ Cardinality(flips) < MaxFlips /\ flips \cap Places \subseteq Together
DataBits == (IF flips = {} THEN Places ELSE Together) \ flips

FlipData(p) ==
  /\ MayFlip
  /\ data' = [data EXCEPT ![p[1]] = Flip(@, p[2])]
  /\ flips' = flips \cup {p}
  /\ UNCHANGED <<original, ecc, status>>

FlipEcc(n, k) ==
  /\ MayFlip /\ <<256 + n, k>> \notin flips
  /\ ecc' = [ecc EXCEPT ![n] = Xor(@, {k})]
  /\ flips' = flips \cup {<<256 + n, k>>}
  /\ UNCHANGED <<original, data, status>>

(* readNandPage: eccComputeECC and eccCorrectData. *)
Read ==
  /\ status = "stored"
  /\ \E calc \in {ComputeECC(data)} :
       LET d == [n \in 1 .. 3 |-> Xor(calc[n], ecc[n])] IN
       \/ /\ \A n \in 1 .. 3 : d[n] = {}
          /\ status' = "ok" /\ UNCHANGED <<data, ecc>>
       \/ /\ Correctable(d)
          /\ data' = [data EXCEPT ![Address(d[1], d[2])] = Flip(@, BitNumber(d[3]))]
          /\ status' = "ok" /\ UNCHANGED ecc
       \/ /\ ~ Correctable(d) /\ EccAtFault(d)
          /\ ecc' = calc
          /\ status' = "ok" /\ UNCHANGED data
       \/ /\ \E n \in 1 .. 3 : d[n] # {}
          /\ ~ Correctable(d) /\ ~ EccAtFault(d)
          /\ status' = "fail" /\ UNCHANGED <<data, ecc>>
  /\ UNCHANGED <<original, flips>>

Finished == status # "stored" /\ UNCHANGED vars

Next == (\E p \in DataBits : FlipData(p)) \/ (\E n \in 1 .. 3, k \in Bit : FlipEcc(n, k)) \/ Read \/ Finished

Spec == Init /\ [][Next]_vars

-----------------------------------------------------------------------------
(* eccCorrectData corrects every single error: whichever bit of the data   *)
(* or of the stored ECC has flipped, the read succeeds with the data that  *)
(* was written, and an erased page, whose ECC nothing has computed, reads  *)
(* as erased.                                                              *)
SingleErrorsCorrected ==
  (status # "stored" /\ Cardinality(flips) <= 1) => status = "ok" /\ data = original

(* Two errors are never taken for one: a read that succeeds after two bits *)
(* have flipped, in data or ECC, returns the data that was written.        *)
NoMiscorrection ==
  (status = "ok" /\ Cardinality(flips) <= 2) => data = original
=============================================================================
