---------------------------- MODULE NandEccProofs ----------------------------
(***************************************************************************)
(* Proofs about NandEcc, for every content of the 256 bytes, every bit     *)
(* that may flip and every number of flips.  The argument is that of the   *)
(* code: an entry of the table holds parities of the bits of its byte, so  *)
(* that a flipped bit adds its own Syndrome to the ECC, whatever the rest  *)
(* of the data is; the syndrome of a data bit has one bit of each of       *)
(* eleven pairs, which spell the numbers of the byte and of the bit; and   *)
(* the syndromes of two errors are not together that of another one.       *)
(***************************************************************************)
EXTENDS NandEcc, FiniteSetTheorems, TLAPS

(* The k-th binary digit, by its weight. *)
Digit(n, w) == (n \div w) % 2

(* The bits of a number, one by one. *)
LEMMA BitsAre ==
  ASSUME NEW n \in Index
  PROVE  /\ BitsOf[n] \subseteq Bit
         /\ (0 \in BitsOf[n]) <=> (Digit(n, 1) = 1)
         /\ (1 \in BitsOf[n]) <=> (Digit(n, 2) = 1)
         /\ (2 \in BitsOf[n]) <=> (Digit(n, 4) = 1)
         /\ (3 \in BitsOf[n]) <=> (Digit(n, 8) = 1)
         /\ (4 \in BitsOf[n]) <=> (Digit(n, 16) = 1)
         /\ (5 \in BitsOf[n]) <=> (Digit(n, 32) = 1)
         /\ (6 \in BitsOf[n]) <=> (Digit(n, 64) = 1)
         /\ (7 \in BitsOf[n]) <=> (Digit(n, 128) = 1)
  <1>1. BitsOf[n] = {k \in Bit : ((n \div 2^k) % 2) = 1}
    BY DEF BitsOf
  <1>2. 2^0 = 1 /\ 2^1 = 2 /\ 2^2 = 4 /\ 2^3 = 8 /\ 2^4 = 16 /\ 2^5 = 32 /\ 2^6 = 64 /\ 2^7 = 128
    OBVIOUS
  <1>3. \A k \in 0 .. 7 : (k \in BitsOf[n]) <=> (Digit(n, 2^k) = 1)
    BY <1>1 DEF Bit, Digit
  <1>4. QED BY <1>1, <1>2, <1>3

(* Its digits make up a number. *)
LEMMA DigitsMakeUp ==
  ASSUME NEW n \in Index
  PROVE  /\ n = Digit(n, 1) + 2 * Digit(n, 2) + 4 * Digit(n, 4) + 8 * Digit(n, 8)
                + 16 * Digit(n, 16) + 32 * Digit(n, 32) + 64 * Digit(n, 64) + 128 * Digit(n, 128)
         /\ \A w \in {1, 2, 4, 8, 16, 32, 64, 128} : Digit(n, w) \in {0, 1}
  <1>1. n \in 0 .. 255
    BY DEF Index
  <1>2. \A w \in {1, 2, 4, 8, 16, 32, 64, 128} : Digit(n, w) \in {0, 1}
    BY <1>1 DEF Digit
  <1>3. n = Digit(n, 1) + 2 * Digit(n, 2) + 4 * Digit(n, 4) + 8 * Digit(n, 8)
                + 16 * Digit(n, 16) + 32 * Digit(n, 32) + 64 * Digit(n, 64) + 128 * Digit(n, 128)
    BY <1>1 DEF Digit
  <1>4. QED BY <1>2, <1>3

(* A number is determined by its bits. *)
LEMMA BitsDetermine ==
  ASSUME NEW m \in Index, NEW n \in Index, BitsOf[m] = BitsOf[n]
  PROVE  m = n
  <1>1. \A w \in {1, 2, 4, 8, 16, 32, 64, 128} : (Digit(m, w) = 1) <=> (Digit(n, w) = 1)
    BY BitsAre
  <1>2. \A w \in {1, 2, 4, 8, 16, 32, 64, 128} : Digit(m, w) = Digit(n, w)
    BY <1>1, DigitsMakeUp
  <1>3. /\ Digit(m, 1) = Digit(n, 1) /\ Digit(m, 2) = Digit(n, 2) /\ Digit(m, 4) = Digit(n, 4)
        /\ Digit(m, 8) = Digit(n, 8) /\ Digit(m, 16) = Digit(n, 16) /\ Digit(m, 32) = Digit(n, 32)
        /\ Digit(m, 64) = Digit(n, 64) /\ Digit(m, 128) = Digit(n, 128)
    BY <1>2
  <1>4. QED BY <1>3, DigitsMakeUp

(* Flip changes one digit. *)
LEMMA FlipDigits ==
  ASSUME NEW n \in Index, NEW w \in {1, 2, 4, 8, 16, 32, 64, 128}
  PROVE  /\ Digit(n, w) = 1 => /\ n - w \in Index
                               /\ \A u \in {1, 2, 4, 8, 16, 32, 64, 128} :
                                    Digit(n - w, u) = IF u = w THEN 0 ELSE Digit(n, u)
         /\ Digit(n, w) = 0 => /\ n + w \in Index
                               /\ \A u \in {1, 2, 4, 8, 16, 32, 64, 128} :
                                    Digit(n + w, u) = IF u = w THEN 1 ELSE Digit(n, u)
  <1>1. n \in 0 .. 255
    BY DEF Index
  <1>2. CASE w = 1
    BY <1>1, <1>2, SMTT(60) DEF Digit, Index
  <1>3. CASE w = 2
    BY <1>1, <1>3, SMTT(60) DEF Digit, Index
  <1>4. CASE w = 4
    BY <1>1, <1>4, SMTT(60) DEF Digit, Index
  <1>5. CASE w = 8
    BY <1>1, <1>5, SMTT(60) DEF Digit, Index
  <1>6. CASE w = 16
    BY <1>1, <1>6, SMTT(60) DEF Digit, Index
  <1>7. CASE w = 32
    BY <1>1, <1>7, SMTT(60) DEF Digit, Index
  <1>8. CASE w = 64
    BY <1>1, <1>8, SMTT(60) DEF Digit, Index
  <1>9. CASE w = 128
    BY <1>1, <1>9, SMTT(60) DEF Digit, Index
  <1>10. QED BY <1>2, <1>3, <1>4, <1>5, <1>6, <1>7, <1>8, <1>9

Weight == [k \in Bit |-> 2^k]

(* The weights of the bits. *)
LEMMA WeightValues ==
  /\ Weight[0] = 1 /\ Weight[1] = 2 /\ Weight[2] = 4 /\ Weight[3] = 8
  /\ Weight[4] = 16 /\ Weight[5] = 32 /\ Weight[6] = 64 /\ Weight[7] = 128
  <1>1. 2^0 = 1 /\ 2^1 = 2 /\ 2^2 = 4 /\ 2^3 = 8 /\ 2^4 = 16 /\ 2^5 = 32 /\ 2^6 = 64 /\ 2^7 = 128
    OBVIOUS
  <1>2. \A k \in Bit : Weight[k] = 2^k
    BY DEF Weight
  <1>3. 0 \in Bit /\ 1 \in Bit /\ 2 \in Bit /\ 3 \in Bit /\ 4 \in Bit /\ 5 \in Bit /\ 6 \in Bit /\ 7 \in Bit
    BY DEF Bit
  <1>4. /\ Weight[0] = 2^0 /\ Weight[1] = 2^1 /\ Weight[2] = 2^2 /\ Weight[3] = 2^3
        /\ Weight[4] = 2^4 /\ Weight[5] = 2^5 /\ Weight[6] = 2^6 /\ Weight[7] = 2^7
    BY <1>2, <1>3, Zenon
  <1>5. QED BY <1>1, <1>4, Zenon

(* Bits have different weights, and tell the digits. *)
LEMMA WeightsAre ==
  /\ \A k \in Bit : Weight[k] \in {1, 2, 4, 8, 16, 32, 64, 128}
  /\ \A j, k \in Bit : Weight[j] = Weight[k] => j = k
  /\ \A n \in Index, k \in Bit : (k \in BitsOf[n]) <=> (Digit(n, Weight[k]) = 1)
  <1>1. \A k \in Bit : k = 0 \/ k = 1 \/ k = 2 \/ k = 3 \/ k = 4 \/ k = 5 \/ k = 6 \/ k = 7
    BY DEF Bit
  <1>2. \A k \in Bit : Weight[k] \in {1, 2, 4, 8, 16, 32, 64, 128}
    BY WeightValues, <1>1
  <1>3. \A j, k \in Bit : Weight[j] = Weight[k] => j = k
    BY WeightValues, <1>1
  <1>4. \A n \in Index, k \in Bit : (k \in BitsOf[n]) <=> (Digit(n, Weight[k]) = 1)
    BY WeightValues, <1>1, BitsAre
  <1>5. QED BY <1>2, <1>3, <1>4

(* Flip changes exactly the bit it is given. *)
LEMMA FlipBits ==
  ASSUME NEW n \in Index, NEW k \in Bit
  PROVE  Flip(n, k) \in Index /\ BitsOf[Flip(n, k)] = Xor(BitsOf[n], {k})
  <1> DEFINE w == Weight[k]
             f == Flip(n, k)
  <1>1. f = IF k \in BitsOf[n] THEN n - w ELSE n + w
    BY DEF Flip, Weight
  <1>2. w \in {1, 2, 4, 8, 16, 32, 64, 128} /\ ((k \in BitsOf[n]) <=> Digit(n, w) = 1)
    BY WeightsAre
  <1>3. \A j \in Bit : (Weight[j] = w) <=> (j = k)
    BY WeightsAre
  <1> HIDE DEF w, f
  <1>4. Digit(n, w) \in {0, 1}
    BY <1>2, DigitsMakeUp
  <1>5. /\ f \in Index
        /\ \A u \in {1, 2, 4, 8, 16, 32, 64, 128} :
             Digit(f, u) = IF u = w THEN 1 - Digit(n, u) ELSE Digit(n, u)
    <2>1. CASE k \in BitsOf[n]
      BY <1>1, <1>2, <2>1, FlipDigits
    <2>2. CASE k \notin BitsOf[n]
      BY <1>1, <1>2, <1>4, <2>2, FlipDigits
    <2>3. QED BY <2>1, <2>2
  <1>6. ASSUME NEW j \in Bit
        PROVE  (j \in BitsOf[f]) <=> (j \in Xor(BitsOf[n], {k}))
    <2>1. PICK u \in {1, 2, 4, 8, 16, 32, 64, 128} : u = Weight[j]
      BY WeightsAre
    <2>2. (j \in BitsOf[n] <=> Digit(n, u) = 1) /\ (j \in BitsOf[f] <=> Digit(f, u) = 1)
      BY <1>5, <2>1, WeightsAre
    <2>3. Digit(f, u) = IF j = k THEN 1 - Digit(n, u) ELSE Digit(n, u)
      BY <1>3, <1>5, <2>1
    <2>4. Digit(n, u) \in {0, 1}
      BY DigitsMakeUp
    <2>5. (j \in BitsOf[f]) <=> (IF j = k THEN j \notin BitsOf[n] ELSE j \in BitsOf[n])
      BY <2>2, <2>3, <2>4
    <2>6. QED BY <2>5 DEF Xor
  <1>7. BitsOf[f] \subseteq Bit /\ Xor(BitsOf[n], {k}) \subseteq Bit
    BY <1>5, BitsAre DEF Xor
  <1>8. QED BY <1>5, <1>6, <1>7 DEF f

(* Flipped twice, a bit is as it was. *)
LEMMA FlipTwice ==
  ASSUME NEW n \in Index, NEW k \in Bit
  PROVE  Flip(Flip(n, k), k) = n
  <1>1. /\ Flip(n, k) \in Index /\ Flip(Flip(n, k), k) \in Index
        /\ BitsOf[Flip(Flip(n, k), k)] = Xor(Xor(BitsOf[n], {k}), {k})
    BY FlipBits
  <1>2. Xor(Xor(BitsOf[n], {k}), {k}) = BitsOf[n]
    BY DEF Xor
  <1>3. QED BY <1>1, <1>2, BitsDetermine

(* The bits of an entry of the table: parities of the bits of the byte.    *)
Entry(n) == BitsOf[Precalc[n + 1]]

(* An entry of nand_ecc_precalc_table holds parities of the bits of its    *)
(* byte.                                                                   *)
LEMMA EntryDigits ==
  ASSUME NEW n \in Index
  PROVE  /\ Precalc[n + 1] \in Index /\ Digit(Precalc[n + 1], 128) = 0
         /\ Digit(Precalc[n + 1], 1) = (Digit(n, 1) + Digit(n, 4) + Digit(n, 16) + Digit(n, 64)) % 2
         /\ Digit(Precalc[n + 1], 2) = (Digit(n, 2) + Digit(n, 8) + Digit(n, 32) + Digit(n, 128)) % 2
         /\ Digit(Precalc[n + 1], 4) = (Digit(n, 1) + Digit(n, 2) + Digit(n, 16) + Digit(n, 32)) % 2
         /\ Digit(Precalc[n + 1], 8) = (Digit(n, 4) + Digit(n, 8) + Digit(n, 64) + Digit(n, 128)) % 2
         /\ Digit(Precalc[n + 1], 16) = (Digit(n, 1) + Digit(n, 2) + Digit(n, 4) + Digit(n, 8)) % 2
         /\ Digit(Precalc[n + 1], 32) = (Digit(n, 16) + Digit(n, 32) + Digit(n, 64) + Digit(n, 128)) % 2
         /\ Digit(Precalc[n + 1], 64) = (Digit(n, 1) + Digit(n, 2) + Digit(n, 4) + Digit(n, 8)
                                         + Digit(n, 16) + Digit(n, 32) + Digit(n, 64) + Digit(n, 128)) % 2
  <1>1. n \in 0 .. 255
    BY DEF Index
  <1>2. Precalc[n + 1] \in 0 .. 127
    BY <1>1, SMTT(60) DEF Precalc
  <1>3. Precalc[n + 1] \in Index /\ Digit(Precalc[n + 1], 128) = 0
    BY <1>2 DEF Index, Digit
  <1>4. Digit(Precalc[n + 1], 1) = (Digit(n, 1) + Digit(n, 4) + Digit(n, 16) + Digit(n, 64)) % 2
    BY <1>1, SMTT(100) DEF Precalc, Digit
  <1>5. Digit(Precalc[n + 1], 2) = (Digit(n, 2) + Digit(n, 8) + Digit(n, 32) + Digit(n, 128)) % 2
    BY <1>1, SMTT(100) DEF Precalc, Digit
  <1>6. Digit(Precalc[n + 1], 4) = (Digit(n, 1) + Digit(n, 2) + Digit(n, 16) + Digit(n, 32)) % 2
    BY <1>1, SMTT(100) DEF Precalc, Digit
  <1>7. Digit(Precalc[n + 1], 8) = (Digit(n, 4) + Digit(n, 8) + Digit(n, 64) + Digit(n, 128)) % 2
    BY <1>1, SMTT(100) DEF Precalc, Digit
  <1>8. Digit(Precalc[n + 1], 16) = (Digit(n, 1) + Digit(n, 2) + Digit(n, 4) + Digit(n, 8)) % 2
    BY <1>1, SMTT(100) DEF Precalc, Digit
  <1>9. Digit(Precalc[n + 1], 32) = (Digit(n, 16) + Digit(n, 32) + Digit(n, 64) + Digit(n, 128)) % 2
    BY <1>1, SMTT(100) DEF Precalc, Digit
  <1>10. Digit(Precalc[n + 1], 64) = (Digit(n, 1) + Digit(n, 2) + Digit(n, 4) + Digit(n, 8)
                                         + Digit(n, 16) + Digit(n, 32) + Digit(n, 64) + Digit(n, 128)) % 2
    BY <1>1, SMTT(100) DEF Precalc, Digit
  <1>11. QED BY <1>3, <1>4, <1>5, <1>6, <1>7, <1>8, <1>9, <1>10

(* The parities of an entry that a bit of the byte takes part in: one of   *)
(* each pair, told by the number of the bit, and that of the whole byte.   *)
Mask(k) == {6} \cup {2 * m + 1 : m \in BitsOf[k] \cap (0 .. 2)} \cup {2 * m : m \in (0 .. 2) \ BitsOf[k]}

(* One digit of the byte turns those parities that its weight takes part in. *)
LEMMA EntryFlipped ==
  ASSUME NEW n \in Index, NEW m \in Index, NEW w \in {1, 2, 4, 8, 16, 32, 64, 128},
         \A u \in {1, 2, 4, 8, 16, 32, 64, 128} : Digit(m, u) = IF u = w THEN 1 - Digit(n, u) ELSE Digit(n, u)
  PROVE  /\ Digit(Precalc[m + 1], 1) =
                 IF w \in {1, 4, 16, 64} THEN 1 - Digit(Precalc[n + 1], 1) ELSE Digit(Precalc[n + 1], 1)
         /\ Digit(Precalc[m + 1], 2) =
                        IF w \in {2, 8, 32, 128} THEN 1 - Digit(Precalc[n + 1], 2) ELSE Digit(Precalc[n + 1], 2)
         /\ Digit(Precalc[m + 1], 4) =
                        IF w \in {1, 2, 16, 32} THEN 1 - Digit(Precalc[n + 1], 4) ELSE Digit(Precalc[n + 1], 4)
         /\ Digit(Precalc[m + 1], 8) =
                        IF w \in {4, 8, 64, 128} THEN 1 - Digit(Precalc[n + 1], 8) ELSE Digit(Precalc[n + 1], 8)
         /\ Digit(Precalc[m + 1], 16) =
                        IF w \in {1, 2, 4, 8} THEN 1 - Digit(Precalc[n + 1], 16) ELSE Digit(Precalc[n + 1], 16)
         /\ Digit(Precalc[m + 1], 32) =
                        IF w \in {16, 32, 64, 128} THEN 1 - Digit(Precalc[n + 1], 32) ELSE Digit(Precalc[n + 1], 32)
         /\ Digit(Precalc[m + 1], 64) = 1 - Digit(Precalc[n + 1], 64)
  <1> DEFINE p == Precalc[n + 1]
             q == Precalc[m + 1]
  <1>1. /\ Digit(n, 1) \in {0, 1} /\ Digit(n, 2) \in {0, 1} /\ Digit(n, 4) \in {0, 1} /\ Digit(n, 8) \in {0, 1}
        /\ Digit(n, 16) \in {0, 1} /\ Digit(n, 32) \in {0, 1} /\ Digit(n, 64) \in {0, 1} /\ Digit(n, 128) \in {0, 1}
    BY DigitsMakeUp
  <1>2. /\ Digit(m, 1) = IF w = 1 THEN 1 - Digit(n, 1) ELSE Digit(n, 1)
        /\ Digit(m, 2) = IF w = 2 THEN 1 - Digit(n, 2) ELSE Digit(n, 2)
        /\ Digit(m, 4) = IF w = 4 THEN 1 - Digit(n, 4) ELSE Digit(n, 4)
        /\ Digit(m, 8) = IF w = 8 THEN 1 - Digit(n, 8) ELSE Digit(n, 8)
        /\ Digit(m, 16) = IF w = 16 THEN 1 - Digit(n, 16) ELSE Digit(n, 16)
        /\ Digit(m, 32) = IF w = 32 THEN 1 - Digit(n, 32) ELSE Digit(n, 32)
        /\ Digit(m, 64) = IF w = 64 THEN 1 - Digit(n, 64) ELSE Digit(n, 64)
        /\ Digit(m, 128) = IF w = 128 THEN 1 - Digit(n, 128) ELSE Digit(n, 128)
    OBVIOUS
  <1>3. Digit(q, 1) = IF w \in {1, 4, 16, 64} THEN 1 - Digit(p, 1) ELSE Digit(p, 1)
    <2>1. Digit(p, 1) = (Digit(n, 1) + Digit(n, 4) + Digit(n, 16) + Digit(n, 64)) % 2
      BY EntryDigits
    <2>2. Digit(q, 1) = (Digit(m, 1) + Digit(m, 4) + Digit(m, 16) + Digit(m, 64)) % 2
      BY EntryDigits
    <2> HIDE DEF p, q
    <2>3. QED BY <1>1, <1>2, <2>1, <2>2
  <1>4. Digit(q, 2) = IF w \in {2, 8, 32, 128} THEN 1 - Digit(p, 2) ELSE Digit(p, 2)
    <2>1. Digit(p, 2) = (Digit(n, 2) + Digit(n, 8) + Digit(n, 32) + Digit(n, 128)) % 2
      BY EntryDigits
    <2>2. Digit(q, 2) = (Digit(m, 2) + Digit(m, 8) + Digit(m, 32) + Digit(m, 128)) % 2
      BY EntryDigits
    <2> HIDE DEF p, q
    <2>3. QED BY <1>1, <1>2, <2>1, <2>2
  <1>5. Digit(q, 4) = IF w \in {1, 2, 16, 32} THEN 1 - Digit(p, 4) ELSE Digit(p, 4)
    <2>1. Digit(p, 4) = (Digit(n, 1) + Digit(n, 2) + Digit(n, 16) + Digit(n, 32)) % 2
      BY EntryDigits
    <2>2. Digit(q, 4) = (Digit(m, 1) + Digit(m, 2) + Digit(m, 16) + Digit(m, 32)) % 2
      BY EntryDigits
    <2> HIDE DEF p, q
    <2>3. QED BY <1>1, <1>2, <2>1, <2>2
  <1>6. Digit(q, 8) = IF w \in {4, 8, 64, 128} THEN 1 - Digit(p, 8) ELSE Digit(p, 8)
    <2>1. Digit(p, 8) = (Digit(n, 4) + Digit(n, 8) + Digit(n, 64) + Digit(n, 128)) % 2
      BY EntryDigits
    <2>2. Digit(q, 8) = (Digit(m, 4) + Digit(m, 8) + Digit(m, 64) + Digit(m, 128)) % 2
      BY EntryDigits
    <2> HIDE DEF p, q
    <2>3. QED BY <1>1, <1>2, <2>1, <2>2
  <1>7. Digit(q, 16) = IF w \in {1, 2, 4, 8} THEN 1 - Digit(p, 16) ELSE Digit(p, 16)
    <2>1. Digit(p, 16) = (Digit(n, 1) + Digit(n, 2) + Digit(n, 4) + Digit(n, 8)) % 2
      BY EntryDigits
    <2>2. Digit(q, 16) = (Digit(m, 1) + Digit(m, 2) + Digit(m, 4) + Digit(m, 8)) % 2
      BY EntryDigits
    <2> HIDE DEF p, q
    <2>3. QED BY <1>1, <1>2, <2>1, <2>2
  <1>8. Digit(q, 32) = IF w \in {16, 32, 64, 128} THEN 1 - Digit(p, 32) ELSE Digit(p, 32)
    <2>1. Digit(p, 32) = (Digit(n, 16) + Digit(n, 32) + Digit(n, 64) + Digit(n, 128)) % 2
      BY EntryDigits
    <2>2. Digit(q, 32) = (Digit(m, 16) + Digit(m, 32) + Digit(m, 64) + Digit(m, 128)) % 2
      BY EntryDigits
    <2> HIDE DEF p, q
    <2>3. QED BY <1>1, <1>2, <2>1, <2>2
  <1>9. Digit(q, 64) = 1 - Digit(p, 64)
    <2>1. Digit(p, 64) = (Digit(n, 1) + Digit(n, 2) + Digit(n, 4) + Digit(n, 8)
                           + Digit(n, 16) + Digit(n, 32) + Digit(n, 64) + Digit(n, 128)) % 2
      BY EntryDigits
    <2>2. Digit(q, 64) = (Digit(m, 1) + Digit(m, 2) + Digit(m, 4) + Digit(m, 8)
                           + Digit(m, 16) + Digit(m, 32) + Digit(m, 64) + Digit(m, 128)) % 2
      BY EntryDigits
    <2> HIDE DEF p, q
    <2>3. QED BY <1>1, <1>2, <2>1, <2>2
  <1>10. QED BY <1>3, <1>4, <1>5, <1>6, <1>7, <1>8, <1>9

(* The masks, by the weight of the bit. *)
LEMMA MasksAre ==
  ASSUME NEW k \in Bit
  PROVE  /\ Mask(k) \subseteq 0 .. 6
         /\ (0 \in Mask(k)) <=> (Weight[k] \in {1, 4, 16, 64})
         /\ (1 \in Mask(k)) <=> (Weight[k] \in {2, 8, 32, 128})
         /\ (2 \in Mask(k)) <=> (Weight[k] \in {1, 2, 16, 32})
         /\ (3 \in Mask(k)) <=> (Weight[k] \in {4, 8, 64, 128})
         /\ (4 \in Mask(k)) <=> (Weight[k] \in {1, 2, 4, 8})
         /\ (5 \in Mask(k)) <=> (Weight[k] \in {16, 32, 64, 128})
         /\ 6 \in Mask(k)
  <1>1. k \in Index
    BY DEF Bit, Index
  <1>2. /\ (0 \in BitsOf[k]) <=> k \in {1, 3, 5, 7}
        /\ (1 \in BitsOf[k]) <=> k \in {2, 3, 6, 7}
        /\ (2 \in BitsOf[k]) <=> k \in {4, 5, 6, 7}
    <2>1. /\ (0 \in BitsOf[k]) <=> (Digit(k, 1) = 1)
          /\ (1 \in BitsOf[k]) <=> (Digit(k, 2) = 1)
          /\ (2 \in BitsOf[k]) <=> (Digit(k, 4) = 1)
      BY <1>1, BitsAre
    <2>2. /\ (Digit(k, 1) = 1) <=> k \in {1, 3, 5, 7}
          /\ (Digit(k, 2) = 1) <=> k \in {2, 3, 6, 7}
          /\ (Digit(k, 4) = 1) <=> k \in {4, 5, 6, 7}
      BY DEF Bit, Digit
    <2>3. QED BY <2>1, <2>2
  <1>3. /\ Weight[0] = 1 /\ Weight[1] = 2 /\ Weight[2] = 4 /\ Weight[3] = 8
        /\ Weight[4] = 16 /\ Weight[5] = 32 /\ Weight[6] = 64 /\ Weight[7] = 128
    BY WeightValues
  <1>4. k = 0 \/ k = 1 \/ k = 2 \/ k = 3 \/ k = 4 \/ k = 5 \/ k = 6 \/ k = 7
    BY DEF Bit
  <1>5. /\ Mask(k) \subseteq 0 .. 6 /\ 6 \in Mask(k)
        /\ \A b \in 0 .. 2 : (2 * b + 1 \in Mask(k) <=> b \in BitsOf[k]) /\ (2 * b \in Mask(k) <=> b \notin BitsOf[k])
    BY DEF Mask
  <1>6. /\ 1 \in Mask(k) <=> 0 \in BitsOf[k]
        /\ 0 \in Mask(k) <=> 0 \notin BitsOf[k]
        /\ 3 \in Mask(k) <=> 1 \in BitsOf[k]
        /\ 2 \in Mask(k) <=> 1 \notin BitsOf[k]
        /\ 5 \in Mask(k) <=> 2 \in BitsOf[k]
        /\ 4 \in Mask(k) <=> 2 \notin BitsOf[k]
    <2>1. 0 \in 0 .. 2 /\ 1 \in 0 .. 2 /\ 2 \in 0 .. 2
      OBVIOUS
    <2>2. QED BY <1>5, <2>1
  <1>7. QED BY <1>2, <1>3, <1>4, <1>5, <1>6

(* Flipping a bit of the byte changes its entry by the mask of the bit. *)
LEMMA EntryFlip ==
  ASSUME NEW n \in Index, NEW k \in Bit
  PROVE  Entry(Flip(n, k)) = Xor(Entry(n), Mask(k))
  <1> DEFINE m == Flip(n, k)
             w == Weight[k]
             p == Precalc[n + 1]
             q == Precalc[m + 1]
  <1>1. m \in Index /\ \A j \in Bit : (j \in BitsOf[m]) <=> (IF j = k THEN j \notin BitsOf[n] ELSE j \in BitsOf[n])
    BY FlipBits DEF Xor
  <1>2. w \in {1, 2, 4, 8, 16, 32, 64, 128}
    BY WeightsAre
  <1> HIDE DEF m, w
  <1>3. ASSUME NEW u \in {1, 2, 4, 8, 16, 32, 64, 128}
        PROVE  Digit(m, u) = IF u = w THEN 1 - Digit(n, u) ELSE Digit(n, u)
    <2>1. PICK j \in Bit : Weight[j] = u
      BY WeightValues DEF Bit
    <2>2. ((j \in BitsOf[n]) <=> (Digit(n, u) = 1)) /\ ((j \in BitsOf[m]) <=> (Digit(m, u) = 1))
      BY <1>1, <2>1, WeightsAre
    <2>3. (u = w) <=> (j = k)
      BY <2>1, WeightsAre DEF w
    <2>4. Digit(n, u) \in {0, 1} /\ Digit(m, u) \in {0, 1}
      BY <1>1, DigitsMakeUp
    <2>5. QED BY <1>1, <2>2, <2>3, <2>4
  <1>4. /\ Digit(q, 1) = IF w \in {1, 4, 16, 64} THEN 1 - Digit(p, 1) ELSE Digit(p, 1)
        /\ Digit(q, 2) = IF w \in {2, 8, 32, 128} THEN 1 - Digit(p, 2) ELSE Digit(p, 2)
        /\ Digit(q, 4) = IF w \in {1, 2, 16, 32} THEN 1 - Digit(p, 4) ELSE Digit(p, 4)
        /\ Digit(q, 8) = IF w \in {4, 8, 64, 128} THEN 1 - Digit(p, 8) ELSE Digit(p, 8)
        /\ Digit(q, 16) = IF w \in {1, 2, 4, 8} THEN 1 - Digit(p, 16) ELSE Digit(p, 16)
        /\ Digit(q, 32) = IF w \in {16, 32, 64, 128} THEN 1 - Digit(p, 32) ELSE Digit(p, 32)
        /\ Digit(q, 64) = 1 - Digit(p, 64)
    BY <1>1, <1>2, <1>3, EntryFlipped
  <1>5. p \in Index /\ q \in Index /\ Digit(p, 128) = 0 /\ Digit(q, 128) = 0
    BY <1>1, EntryDigits
  <1> HIDE DEF p, q
  <1>6. /\ Digit(p, 1) \in {0, 1} /\ Digit(p, 2) \in {0, 1} /\ Digit(p, 4) \in {0, 1} /\ Digit(p, 8) \in {0, 1}
        /\ Digit(p, 16) \in {0, 1} /\ Digit(p, 32) \in {0, 1} /\ Digit(p, 64) \in {0, 1}
    BY <1>5, DigitsMakeUp
  <1>7. /\ (0 \in BitsOf[q]) <=> (IF 0 \in Mask(k) THEN 0 \notin BitsOf[p] ELSE 0 \in BitsOf[p])
        /\ (1 \in BitsOf[q]) <=> (IF 1 \in Mask(k) THEN 1 \notin BitsOf[p] ELSE 1 \in BitsOf[p])
        /\ (2 \in BitsOf[q]) <=> (IF 2 \in Mask(k) THEN 2 \notin BitsOf[p] ELSE 2 \in BitsOf[p])
        /\ (3 \in BitsOf[q]) <=> (IF 3 \in Mask(k) THEN 3 \notin BitsOf[p] ELSE 3 \in BitsOf[p])
        /\ (4 \in BitsOf[q]) <=> (IF 4 \in Mask(k) THEN 4 \notin BitsOf[p] ELSE 4 \in BitsOf[p])
        /\ (5 \in BitsOf[q]) <=> (IF 5 \in Mask(k) THEN 5 \notin BitsOf[p] ELSE 5 \in BitsOf[p])
        /\ (6 \in BitsOf[q]) <=> (6 \notin BitsOf[p])
        /\ 7 \notin BitsOf[p] /\ 7 \notin BitsOf[q]
    BY <1>4, <1>5, <1>6, BitsAre, MasksAre DEF w
  <1>8. Mask(k) \subseteq 0 .. 6 /\ 6 \in Mask(k) /\ BitsOf[p] \subseteq Bit /\ BitsOf[q] \subseteq Bit
    BY <1>5, BitsAre, MasksAre
  <1>9. \A b \in Bit : b \in BitsOf[q] <=> (IF b \in Mask(k) THEN b \notin BitsOf[p] ELSE b \in BitsOf[p])
    <2>1. \A b \in Bit : b = 0 \/ b = 1 \/ b = 2 \/ b = 3 \/ b = 4 \/ b = 5 \/ b = 6 \/ b = 7
      BY DEF Bit
    <2>2. 7 \notin Mask(k)
      BY <1>8
    <2>3. QED BY <1>7, <1>8, <2>1, <2>2
  <1>10. BitsOf[q] = Xor(BitsOf[p], Mask(k))
    <2>1. Mask(k) \subseteq Bit
      BY <1>8 DEF Bit
    <2>2. QED BY <1>8, <1>9, <2>1 DEF Xor
  <1>11. QED BY <1>10 DEF Entry, p, q, m

(* Parity *)

(* There are finitely many bytes.                                          *)
LEMMA IndexFinite == IsFiniteSet(Index) /\ \A S \in SUBSET Index : IsFiniteSet(S) /\ Cardinality(S) \in Nat
  <1>1. IsFiniteSet(Index)
    <2>1. 0 \in Int /\ 255 \in Int
      OBVIOUS
    <2>2. QED BY <2>1, FS_Interval DEF Index
  <1>2. QED BY <1>1, FS_Subset, FS_CardinalityType

(* One more turns odd into even and even into odd.                         *)
LEMMA OddNext ==
  ASSUME NEW c \in Nat
  PROVE  ((c + 1) % 2 = 1) <=> ~ (c % 2 = 1)
  OBVIOUS

(* A set that gains or loses one element changes its parity.               *)
LEMMA OddFlips ==
  ASSUME NEW S \in SUBSET Index, NEW i \in Index
  PROVE  Odd(Xor(S, {i})) <=> ~ Odd(S)
  <1>1. IsFiniteSet(S) /\ Cardinality(S) \in Nat
    BY IndexFinite
  <1>2. CASE i \in S
    <2>1. Xor(S, {i}) = S \ {i}
      BY <1>2 DEF Xor
    <2>2. Cardinality(S \ {i}) = Cardinality(S) - 1 /\ Cardinality(S \ {i}) \in Nat
      BY <1>1, <1>2, FS_RemoveElement, IndexFinite
    <2>3. Cardinality(S) = Cardinality(S \ {i}) + 1
      BY <1>1, <2>2
    <2>4. (Cardinality(S) % 2 = 1) <=> ~ (Cardinality(S \ {i}) % 2 = 1)
      BY <2>2, <2>3, OddNext
    <2>5. QED BY <2>1, <2>4 DEF Odd
  <1>3. CASE i \notin S
    <2>1. Xor(S, {i}) = S \cup {i}
      BY <1>3 DEF Xor
    <2>2. Cardinality(S \cup {i}) = Cardinality(S) + 1
      BY <1>1, <1>3, FS_AddElement
    <2>3. (Cardinality(S \cup {i}) % 2 = 1) <=> ~ (Cardinality(S) % 2 = 1)
      BY <1>1, <2>2, OddNext
    <2>4. QED BY <2>1, <2>3 DEF Odd
  <1>4. QED BY <1>2, <1>3

(* The registers of eccComputeECC. *)
OddBytes(d) == {j \in Index : 6 \in Entry(d[j])}
Reg1(d) == {k \in 0 .. 5 : Odd({j \in Index : k \in Entry(d[j])})}
Reg3(d) == {k \in Bit : Odd({j \in OddBytes(d) : k \in BitsOf[j]})}
Reg2(d) == {k \in Bit : Odd({j \in OddBytes(d) : k \notin BitsOf[j]})}

(* The ECC in terms of the three registers of eccComputeECC.               *)
LEMMA Registers ==
  ASSUME NEW d \in [Index -> Index]
  PROVE  ComputeECC(d) = << Bit \ Weave(Reg3(d), Reg2(d), 4), Bit \ Weave(Reg3(d), Reg2(d), 0),
                            {k + 2 : k \in (0 .. 5) \ Reg1(d)} \cup {0, 1} >>
  <1> DEFINE column == [j \in Index |-> BitsOf[Precalc[d[j] + 1]]]
             Bytes == {j \in Index : 6 \in column[j]}
             reg1 == XorOver(column) \cap (0 .. 5)
             reg3 == XorOver([j \in Bytes |-> BitsOf[j]])
             reg2 == XorOver([j \in Bytes |-> Bit \ BitsOf[j]])
  <1>1. Bytes = OddBytes(d)
    BY DEF OddBytes, Entry
  <1>2. reg1 = Reg1(d)
    <2>1. \A k : {j \in DOMAIN column : k \in column[j]} = {j \in Index : k \in Entry(d[j])}
      BY DEF Entry
    <2>2. XorOver(column) = {k \in Bit : Odd({j \in Index : k \in Entry(d[j])})}
      BY <2>1 DEF XorOver
    <2>3. QED BY <2>2 DEF Reg1, Bit
  <1>3. reg3 = Reg3(d)
    <2> HIDE DEF Bytes
    <2>1. \A k : {j \in DOMAIN [n \in Bytes |-> BitsOf[n]] : k \in [n \in Bytes |-> BitsOf[n]][j]}
                 = {j \in Bytes : k \in BitsOf[j]}
      OBVIOUS
    <2>2. QED BY <1>1, <2>1 DEF XorOver, Reg3
  <1>4. reg2 = Reg2(d)
    <2> HIDE DEF Bytes
    <2>1. \A k \in Bit : {j \in DOMAIN [n \in Bytes |-> Bit \ BitsOf[n]] : k \in [n \in Bytes |-> Bit \ BitsOf[n]][j]}
                 = {j \in Bytes : k \notin BitsOf[j]}
      OBVIOUS
    <2>2. QED BY <1>1, <2>1 DEF XorOver, Reg2
  <1>5. ComputeECC(d) = << Bit \ Weave(reg3, reg2, 4), Bit \ Weave(reg3, reg2, 0),
                           {k + 2 : k \in (0 .. 5) \ reg1} \cup {0, 1} >>
    BY DEF ComputeECC
  <1> HIDE DEF reg1, reg2, reg3
  <1>6. QED BY <1>2, <1>3, <1>4, <1>5

(* An error is a bit that has flipped: of the data, or of the stored ECC.  *)
FlipAt(d, p) == [d EXCEPT ![p[1]] = Flip(@, p[2])]
DataBit == Index \X Bit
EccBit == (257 .. 259) \X Bit

(* What an error changes in the ECC. *)
Syndrome(p) ==
  IF p \in DataBit
  THEN << Weave(BitsOf[p[1]], Bit \ BitsOf[p[1]], 4), Weave(BitsOf[p[1]], Bit \ BitsOf[p[1]], 0),
          {b + 2 : b \in Mask(p[2]) \ {6}} >>
  ELSE [n \in 1 .. 3 |-> IF p[1] = 256 + n THEN {p[2]} ELSE {}]

(* Every bit is one of a pair. *)
LEMMA Pairs ==
  /\ \A b \in Bit : \E m \in 0 .. 3 : b = 2 * m \/ b = 2 * m + 1
  /\ \A m \in 0 .. 3 : 2 * m \in Bit /\ 2 * m + 1 \in Bit
  BY DEF Bit

(* nandTransResult alternates the bits of the two line registers.          *)
LEMMA WeaveIs ==
  ASSUME NEW r3 \in SUBSET Bit, NEW r2 \in SUBSET Bit, NEW from \in {0, 4}
  PROVE  /\ Weave(r3, r2, from) \subseteq Bit
         /\ \A m \in 0 .. 3 : /\ (2 * m + 1 \in Weave(r3, r2, from)) <=> (m + from \in r3)
                              /\ (2 * m \in Weave(r3, r2, from)) <=> (m + from \in r2)
  <1>1. Weave(r3, r2, from) \subseteq Bit
    BY DEF Weave, Bit
  <1>2. ASSUME NEW m \in 0 .. 3
        PROVE  /\ (2 * m + 1 \in Weave(r3, r2, from)) <=> (m + from \in r3)
               /\ (2 * m \in Weave(r3, r2, from)) <=> (m + from \in r2)
    <2>1. m + from \in from .. from + 3 /\ 2 * (m + from - from) = 2 * m
      OBVIOUS
    <2>2. \A k \in from .. from + 3 : /\ 2 * (k - from) + 1 = 2 * m + 1 => k = m + from
                                      /\ 2 * (k - from) = 2 * m => k = m + from
                                      /\ 2 * (k - from) # 2 * m + 1 /\ 2 * (k - from) + 1 # 2 * m
      OBVIOUS
    <2>3. (2 * m + 1 \in Weave(r3, r2, from)) <=> (m + from \in r3)
      BY <2>1, <2>2 DEF Weave
    <2>4. (2 * m \in Weave(r3, r2, from)) <=> (m + from \in r2)
      BY <2>1, <2>2 DEF Weave
    <2>5. QED BY <2>3, <2>4
  <1>3. QED BY <1>1, <1>2

(* A set that differs by one element of its base. *)
LEMMA OddPicked ==
  ASSUME NEW S \in SUBSET Index, NEW T \in SUBSET Index, NEW i \in Index, NEW turned \in BOOLEAN,
         T = IF turned THEN Xor(S, {i}) ELSE S
  PROVE  Odd(T) <=> (IF turned THEN ~ Odd(S) ELSE Odd(S))
  <1>1. CASE turned
    BY <1>1, OddFlips
  <1>2. CASE ~ turned
    BY <1>2
  <1>3. QED BY <1>1, <1>2

(* A flipped bit changes the registers by its column parities, its byte    *)
(* number and that complemented.                                           *)
LEMMA RegistersFlip ==
  ASSUME NEW d \in [Index -> Index], NEW i \in Index, NEW k \in Bit
  PROVE  /\ FlipAt(d, <<i, k>>) \in [Index -> Index]
         /\ Reg1(FlipAt(d, <<i, k>>)) = Xor(Reg1(d), Mask(k) \ {6})
         /\ Reg3(FlipAt(d, <<i, k>>)) = Xor(Reg3(d), BitsOf[i])
         /\ Reg2(FlipAt(d, <<i, k>>)) = Xor(Reg2(d), Bit \ BitsOf[i])
  <1> DEFINE f == FlipAt(d, <<i, k>>)
  <1>1. /\ f \in [Index -> Index] /\ f[i] = Flip(d[i], k)
        /\ \A j \in Index \ {i} : f[j] = d[j]
    BY FlipBits DEF FlipAt
  <1> HIDE DEF f
  <1>2. Entry(f[i]) = Xor(Entry(d[i]), Mask(k)) /\ \A j \in Index \ {i} : Entry(f[j]) = Entry(d[j])
    BY <1>1, EntryFlip
  <1>3. Mask(k) \subseteq 0 .. 6 /\ 6 \in Mask(k)
    BY MasksAre
  <1>4. OddBytes(f) = Xor(OddBytes(d), {i})
    <2>1. \A j \in Index : (6 \in Entry(f[j])) <=> (IF j = i THEN 6 \notin Entry(d[j]) ELSE 6 \in Entry(d[j]))
      BY <1>2, <1>3 DEF Xor
    <2>2. QED BY <2>1 DEF OddBytes, Xor
  <1>5. BitsOf[i] \subseteq Bit
    BY BitsAre
  <1>6. Reg1(f) = Xor(Reg1(d), Mask(k) \ {6})
    <2>1. ASSUME NEW b \in 0 .. 5
          PROVE  Odd({j \in Index : b \in Entry(f[j])})
                   <=> (IF b \in Mask(k) THEN ~ Odd({j \in Index : b \in Entry(d[j])})
                                         ELSE Odd({j \in Index : b \in Entry(d[j])}))
      <3> DEFINE S == {j \in Index : b \in Entry(d[j])}
                 T == {j \in Index : b \in Entry(f[j])}
                 turned == b \in Mask(k)
      <3>1. T = IF turned THEN Xor(S, {i}) ELSE S
        <4>1. CASE turned
          BY <1>2, <4>1 DEF Xor
        <4>2. CASE ~ turned
          BY <1>2, <4>2 DEF Xor
        <4>3. QED BY <4>1, <4>2
      <3>2. S \in SUBSET Index /\ T \in SUBSET Index /\ turned \in BOOLEAN
        OBVIOUS
      <3> HIDE DEF S, T, turned
      <3>3. Odd(T) <=> (IF turned THEN ~ Odd(S) ELSE Odd(S))
        BY <3>1, <3>2, OddPicked
      <3>4. QED BY <3>3 DEF S, T, turned
    <2>2. \A b \in 0 .. 5 : (b \in Reg1(f)) <=> (IF b \in Mask(k) THEN b \notin Reg1(d) ELSE b \in Reg1(d))
      BY <2>1 DEF Reg1
    <2>3. Reg1(f) \subseteq 0 .. 5 /\ Reg1(d) \subseteq 0 .. 5 /\ Mask(k) \ {6} \subseteq 0 .. 5
      BY <1>3 DEF Reg1
    <2>4. QED BY <2>2, <2>3 DEF Xor
  <1>7. Reg3(f) = Xor(Reg3(d), BitsOf[i])
    <2>1. ASSUME NEW b \in Bit
          PROVE  Odd({j \in OddBytes(f) : b \in BitsOf[j]})
                   <=> (IF b \in BitsOf[i] THEN ~ Odd({j \in OddBytes(d) : b \in BitsOf[j]})
                                           ELSE Odd({j \in OddBytes(d) : b \in BitsOf[j]}))
      <3> DEFINE S == {j \in OddBytes(d) : b \in BitsOf[j]}
                 T == {j \in OddBytes(f) : b \in BitsOf[j]}
                 turned == b \in BitsOf[i]
      <3>1. T = IF turned THEN Xor(S, {i}) ELSE S
        BY <1>4 DEF Xor
      <3>2. S \in SUBSET Index /\ T \in SUBSET Index /\ turned \in BOOLEAN
        BY DEF OddBytes
      <3> HIDE DEF S, T, turned
      <3>3. Odd(T) <=> (IF turned THEN ~ Odd(S) ELSE Odd(S))
        BY <3>1, <3>2, OddPicked
      <3>4. QED BY <3>3 DEF S, T, turned
    <2>2. QED BY <1>5, <2>1 DEF Reg3, Xor
  <1>8. Reg2(f) = Xor(Reg2(d), Bit \ BitsOf[i])
    <2>1. ASSUME NEW b \in Bit
          PROVE  Odd({j \in OddBytes(f) : b \notin BitsOf[j]})
                   <=> (IF b \notin BitsOf[i] THEN ~ Odd({j \in OddBytes(d) : b \notin BitsOf[j]})
                                              ELSE Odd({j \in OddBytes(d) : b \notin BitsOf[j]}))
      <3> DEFINE S == {j \in OddBytes(d) : b \notin BitsOf[j]}
                 T == {j \in OddBytes(f) : b \notin BitsOf[j]}
                 turned == b \notin BitsOf[i]
      <3>1. T = IF turned THEN Xor(S, {i}) ELSE S
        BY <1>4 DEF Xor
      <3>2. S \in SUBSET Index /\ T \in SUBSET Index /\ turned \in BOOLEAN
        BY DEF OddBytes
      <3> HIDE DEF S, T, turned
      <3>3. Odd(T) <=> (IF turned THEN ~ Odd(S) ELSE Odd(S))
        BY <3>1, <3>2, OddPicked
      <3>4. QED BY <3>3 DEF S, T, turned
    <2>2. QED BY <1>5, <2>1 DEF Reg2, Xor
  <1>9. QED BY <1>1, <1>6, <1>7, <1>8 DEF f

(* Exclusive or of sets of bits.                                           *)
LEMMA XorBits ==
  ASSUME NEW S \in SUBSET Bit, NEW T \in SUBSET Bit
  PROVE  Xor(S, T) \in SUBSET Bit /\ Xor(S, {}) = S /\ Xor(S, S) = {} /\ Xor(S, T) = Xor(T, S)
  BY DEF Xor

(* The syndrome of a data bit: one bit of each of the eleven pairs, which  *)
(* spell the number of the byte and of the bit.                            *)
LEMMA DataSyndrome ==
  ASSUME NEW i \in Index, NEW k \in Bit
  PROVE  LET s == Syndrome(<<i, k>>) IN
         /\ s[1] \subseteq Bit /\ s[2] \subseteq Bit /\ s[3] \subseteq Bit
         /\ \A m \in 0 .. 3 : /\ (2 * m + 1 \in s[1]) <=> (m + 4 \in BitsOf[i])
                              /\ (2 * m \in s[1]) <=> (m + 4 \notin BitsOf[i])
                              /\ (2 * m + 1 \in s[2]) <=> (m \in BitsOf[i])
                              /\ (2 * m \in s[2]) <=> (m \notin BitsOf[i])
         /\ \A m \in 0 .. 2 : /\ (2 * m + 3 \in s[3]) <=> (m \in BitsOf[k])
                              /\ (2 * m + 2 \in s[3]) <=> (m \notin BitsOf[k])
         /\ 0 \notin s[3] /\ 1 \notin s[3]
  <1> DEFINE s == Syndrome(<<i, k>>)
             lines == BitsOf[i]
             rest == Bit \ BitsOf[i]
  <1>1. <<i, k>> \in DataBit
    BY DEF DataBit
  <1>2. s[1] = Weave(lines, rest, 4) /\ s[2] = Weave(lines, rest, 0) /\ s[3] = {b + 2 : b \in Mask(k) \ {6}}
    BY <1>1 DEF Syndrome
  <1>3. lines \in SUBSET Bit /\ rest \in SUBSET Bit
    BY BitsAre
  <1>4. \A m \in 0 .. 3 : /\ (m + 4 \in rest) <=> (m + 4 \notin lines)
                          /\ (m + 0 \in rest) <=> (m \notin lines) /\ m + 0 = m
    BY DEF Bit
  <1> HIDE DEF lines, rest
  <1>5. /\ s[1] \subseteq Bit /\ s[2] \subseteq Bit
        /\ \A m \in 0 .. 3 : /\ (2 * m + 1 \in s[1]) <=> (m + 4 \in lines)
                             /\ (2 * m \in s[1]) <=> (m + 4 \notin lines)
                             /\ (2 * m + 1 \in s[2]) <=> (m \in lines)
                             /\ (2 * m \in s[2]) <=> (m \notin lines)
    <2>1. /\ Weave(lines, rest, 4) \subseteq Bit
          /\ \A m \in 0 .. 3 : /\ (2 * m + 1 \in Weave(lines, rest, 4)) <=> (m + 4 \in lines)
                               /\ (2 * m \in Weave(lines, rest, 4)) <=> (m + 4 \in rest)
      BY <1>3, WeaveIs
    <2>2. /\ Weave(lines, rest, 0) \subseteq Bit
          /\ \A m \in 0 .. 3 : /\ (2 * m + 1 \in Weave(lines, rest, 0)) <=> (m + 0 \in lines)
                               /\ (2 * m \in Weave(lines, rest, 0)) <=> (m + 0 \in rest)
      BY <1>3, WeaveIs
    <2>3. QED BY <1>2, <1>4, <2>1, <2>2
  <1>6. /\ s[3] \subseteq Bit /\ 0 \notin s[3] /\ 1 \notin s[3]
        /\ \A m \in 0 .. 2 : /\ (2 * m + 3 \in s[3]) <=> (m \in BitsOf[k])
                             /\ (2 * m + 2 \in s[3]) <=> (m \notin BitsOf[k])
    <2>1. \A b \in Mask(k) \ {6} : b \in 0 .. 5
      BY MasksAre
    <2>2. \A m \in 0 .. 2 : /\ (2 * m + 1 \in Mask(k)) <=> (m \in BitsOf[k])
                            /\ (2 * m \in Mask(k)) <=> (m \notin BitsOf[k])
      BY DEF Mask
    <2>3. \A b : (b + 2 \in s[3] /\ b \in 0 .. 5) <=> (b \in Mask(k) /\ b \in 0 .. 5)
      <3>1. ASSUME NEW b \in 0 .. 5, b + 2 \in s[3] PROVE b \in Mask(k)
        <4>1. PICK c \in Mask(k) \ {6} : b + 2 = c + 2
          BY <1>2, <3>1
        <4>2. b = c
          BY <2>1, <4>1
        <4>3. QED BY <4>1, <4>2
      <3>2. ASSUME NEW b \in 0 .. 5, b \in Mask(k) PROVE b + 2 \in s[3]
        <4>1. b # 6
          OBVIOUS
        <4>2. QED BY <1>2, <3>2, <4>1
      <3>3. QED BY <3>1, <3>2
    <2>4. s[3] \subseteq 2 .. 7
      BY <1>2, <2>1
    <2>5. ASSUME NEW m \in 0 .. 2 PROVE /\ (2 * m + 3 \in s[3]) <=> (m \in BitsOf[k])
                                        /\ (2 * m + 2 \in s[3]) <=> (m \notin BitsOf[k])
      <3>1. 2 * m + 1 \in 0 .. 5 /\ 2 * m \in 0 .. 5 /\ (2 * m + 1) + 2 = 2 * m + 3
        OBVIOUS
      <3>2. QED BY <2>2, <2>3, <3>1
    <2>6. QED BY <2>4, <2>5 DEF Bit
  <1>7. QED BY <1>5, <1>6 DEF lines

(* The codes are bytes. *)
LEMMA CodeTyped ==
  ASSUME NEW d \in [Index -> Index]
  PROVE  ComputeECC(d) \in [1 .. 3 -> SUBSET Bit]
  <1>1. {k + 2 : k \in (0 .. 5) \ Reg1(d)} \cup {0, 1} \subseteq Bit
    BY DEF Bit
  <1>2. QED BY <1>1, Registers

(* What flipping a bit of the data does to its code. *)
LEMMA CodeFlips ==
  ASSUME NEW d \in [Index -> Index], NEW i \in Index, NEW k \in Bit, NEW n \in 1 .. 3
  PROVE  ComputeECC(FlipAt(d, <<i, k>>))[n] = Xor(ComputeECC(d)[n], Syndrome(<<i, k>>)[n])
  <1> DEFINE f == FlipAt(d, <<i, k>>)
             lines == BitsOf[i]
             rest == Bit \ BitsOf[i]
  <1>1. /\ f \in [Index -> Index]
        /\ Reg1(f) = Xor(Reg1(d), Mask(k) \ {6})
        /\ Reg3(f) = Xor(Reg3(d), lines) /\ Reg2(f) = Xor(Reg2(d), rest)
    BY RegistersFlip
  <1>2. /\ Reg3(d) \in SUBSET Bit /\ Reg2(d) \in SUBSET Bit /\ Reg3(f) \in SUBSET Bit /\ Reg2(f) \in SUBSET Bit
        /\ lines \in SUBSET Bit /\ rest \in SUBSET Bit
    BY BitsAre DEF Reg3, Reg2
  <1>3. Syndrome(<<i, k>>) = << Weave(lines, rest, 4), Weave(lines, rest, 0), {b + 2 : b \in Mask(k) \ {6}} >>
    BY DEF Syndrome, DataBit
  <1> HIDE DEF f, lines, rest
  <1>4. /\ ComputeECC(d) = << Bit \ Weave(Reg3(d), Reg2(d), 4), Bit \ Weave(Reg3(d), Reg2(d), 0),
                              {b + 2 : b \in (0 .. 5) \ Reg1(d)} \cup {0, 1} >>
        /\ ComputeECC(f) = << Bit \ Weave(Reg3(f), Reg2(f), 4), Bit \ Weave(Reg3(f), Reg2(f), 0),
                              {b + 2 : b \in (0 .. 5) \ Reg1(f)} \cup {0, 1} >>
    BY <1>1, Registers
  <1>5. ASSUME NEW from \in {0, 4}
        PROVE  Bit \ Weave(Reg3(f), Reg2(f), from)
                 = Xor(Bit \ Weave(Reg3(d), Reg2(d), from), Weave(lines, rest, from))
    <2> DEFINE W == Weave(Reg3(f), Reg2(f), from)
               V == Weave(Reg3(d), Reg2(d), from)
               U == Weave(lines, rest, from)
    <2>1. /\ W \subseteq Bit /\ \A m \in 0 .. 3 : /\ (2 * m + 1 \in W) <=> (m + from \in Reg3(f))
                                                  /\ (2 * m \in W) <=> (m + from \in Reg2(f))
      BY <1>2, WeaveIs
    <2>2. /\ V \subseteq Bit /\ \A m \in 0 .. 3 : /\ (2 * m + 1 \in V) <=> (m + from \in Reg3(d))
                                                  /\ (2 * m \in V) <=> (m + from \in Reg2(d))
      BY <1>2, WeaveIs
    <2>3. /\ U \subseteq Bit /\ \A m \in 0 .. 3 : /\ (2 * m + 1 \in U) <=> (m + from \in lines)
                                                  /\ (2 * m \in U) <=> (m + from \in rest)
      BY <1>2, WeaveIs
    <2> HIDE DEF U, V, W
    <2>4. \A m \in 0 .. 3 : /\ (2 * m + 1 \in W) <=> (2 * m + 1 \in Xor(V, U))
                            /\ (2 * m \in W) <=> (2 * m \in Xor(V, U))
      <3>1. ASSUME NEW m \in 0 .. 3
            PROVE  /\ (2 * m + 1 \in W) <=> (2 * m + 1 \in Xor(V, U))
                   /\ (2 * m \in W) <=> (2 * m \in Xor(V, U))
        <4> DEFINE o == 2 * m + 1
                   e == 2 * m
                   at == m + from
        <4>1. /\ (o \in W <=> at \in Reg3(f)) /\ (e \in W <=> at \in Reg2(f))
              /\ (o \in V <=> at \in Reg3(d)) /\ (e \in V <=> at \in Reg2(d))
              /\ (o \in U <=> at \in lines) /\ (e \in U <=> at \in rest)
          <5>1. (o \in W <=> at \in Reg3(f)) /\ (e \in W <=> at \in Reg2(f))
            BY <2>1, Zenon
          <5>2. (o \in V <=> at \in Reg3(d)) /\ (e \in V <=> at \in Reg2(d))
            BY <2>2, Zenon
          <5>3. (o \in U <=> at \in lines) /\ (e \in U <=> at \in rest)
            BY <2>3, Zenon
          <5>4. QED BY <5>1, <5>2, <5>3
        <4> HIDE DEF o, e, at
        <4>2. (o \in W <=> o \in Xor(V, U)) /\ (e \in W <=> e \in Xor(V, U))
          BY <1>1, <4>1 DEF Xor
        <4>3. QED BY <4>2 DEF o, e
      <3>2. QED BY <3>1
    <2>5. \A b \in Bit : (b \in W) <=> (b \in Xor(V, U))
      BY <2>4, Pairs
    <2>6. Bit \ W = Xor(Bit \ V, U)
      BY <2>1, <2>2, <2>3, <2>5 DEF Xor
    <2>7. QED BY <2>6 DEF U, V, W
  <1>6. {b + 2 : b \in (0 .. 5) \ Reg1(f)} \cup {0, 1}
          = Xor({b + 2 : b \in (0 .. 5) \ Reg1(d)} \cup {0, 1}, {b + 2 : b \in Mask(k) \ {6}})
    <2> DEFINE M == Mask(k) \ {6}
               R == Reg1(d)
               Q == Reg1(f)
    <2>1. M \subseteq 0 .. 5 /\ R \subseteq 0 .. 5 /\ Q = Xor(R, M)
      <3>1. M \subseteq 0 .. 5
        BY MasksAre
      <3>2. R \subseteq 0 .. 5
        BY DEF Reg1
      <3>3. QED BY <1>1, <3>1, <3>2
    <2> HIDE DEF M, R, Q
    <2>2. \A b \in 0 .. 5 : b \in Q <=> (IF b \in M THEN b \notin R ELSE b \in R)
      BY <2>1 DEF Xor
    <2>3. ASSUME NEW A \in SUBSET (0 .. 5), NEW c PROVE (c \in {b + 2 : b \in A}) <=> (c \in 2 .. 7 /\ c - 2 \in A)
      <3>1. ASSUME c \in {b + 2 : b \in A} PROVE c \in 2 .. 7 /\ c - 2 \in A
        <4>1. PICK b \in A : c = b + 2
          BY <3>1
        <4>2. b \in 0 .. 5 /\ c - 2 = b
          BY <4>1
        <4>3. QED BY <4>1, <4>2
      <3>2. ASSUME c \in 2 .. 7, c - 2 \in A PROVE c \in {b + 2 : b \in A}
        <4>1. c = (c - 2) + 2
          BY <3>2
        <4>2. QED BY <3>2, <4>1
      <3>3. QED BY <3>1, <3>2
    <2>4. ASSUME NEW c
          PROVE  (c \in {b + 2 : b \in (0 .. 5) \ Q} \cup {0, 1})
                   <=> (c \in Xor({b + 2 : b \in (0 .. 5) \ R} \cup {0, 1}, {b + 2 : b \in M}))
      <3>1. /\ (c \in {b + 2 : b \in (0 .. 5) \ Q}) <=> (c \in 2 .. 7 /\ c - 2 \in (0 .. 5) \ Q)
            /\ (c \in {b + 2 : b \in (0 .. 5) \ R}) <=> (c \in 2 .. 7 /\ c - 2 \in (0 .. 5) \ R)
            /\ (c \in {b + 2 : b \in M}) <=> (c \in 2 .. 7 /\ c - 2 \in M)
        BY <2>1, <2>3
      <3>2. c \in 2 .. 7 => c - 2 \in 0 .. 5 /\ c \notin {0, 1}
        OBVIOUS
      <3>3. c \in 2 .. 7 => (c - 2 \in Q <=> (IF c - 2 \in M THEN c - 2 \notin R ELSE c - 2 \in R))
        BY <2>2, <3>2
      <3>4. QED BY <3>1, <3>2, <3>3 DEF Xor
    <2>5. {b + 2 : b \in (0 .. 5) \ Q} \cup {0, 1} = Xor({b + 2 : b \in (0 .. 5) \ R} \cup {0, 1}, {b + 2 : b \in M})
      BY <2>4
    <2>6. QED BY <2>5 DEF M, R, Q
  <1>7. /\ ComputeECC(f)[1] = Xor(ComputeECC(d)[1], Syndrome(<<i, k>>)[1])
        /\ ComputeECC(f)[2] = Xor(ComputeECC(d)[2], Syndrome(<<i, k>>)[2])
        /\ ComputeECC(f)[3] = Xor(ComputeECC(d)[3], Syndrome(<<i, k>>)[3])
    <2>1. /\ Bit \ Weave(Reg3(f), Reg2(f), 4) = Xor(Bit \ Weave(Reg3(d), Reg2(d), 4), Weave(lines, rest, 4))
          /\ Bit \ Weave(Reg3(f), Reg2(f), 0) = Xor(Bit \ Weave(Reg3(d), Reg2(d), 0), Weave(lines, rest, 0))
      BY <1>5
    <2>2. /\ ComputeECC(f)[1] = Bit \ Weave(Reg3(f), Reg2(f), 4)
          /\ ComputeECC(d)[1] = Bit \ Weave(Reg3(d), Reg2(d), 4)
          /\ Syndrome(<<i, k>>)[1] = Weave(lines, rest, 4)
      BY <1>3, <1>4
    <2>3. /\ ComputeECC(f)[2] = Bit \ Weave(Reg3(f), Reg2(f), 0)
          /\ ComputeECC(d)[2] = Bit \ Weave(Reg3(d), Reg2(d), 0)
          /\ Syndrome(<<i, k>>)[2] = Weave(lines, rest, 0)
      BY <1>3, <1>4
    <2>4. /\ ComputeECC(f)[3] = {b + 2 : b \in (0 .. 5) \ Reg1(f)} \cup {0, 1}
          /\ ComputeECC(d)[3] = {b + 2 : b \in (0 .. 5) \ Reg1(d)} \cup {0, 1}
          /\ Syndrome(<<i, k>>)[3] = {b + 2 : b \in Mask(k) \ {6}}
      BY <1>3, <1>4
    <2>5. ComputeECC(f)[1] = Xor(ComputeECC(d)[1], Syndrome(<<i, k>>)[1])
      BY <2>1, <2>2, Zenon
    <2>6. ComputeECC(f)[2] = Xor(ComputeECC(d)[2], Syndrome(<<i, k>>)[2])
      BY <2>1, <2>3, Zenon
    <2>7. ComputeECC(f)[3] = Xor(ComputeECC(d)[3], Syndrome(<<i, k>>)[3])
      BY <1>6, <2>4, Zenon
    <2>8. QED BY <2>5, <2>6, <2>7
  <1>8. n = 1 \/ n = 2 \/ n = 3
    OBVIOUS
  <1>9. QED BY <1>7, <1>8 DEF f

(* An erased page reads as protected by an erased code. *)
LEMMA ErasedCode == Erased \in [Index -> Index] /\ ComputeECC(Erased) = <<Bit, Bit, Bit>>
  <1>1. Erased \in [Index -> Index] /\ \A j \in Index : Erased[j] = 255
    BY DEF Erased, Index
  <1>2. Entry(255) = {}
    <2>1. Precalc[255 + 1] = 0
      BY SMTT(30) DEF Precalc
    <2>2. 0 \in Index /\ Digit(0, 1) = 0 /\ Digit(0, 2) = 0 /\ Digit(0, 4) = 0 /\ Digit(0, 8) = 0
          /\ Digit(0, 16) = 0 /\ Digit(0, 32) = 0 /\ Digit(0, 64) = 0 /\ Digit(0, 128) = 0
      BY DEF Index, Digit
    <2>3. \A b \in Bit : b \notin BitsOf[0]
      BY <2>2, BitsAre DEF Bit
    <2>4. BitsOf[0] = {}
      BY <2>2, <2>3, BitsAre
    <2>5. QED BY <2>1, <2>4 DEF Entry
  <1> DEFINE e == Erased
  <1> HIDE DEF e
  <1>3. e \in [Index -> Index] /\ \A j \in Index : Entry(e[j]) = {}
    BY <1>1, <1>2 DEF e
  <1>4. ~ Odd({})
    BY FS_EmptySet DEF Odd
  <1>5. OddBytes(e) = {}
    BY <1>3 DEF OddBytes
  <1>6. Reg1(e) = {}
    <2>1. \A k : {j \in Index : k \in Entry(e[j])} = {}
      BY <1>3
    <2>2. QED BY <1>4, <2>1 DEF Reg1
  <1>7. Reg3(e) = {} /\ Reg2(e) = {}
    <2>1. \A k : {j \in OddBytes(e) : k \in BitsOf[j]} = {} /\ {j \in OddBytes(e) : k \notin BitsOf[j]} = {}
      BY <1>5
    <2>2. QED BY <1>4, <2>1 DEF Reg3, Reg2
  <1>8. Bit \ Weave({}, {}, 4) = Bit /\ Bit \ Weave({}, {}, 0) = Bit
    BY DEF Weave
  <1>9. {k + 2 : k \in (0 .. 5) \ {}} \cup {0, 1} = Bit
    <2>1. \A b \in Bit : b \in {0, 1} \/ (b - 2 \in 0 .. 5 /\ b = (b - 2) + 2)
      BY DEF Bit
    <2>2. \A k \in 0 .. 5 : k + 2 \in Bit
      BY DEF Bit
    <2>3. 0 \in Bit /\ 1 \in Bit
      BY DEF Bit
    <2>4. QED BY <2>1, <2>2, <2>3
  <1>10. ComputeECC(e) = <<Bit, Bit, Bit>>
    BY <1>3, <1>6, <1>7, <1>8, <1>9, Registers
  <1>11. QED BY <1>1, <1>10 DEF e

(* Flipped at the same place twice, the data are as they were. *)
LEMMA FlipAtTwice ==
  ASSUME NEW d \in [Index -> Index], NEW p \in DataBit
  PROVE  /\ FlipAt(d, p) \in [Index -> Index]
         /\ FlipAt(FlipAt(d, p), p) = d
  <1>1. p[1] \in Index /\ p[2] \in Bit
    BY DEF DataBit
  <1>2. FlipAt(d, p) \in [Index -> Index] /\ FlipAt(d, p)[p[1]] = Flip(d[p[1]], p[2])
        /\ \A j \in Index \ {p[1]} : FlipAt(d, p)[j] = d[j]
    BY <1>1, FlipBits DEF FlipAt
  <1> DEFINE f == FlipAt(d, p)
  <1> HIDE DEF f
  <1>3. FlipAt(f, p) \in [Index -> Index] /\ FlipAt(f, p)[p[1]] = Flip(f[p[1]], p[2])
        /\ \A j \in Index \ {p[1]} : FlipAt(f, p)[j] = f[j]
    BY <1>1, <1>2, FlipBits DEF FlipAt, f
  <1>4. Flip(Flip(d[p[1]], p[2]), p[2]) = d[p[1]]
    BY <1>1, FlipTwice
  <1>5. \A j \in Index : FlipAt(f, p)[j] = d[j]
    BY <1>2, <1>3, <1>4 DEF f
  <1>6. FlipAt(f, p) = d
    BY <1>3, <1>5
  <1>7. QED BY <1>2, <1>6 DEF f

(* The byte and the bit that a correction finds. *)
LEMMA AddressIs ==
  ASSUME NEW i \in Index, NEW d1, NEW d2,
         \A m \in 0 .. 3 : (2 * m + 1 \in d1 <=> m + 4 \in BitsOf[i]) /\ (2 * m + 1 \in d2 <=> m \in BitsOf[i])
  PROVE  Address(d1, d2) = i
  <1> DEFINE high == {m \in 0 .. 3 : 2 * m + 1 \in d1}
             low == {m \in 0 .. 3 : 2 * m + 1 \in d2}
  <1>1. BitsOf[i] \subseteq Bit
    BY BitsAre
  <1>2. \A m \in 0 .. 3 : (m \in high <=> m + 4 \in BitsOf[i]) /\ (m \in low <=> m \in BitsOf[i])
    OBVIOUS
  <1>3. high \subseteq 0 .. 3 /\ low \subseteq 0 .. 3
    OBVIOUS
  <1> HIDE DEF high, low
  <1>4. ASSUME NEW b PROVE (b \in {m + 4 : m \in high} \cup low) <=> (b \in BitsOf[i])
    <2>1. CASE b \in 0 .. 3
      <3>1. \A m \in 0 .. 3 : b # m + 4
        BY <2>1
      <3>2. QED BY <1>2, <1>3, <2>1, <3>1
    <2>2. CASE b \in 4 .. 7
      <3>1. b - 4 \in 0 .. 3 /\ b = (b - 4) + 4 /\ b \notin 0 .. 3
        BY <2>2
      <3>2. \A m \in 0 .. 3 : b = m + 4 => m = b - 4
        BY <2>2
      <3>3. QED BY <1>2, <1>3, <3>1, <3>2
    <2>3. CASE b \notin 0 .. 7
      <3>1. \A m \in 0 .. 3 : b # m + 4 /\ b # m
        BY <2>3
      <3>2. QED BY <1>1, <1>3, <2>3, <3>1 DEF Bit
    <2>4. b \in 0 .. 7 => b \in 0 .. 3 \/ b \in 4 .. 7
      OBVIOUS
    <2>5. QED BY <2>1, <2>2, <2>3, <2>4
  <1>5. BitsOf[i] = {m + 4 : m \in high} \cup low
    BY <1>4
  <1>6. \A n \in Index : BitsOf[n] = {m + 4 : m \in high} \cup low => n = i
    BY <1>5, BitsDetermine
  <1>7. Address(d1, d2) = CHOOSE n \in Index : BitsOf[n] = {m + 4 : m \in high} \cup low
    BY DEF Address, high, low
  <1>8. QED BY <1>5, <1>6, <1>7

(* The column parities of a bit spell its number.                          *)
LEMMA BitNumberIs ==
  ASSUME NEW k \in Bit, NEW d3, \A m \in 0 .. 2 : 2 * m + 3 \in d3 <=> m \in BitsOf[k]
  PROVE  BitNumber(d3) = k
  <1>1. \A n \in Bit : n \in Index /\ BitsOf[n] \subseteq 0 .. 2
    <2>1. ASSUME NEW n \in Bit PROVE n \in Index /\ BitsOf[n] \subseteq 0 .. 2
      <3>1. n \in Index /\ Digit(n, 8) = 0 /\ Digit(n, 16) = 0 /\ Digit(n, 32) = 0 /\ Digit(n, 64) = 0 /\ Digit(n, 128) = 0
        BY DEF Bit, Index, Digit
      <3>2. BitsOf[n] \subseteq Bit /\ \A b \in 3 .. 7 : b \notin BitsOf[n]
        BY <3>1, BitsAre
      <3>3. QED BY <3>1, <3>2 DEF Bit
    <2>2. QED BY <2>1
  <1>2. BitsOf[k] = {m \in 0 .. 2 : 2 * m + 3 \in d3}
    BY <1>1
  <1>3. \A n \in Bit : BitsOf[n] = {m \in 0 .. 2 : 2 * m + 3 \in d3} => n = k
    BY <1>1, <1>2, BitsDetermine
  <1>4. QED BY <1>2, <1>3 DEF BitNumber

(* What the stored code and that of the data differ by. *)
Apart(n) == Xor(ComputeECC(data)[n], ecc[n])

(* The data after the one error p, which may also be one of the code. *)
Damaged(p) == IF p \in DataBit THEN FlipAt(original, p) ELSE original

Clean == flips = {} => data = original /\ \A n \in 1 .. 3 : Apart(n) = {}
Single ==
  \A p : flips = {p} => /\ data = Damaged(p)
                        /\ \A n \in 1 .. 3 : Apart(n) = Syndrome(p)[n]
Double ==
  \A p, q : p # q /\ flips = {p, q} =>
    /\ q \in EccBit => data = Damaged(p)
    /\ \A n \in 1 .. 3 : Apart(n) = Xor(Syndrome(p)[n], Syndrome(q)[n])

CodeTypeInv ==
  /\ original \in [Index -> Index] /\ flips \subseteq DataBit \cup EccBit /\ IsFiniteSet(flips)
  /\ status = "stored" => data \in [Index -> Index] /\ ecc \in [1 .. 3 -> SUBSET Bit]
Answered ==
  /\ (flips = {} \/ \E p : flips = {p}) => status = "ok" /\ data = original
  /\ (status = "ok" /\ \E p, q : p # q /\ flips = {p, q}) => data = original
CodeInv == CodeTypeInv /\ (status = "stored" => Clean /\ Single /\ Double) /\ (status # "stored" => Answered)

(* A bit of the ECC is none of the data.                                   *)
LEMMA ErrorsDiffer == \A p : p \in EccBit => p \notin DataBit
  <1>1. ASSUME NEW p, p \in EccBit, p \in DataBit PROVE FALSE
    <2>1. p[1] \in 257 .. 259
      BY <1>1 DEF EccBit
    <2>2. p[1] \in 0 .. 255
      BY <1>1 DEF DataBit, Index
    <2>3. QED BY <2>1, <2>2
  <1>2. QED BY <1>1

(* A syndrome consists of three sets of bits.                              *)
LEMMA SyndromeTyped ==
  ASSUME NEW p \in DataBit \cup EccBit
  PROVE  \A n \in 1 .. 3 : Syndrome(p)[n] \in SUBSET Bit
  <1>1. CASE p \in DataBit
    <2>1. p = <<p[1], p[2]>> /\ p[1] \in Index /\ p[2] \in Bit
      BY <1>1 DEF DataBit
    <2>2. Syndrome(p)[1] \subseteq Bit /\ Syndrome(p)[2] \subseteq Bit /\ Syndrome(p)[3] \subseteq Bit
      BY <2>1, DataSyndrome
    <2>3. QED BY <2>2
  <1>2. CASE p \notin DataBit
    <2>1. p[2] \in Bit
      BY <1>2 DEF EccBit
    <2>2. QED BY <1>2, <2>1 DEF Syndrome
  <1>3. QED BY <1>1, <1>2

(* A flipped bit of the ECC is its own syndrome.                           *)
LEMMA EccSyndrome ==
  ASSUME NEW p \in EccBit
  PROVE  /\ p \notin DataBit /\ p[2] \in Bit
         /\ \A m \in 1 .. 3 : Syndrome(p)[m] = IF p[1] = 256 + m THEN {p[2]} ELSE {}
  <1>1. p \notin DataBit /\ p[2] \in Bit
    BY ErrorsDiffer DEF EccBit
  <1>2. QED BY <1>1 DEF Syndrome

(* One more error adds its syndrome. *)
LEMMA ErrorAdds ==
  ASSUME CodeInv, status = "stored", NEW p \in (DataBit \cup EccBit) \ flips, flips' = flips \cup {p},
         UNCHANGED <<original, status>>, data' \in [Index -> Index], ecc' \in [1 .. 3 -> SUBSET Bit],
         data' = IF p \in DataBit THEN FlipAt(data, p) ELSE data,
         \A n \in 1 .. 3 : Apart(n)' = Xor(Apart(n), Syndrome(p)[n])
  PROVE  CodeInv'
  <1>1. CodeTypeInv'
    <2>1. IsFiniteSet(flips \cup {p})
      BY FS_AddElement DEF CodeInv, CodeTypeInv
    <2>2. QED BY <2>1 DEF CodeInv, CodeTypeInv
  <1>2. Clean'
    BY DEF Clean
  <1>3. Single'
    <2>1. SUFFICES ASSUME NEW r, flips' = {r}
                   PROVE  /\ data' = Damaged(r)'
                          /\ \A n \in 1 .. 3 : Apart(n)' = Syndrome(r)[n]
      BY DEF Single
    <2>2. r = p /\ flips = {}
      BY <2>1
    <2>3. data = original /\ \A n \in 1 .. 3 : Apart(n) = {}
      BY <2>2 DEF CodeInv, Clean
    <2>4. data' = Damaged(r)'
      BY <2>2, <2>3 DEF Damaged
    <2>5. ASSUME NEW n \in 1 .. 3 PROVE Apart(n)' = Syndrome(r)[n]
      <3>1. Apart(n)' = Xor({}, Syndrome(p)[n])
        BY <2>3
      <3>2. QED BY <2>2, <3>1 DEF Xor
    <2>6. QED BY <2>4, <2>5
  <1>4. ASSUME NEW r, flips = {r}, p # r
        PROVE  \A n \in 1 .. 3 : /\ Apart(n)' = Xor(Syndrome(r)[n], Syndrome(p)[n])
                                 /\ Apart(n)' = Xor(Syndrome(p)[n], Syndrome(r)[n])
    <2>1. \A n \in 1 .. 3 : Apart(n) = Syndrome(r)[n]
      BY <1>4 DEF CodeInv, Single
    <2>2. QED BY <2>1 DEF Xor
  <1>5. Double'
    <2>1. SUFFICES ASSUME NEW r, NEW s, r # s, flips' = {r, s}
                   PROVE  /\ s \in EccBit => data' = Damaged(r)'
                          /\ \A n \in 1 .. 3 : Apart(n)' = Xor(Syndrome(r)[n], Syndrome(s)[n])
      BY DEF Double
    <2>2. CASE p = s
      <3>1. flips = {r}
        BY <2>1, <2>2
      <3>2. data = Damaged(r)
        BY <3>1 DEF CodeInv, Single
      <3>3. p \in EccBit => p \notin DataBit
        BY ErrorsDiffer
      <3>4. QED BY <1>4, <2>1, <2>2, <3>1, <3>2, <3>3 DEF Damaged
    <2>3. CASE p = r
      <3>1. flips = {s}
        BY <2>1, <2>3
      <3>2. data = Damaged(s)
        BY <3>1 DEF CodeInv, Single
      <3>3. s \in EccBit => s \notin DataBit
        BY ErrorsDiffer
      <3>4. s \in EccBit => data = original
        BY <3>2, <3>3 DEF Damaged
      <3>5. s \in EccBit => data' = Damaged(r)'
        BY <2>3, <3>4 DEF Damaged
      <3>6. QED BY <1>4, <2>1, <2>3, <3>1, <3>5
    <2>4. p \in {r, s}
      BY <2>1
    <2>5. QED BY <2>2, <2>3, <2>4
  <1>6. QED BY <1>1, <1>2, <1>3, <1>5 DEF CodeInv

(* As it is written, and as it is erased, the data agrees with its ECC.    *)
LEMMA InitCode == Init => CodeInv
  <1>1. SUFFICES ASSUME Init PROVE CodeInv
    OBVIOUS
  <1>2. original \in [Index -> Index] /\ data = original /\ flips = {} /\ status = "stored"
    BY <1>1, ErasedCode, EccAssumption DEF Init
  <1>3. ecc = ComputeECC(data)
    BY <1>1, <1>2, ErasedCode DEF Init
  <1>4. ecc \in [1 .. 3 -> SUBSET Bit]
    BY <1>2, <1>3, CodeTyped
  <1>5. \A n \in 1 .. 3 : Apart(n) = {}
    BY <1>3 DEF Apart, Xor
  <1>6. CodeTypeInv
    BY <1>2, <1>4, FS_EmptySet DEF CodeTypeInv
  <1>7. Clean /\ Single /\ Double
    BY <1>2, <1>5 DEF Clean, Single, Double
  <1>8. QED BY <1>2, <1>6, <1>7 DEF CodeInv

(* A flipped bit of the data adds its syndrome to the difference.          *)
LEMMA DataErrorKept ==
  ASSUME CodeInv, NEW p \in DataBits, FlipData(p)
  PROVE  CodeInv'
  <1>1. p \in DataBit /\ p \notin flips /\ p = <<p[1], p[2]>> /\ p[1] \in Index /\ p[2] \in Bit
    BY EccAssumption DEF DataBits, DataBit
  <1>2. /\ data' = FlipAt(data, p) /\ flips' = flips \cup {p} /\ UNCHANGED <<original, ecc, status>>
        /\ status = "stored"
    BY DEF FlipData, MayFlip, FlipAt
  <1>3. /\ data \in [Index -> Index] /\ ecc \in [1 .. 3 -> SUBSET Bit] /\ data' \in [Index -> Index]
    BY <1>1, <1>2, FlipAtTwice DEF CodeInv, CodeTypeInv
  <1>4. ASSUME NEW n \in 1 .. 3 PROVE Apart(n)' = Xor(Apart(n), Syndrome(p)[n])
    <2>1. ComputeECC(data')[n] = Xor(ComputeECC(data)[n], Syndrome(p)[n])
      BY <1>1, <1>2, <1>3, CodeFlips
    <2>2. Xor(Xor(ComputeECC(data)[n], Syndrome(p)[n]), ecc[n]) = Xor(Xor(ComputeECC(data)[n], ecc[n]), Syndrome(p)[n])
      BY DEF Xor
    <2>3. Apart(n)' = Xor(ComputeECC(data')[n], ecc[n])
      BY <1>2 DEF Apart
    <2>4. QED BY <2>1, <2>2, <2>3 DEF Apart
  <1>5. QED BY <1>1, <1>2, <1>3, <1>4, ErrorAdds

(* So does a flipped bit of the stored ECC.                                *)
LEMMA EccErrorKept ==
  ASSUME CodeInv, NEW n \in 1 .. 3, NEW k \in Bit, FlipEcc(n, k)
  PROVE  CodeInv'
  <1> DEFINE p == <<256 + n, k>>
  <1>1. p \in EccBit /\ p \notin DataBit /\ \A m \in 1 .. 3 : Syndrome(p)[m] = IF m = n THEN {k} ELSE {}
    <2>1. p[1] = 256 + n /\ p[2] = k /\ p \in EccBit
      BY DEF EccBit
    <2> HIDE DEF p
    <2>2. p \notin DataBit /\ \A m \in 1 .. 3 : Syndrome(p)[m] = IF p[1] = 256 + m THEN {p[2]} ELSE {}
      BY <2>1, EccSyndrome
    <2>3. \A m \in 1 .. 3 : (256 + n = 256 + m) <=> (m = n)
      OBVIOUS
    <2>4. QED BY <2>1, <2>2, <2>3
  <1>2. /\ ecc' = [ecc EXCEPT ![n] = Xor(@, {k})] /\ flips' = flips \cup {p} /\ p \notin flips
        /\ UNCHANGED <<original, data, status>> /\ status = "stored"
    BY DEF FlipEcc, MayFlip
  <1> HIDE DEF p
  <1>3. /\ data \in [Index -> Index] /\ ecc \in [1 .. 3 -> SUBSET Bit] /\ data' \in [Index -> Index]
    BY <1>2 DEF CodeInv, CodeTypeInv
  <1>4. /\ ecc'[n] = Xor(ecc[n], {k}) /\ \A m \in (1 .. 3) \ {n} : ecc'[m] = ecc[m]
        /\ ecc' \in [1 .. 3 -> SUBSET Bit]
    <2>1. Xor(ecc[n], {k}) \in SUBSET Bit
      BY <1>3 DEF Xor
    <2>2. QED BY <1>2, <1>3, <2>1
  <1>5. ASSUME NEW m \in 1 .. 3 PROVE Apart(m)' = Xor(Apart(m), Syndrome(p)[m])
    <2>1. Apart(m)' = Xor(ComputeECC(data)[m], ecc'[m])
      BY <1>2 DEF Apart
    <2>2. CASE m = n
      <3>1. Xor(ComputeECC(data)[m], Xor(ecc[m], {k})) = Xor(Xor(ComputeECC(data)[m], ecc[m]), {k})
        BY DEF Xor
      <3>2. QED BY <1>1, <1>4, <2>1, <2>2, <3>1 DEF Apart
    <2>3. CASE m # n
      <3>1. Xor(Apart(m), {}) = Apart(m)
        BY DEF Xor
      <3>2. QED BY <1>1, <1>4, <2>1, <2>3, <3>1 DEF Apart
    <2>4. QED BY <2>2, <2>3
  <1>6. QED BY <1>1, <1>2, <1>3, <1>4, <1>5, ErrorAdds

(* The four outcomes of eccCorrectData, by what the two codes differ by. *)
Outcome(D) ==
  \/ /\ \A n \in 1 .. 3 : D[n] = {}
     /\ status' = "ok" /\ data' = data
  \/ /\ Correctable(D)
     /\ data' = [data EXCEPT ![Address(D[1], D[2])] = Flip(@, BitNumber(D[3]))]
     /\ status' = "ok"
  \/ /\ ~ Correctable(D) /\ EccAtFault(D)
     /\ status' = "ok" /\ data' = data
  \/ /\ \E n \in 1 .. 3 : D[n] # {}
     /\ ~ Correctable(D) /\ ~ EccAtFault(D)
     /\ status' = "fail" /\ data' = data

(* Sets of bits are finite.                                                *)
LEMMA SubsetsFinite ==
  ASSUME NEW S \in SUBSET Bit
  PROVE  IsFiniteSet(S) /\ Cardinality(S) \in Nat /\ (Cardinality(S) = 0 <=> S = {})
         /\ (Cardinality(S) = 1 <=> \E x : S = {x})
  <1>1. IsFiniteSet(Bit)
    <2>1. 0 \in Int /\ 7 \in Int
      OBVIOUS
    <2>2. QED BY <2>1, FS_Interval DEF Bit
  <1>2. IsFiniteSet(S)
    BY <1>1, FS_Subset
  <1>3. QED BY <1>2, FS_CardinalityType, FS_EmptySet, FS_Singleton

(* All eleven pairs take at least eleven bits. *)
LEMMA CorrectableSpread ==
  ASSUME NEW D \in [1 .. 3 -> SUBSET Bit], Correctable(D)
  PROVE  /\ D[1] # {} /\ D[2] # {} /\ D[3] # {}
         /\ \E a, b, c \in D[1] : a # b /\ b # c /\ a # c
         /\ ~ EccAtFault(D)
  <1>1. /\ \A m \in 0 .. 3 : (2 * m \in D[1]) # (2 * m + 1 \in D[1])
        /\ \A m \in 0 .. 3 : (2 * m \in D[2]) # (2 * m + 1 \in D[2])
        /\ \A m \in 1 .. 3 : (2 * m \in D[3]) # (2 * m + 1 \in D[3])
    BY DEF Correctable, OneOfEach
  <1>2. \A n \in 1 .. 3 : \A m \in 1 .. 3 : \E b \in D[n] : b = 2 * m \/ b = 2 * m + 1
    BY <1>1
  <1>3. PICK a \in D[1] : a = 2 * 1 \/ a = 2 * 1 + 1
    BY <1>2
  <1>4. PICK b \in D[1] : b = 2 * 2 \/ b = 2 * 2 + 1
    BY <1>2
  <1>5. PICK c \in D[1] : c = 2 * 3 \/ c = 2 * 3 + 1
    BY <1>2
  <1>6. a # b /\ b # c /\ a # c
    BY <1>3, <1>4, <1>5
  <1>7. D[1] # {} /\ D[2] # {} /\ D[3] # {}
    BY <1>2
  <1>8. ~ EccAtFault(D)
    <2>1. /\ Cardinality(D[1]) \in Nat \ {0} /\ Cardinality(D[2]) \in Nat \ {0} /\ Cardinality(D[3]) \in Nat
      BY <1>7, SubsetsFinite
    <2>2. QED BY <2>1 DEF EccAtFault
  <1>9. QED BY <1>3, <1>4, <1>5, <1>6, <1>7, <1>8

(* A difference that is the syndrome of one data bit: it is found. *)
LEMMA DataBitFound ==
  ASSUME NEW i \in Index, NEW k \in Bit, NEW D \in [1 .. 3 -> SUBSET Bit],
         D[1] = Syndrome(<<i, k>>)[1], D[2] = Syndrome(<<i, k>>)[2],
         \A b \in 2 .. 7 : b \in D[3] <=> b \in Syndrome(<<i, k>>)[3]
  PROVE  Correctable(D) /\ Address(D[1], D[2]) = i /\ BitNumber(D[3]) = k
  <1> DEFINE s == Syndrome(<<i, k>>)
  <1>1. /\ \A m \in 0 .. 3 : /\ (2 * m + 1 \in s[1]) <=> (m + 4 \in BitsOf[i])
                             /\ (2 * m \in s[1]) <=> (m + 4 \notin BitsOf[i])
                             /\ (2 * m + 1 \in s[2]) <=> (m \in BitsOf[i])
                             /\ (2 * m \in s[2]) <=> (m \notin BitsOf[i])
        /\ \A m \in 0 .. 2 : /\ (2 * m + 3 \in s[3]) <=> (m \in BitsOf[k])
                             /\ (2 * m + 2 \in s[3]) <=> (m \notin BitsOf[k])
    BY DataSyndrome
  <1> HIDE DEF s
  <1>2. Address(D[1], D[2]) = i
    BY <1>1, AddressIs DEF s
  <1>3. \A m \in 0 .. 2 : /\ (2 * m + 3 \in D[3]) <=> (m \in BitsOf[k])
                          /\ (2 * m + 2 \in D[3]) <=> (m \notin BitsOf[k])
    <2>1. \A m \in 0 .. 2 : 2 * m + 3 \in 2 .. 7 /\ 2 * m + 2 \in 2 .. 7
      OBVIOUS
    <2>2. QED BY <1>1, <2>1 DEF s
  <1>4. BitNumber(D[3]) = k
    BY <1>3, BitNumberIs
  <1>5. \A m \in 1 .. 3 : (2 * m \in D[3]) # (2 * m + 1 \in D[3])
    <2>1. ASSUME NEW m \in 1 .. 3 PROVE (2 * m \in D[3]) # (2 * m + 1 \in D[3])
      <3>1. PICK l \in 0 .. 2 : l = m - 1 /\ 2 * l + 3 = 2 * m + 1 /\ 2 * l + 2 = 2 * m
        OBVIOUS
      <3>2. QED BY <1>3, <3>1
    <2>2. QED BY <2>1
  <1>6. Correctable(D)
    BY <1>1, <1>5 DEF Correctable, OneOfEach, s
  <1>7. QED BY <1>2, <1>4, <1>6

(* The syndromes of two data bits differ. *)
LEMMA SyndromesDiffer ==
  ASSUME NEW p \in DataBit, NEW q \in DataBit, \A n \in 1 .. 3 : Syndrome(p)[n] = Syndrome(q)[n]
  PROVE  p = q
  <1>1. /\ p = <<p[1], p[2]>> /\ p[1] \in Index /\ p[2] \in Bit
        /\ q = <<q[1], q[2]>> /\ q[1] \in Index /\ q[2] \in Bit
    BY DEF DataBit
  <1> DEFINE D == [n \in 1 .. 3 |-> Syndrome(p)[n]]
  <1>2. D \in [1 .. 3 -> SUBSET Bit]
    BY SyndromeTyped
  <1>3. /\ D[1] = Syndrome(p)[1] /\ D[2] = Syndrome(p)[2] /\ D[3] = Syndrome(p)[3]
        /\ D[1] = Syndrome(q)[1] /\ D[2] = Syndrome(q)[2] /\ D[3] = Syndrome(q)[3]
    OBVIOUS
  <1> HIDE DEF D
  <1>4. ASSUME NEW i \in Index, NEW k \in Bit, D[1] = Syndrome(<<i, k>>)[1], D[2] = Syndrome(<<i, k>>)[2],
               D[3] = Syndrome(<<i, k>>)[3]
        PROVE  Address(D[1], D[2]) = i /\ BitNumber(D[3]) = k
    BY <1>2, <1>4, DataBitFound
  <1>5. Address(D[1], D[2]) = p[1] /\ BitNumber(D[3]) = p[2]
    BY <1>1, <1>3, <1>4
  <1>6. Address(D[1], D[2]) = q[1] /\ BitNumber(D[3]) = q[2]
    BY <1>1, <1>3, <1>4
  <1>7. QED BY <1>1, <1>5, <1>6

(* Nothing has flipped: the data are returned as they are. *)
LEMMA CleanRead ==
  ASSUME NEW D, \A n \in 1 .. 3 : D[n] = {}, Outcome(D)
  PROVE  status' = "ok" /\ data' = data
  <1>1. D[1] = {} /\ D[2] = {} /\ D[3] = {}
    OBVIOUS
  <1>2. ~ Correctable(D)
    <2>1. 0 \in 0 .. 3 /\ 2 * 0 \notin D[1] /\ 2 * 0 + 1 \notin D[1]
      BY <1>1
    <2>2. ~ OneOfEach(D[1], 0 .. 3)
      BY <2>1 DEF OneOfEach
    <2>3. QED BY <2>2 DEF Correctable
  <1>3. ~ EccAtFault(D)
    BY <1>1, FS_EmptySet DEF EccAtFault
  <1>4. QED BY <1>2, <1>3 DEF Outcome

(* One bit of the data has flipped: it is flipped back. *)
LEMMA DataRead ==
  ASSUME NEW p \in DataBit, NEW D \in [1 .. 3 -> SUBSET Bit], original \in [Index -> Index],
         data = FlipAt(original, p), Outcome(D),
         D[1] = Syndrome(p)[1], D[2] = Syndrome(p)[2], \A b \in 2 .. 7 : b \in D[3] <=> b \in Syndrome(p)[3]
  PROVE  status' = "ok" /\ data' = original
  <1>1. p = <<p[1], p[2]>> /\ p[1] \in Index /\ p[2] \in Bit
    BY DEF DataBit
  <1>2. Correctable(D) /\ Address(D[1], D[2]) = p[1] /\ BitNumber(D[3]) = p[2]
    BY <1>1, DataBitFound
  <1>3. ~ \A n \in 1 .. 3 : D[n] = {}
    BY <1>2, CorrectableSpread
  <1>4. status' = "ok" /\ data' = FlipAt(data, p)
    BY <1>2, <1>3 DEF Outcome, FlipAt
  <1>5. QED BY <1>4, FlipAtTwice

(* One bit of the stored code has flipped: the data are returned as they are. *)
LEMMA EccRead ==
  ASSUME NEW p \in EccBit, NEW D \in [1 .. 3 -> SUBSET Bit], Outcome(D),
         \A n \in 1 .. 3 : D[n] = Syndrome(p)[n]
  PROVE  status' = "ok" /\ data' = data
  <1>1. \A m \in 1 .. 3 : D[m] = IF p[1] = 256 + m THEN {p[2]} ELSE {}
    BY EccSyndrome
  <1>2. PICK n \in 1 .. 3 : p[1] = 256 + n /\ \A m \in 1 .. 3 : m # n => p[1] # 256 + m
    BY DEF EccBit
  <1>3. D[n] = {p[2]} /\ \A m \in 1 .. 3 : m # n => D[m] = {}
    BY <1>1, <1>2
  <1>4. ~ Correctable(D)
    BY <1>3, CorrectableSpread
  <1>5. EccAtFault(D)
    <2>1. Cardinality(D[n]) = 1 /\ \A m \in 1 .. 3 : m # n => Cardinality(D[m]) = 0
      BY <1>3, FS_Singleton, FS_EmptySet
    <2>2. \/ Cardinality(D[1]) = 1 /\ Cardinality(D[2]) = 0 /\ Cardinality(D[3]) = 0
          \/ Cardinality(D[1]) = 0 /\ Cardinality(D[2]) = 1 /\ Cardinality(D[3]) = 0
          \/ Cardinality(D[1]) = 0 /\ Cardinality(D[2]) = 0 /\ Cardinality(D[3]) = 1
      BY <2>1
    <2>3. QED BY <2>2 DEF EccAtFault
  <1>6. QED BY <1>4, <1>5 DEF Outcome

(* The syndrome of a bit of the data has one bit of each pair. *)
LEMMA OneOfPairs ==
  ASSUME NEW r \in DataBit
  PROVE  /\ \A m \in 0 .. 3 : (2 * m \in Syndrome(r)[1]) # (2 * m + 1 \in Syndrome(r)[1])
         /\ \A m \in 0 .. 3 : (2 * m \in Syndrome(r)[2]) # (2 * m + 1 \in Syndrome(r)[2])
         /\ \A m \in 1 .. 3 : (2 * m \in Syndrome(r)[3]) # (2 * m + 1 \in Syndrome(r)[3])
         /\ 0 \notin Syndrome(r)[3] /\ 1 \notin Syndrome(r)[3]
  <1>1. r = <<r[1], r[2]>> /\ r[1] \in Index /\ r[2] \in Bit
    BY DEF DataBit
  <1> DEFINE s == Syndrome(r)
  <1>2. /\ \A m \in 0 .. 3 : /\ (2 * m + 1 \in s[1]) <=> (m + 4 \in BitsOf[r[1]])
                             /\ (2 * m \in s[1]) <=> (m + 4 \notin BitsOf[r[1]])
                             /\ (2 * m + 1 \in s[2]) <=> (m \in BitsOf[r[1]])
                             /\ (2 * m \in s[2]) <=> (m \notin BitsOf[r[1]])
        /\ \A m \in 0 .. 2 : /\ (2 * m + 3 \in s[3]) <=> (m \in BitsOf[r[2]])
                             /\ (2 * m + 2 \in s[3]) <=> (m \notin BitsOf[r[2]])
        /\ 0 \notin s[3] /\ 1 \notin s[3]
    BY <1>1, DataSyndrome
  <1> HIDE DEF s
  <1>3. \A m \in 1 .. 3 : (2 * m \in s[3]) # (2 * m + 1 \in s[3])
    <2>1. ASSUME NEW m \in 1 .. 3 PROVE (2 * m \in s[3]) # (2 * m + 1 \in s[3])
      <3>1. PICK l \in 0 .. 2 : l = m - 1 /\ 2 * l + 3 = 2 * m + 1 /\ 2 * l + 2 = 2 * m
        OBVIOUS
      <3>2. QED BY <1>2, <3>1
    <2>2. QED BY <2>1
  <1>4. QED BY <1>2, <1>3 DEF s

(* Two bits of the data have flipped: both or none of each pair. *)
LEMMA TwoDataRead ==
  ASSUME NEW p \in DataBit, NEW q \in DataBit, p # q, NEW D \in [1 .. 3 -> SUBSET Bit], Outcome(D),
         \A n \in 1 .. 3 : D[n] = Xor(Syndrome(p)[n], Syndrome(q)[n])
  PROVE  status' = "fail"
  <1>1. ~ \A n \in 1 .. 3 : D[n] = {}
    <2>1. ASSUME \A n \in 1 .. 3 : D[n] = {} PROVE FALSE
      <3>1. \A n \in 1 .. 3 : Syndrome(p)[n] = Syndrome(q)[n]
        BY <2>1 DEF Xor
      <3>2. QED BY <3>1, SyndromesDiffer
    <2>2. QED BY <2>1
  <1>3. /\ \A m \in 0 .. 3 : (2 * m \in D[1]) <=> (2 * m + 1 \in D[1])
        /\ \A m \in 0 .. 3 : (2 * m \in D[2]) <=> (2 * m + 1 \in D[2])
        /\ \A m \in 1 .. 3 : (2 * m \in D[3]) <=> (2 * m + 1 \in D[3])
        /\ 0 \notin D[3] /\ 1 \notin D[3]
    BY OneOfPairs DEF Xor
  <1>4. ~ Correctable(D)
    <2>1. 0 \in 0 .. 3
      OBVIOUS
    <2>2. ~ OneOfEach(D[1], 0 .. 3)
      BY <1>3, <2>1 DEF OneOfEach
    <2>3. QED BY <2>2 DEF Correctable
  <1>5. \A n \in 1 .. 3 : Cardinality(D[n]) \in Nat \ {1}
    <2>1. ASSUME NEW n \in 1 .. 3, Cardinality(D[n]) = 1 PROVE FALSE
      <3>1. PICK x : D[n] = {x}
        BY <2>1, SubsetsFinite
      <3>2. PICK m \in 0 .. 3 : x = 2 * m \/ x = 2 * m + 1
        BY <3>1, Pairs
      <3>3. n = 3 => m \in 1 .. 3
        BY <1>3, <3>1, <3>2
      <3>4. (2 * m \in D[n]) <=> (2 * m + 1 \in D[n])
        BY <1>3, <3>3
      <3>5. QED BY <3>1, <3>2, <3>4
    <2>2. QED BY <2>1, SubsetsFinite
  <1>6. ~ EccAtFault(D)
    <2>1. Cardinality(D[1]) \in Nat \ {1} /\ Cardinality(D[2]) \in Nat \ {1} /\ Cardinality(D[3]) \in Nat \ {1}
      BY <1>5
    <2>2. QED BY <2>1 DEF EccAtFault
  <1>7. QED BY <1>1, <1>4, <1>6 DEF Outcome

(* A bit of the data and one of the code: found, or too many. *)
LEMMA MixedRead ==
  ASSUME NEW p \in DataBit, NEW q \in EccBit, NEW D \in [1 .. 3 -> SUBSET Bit], Outcome(D),
         original \in [Index -> Index], data = FlipAt(original, p),
         \A n \in 1 .. 3 : D[n] = Xor(Syndrome(p)[n], Syndrome(q)[n])
  PROVE  status' = "ok" => data' = original
  <1>1. PICK n \in 1 .. 3 : q[1] = 256 + n /\ \A m \in 1 .. 3 : m # n => q[1] # 256 + m
    BY DEF EccBit
  <1>2. q[2] \in Bit /\ Syndrome(q)[n] = {q[2]} /\ \A m \in 1 .. 3 : m # n => Syndrome(q)[m] = {}
    <2>1. q[2] \in Bit /\ \A m \in 1 .. 3 : Syndrome(q)[m] = IF q[1] = 256 + m THEN {q[2]} ELSE {}
      BY EccSyndrome
    <2>2. QED BY <1>1, <2>1
  <1>3. /\ D[n] = Xor(Syndrome(p)[n], {q[2]})
        /\ \A m \in 1 .. 3 : m # n => D[m] = Syndrome(p)[m]
    BY <1>2 DEF Xor
  <1>4. CASE n = 3 /\ q[2] \in {0, 1}
    <2>1. D[1] = Syndrome(p)[1] /\ D[2] = Syndrome(p)[2]
      BY <1>3, <1>4
    <2>2. \A b \in 2 .. 7 : b \in D[3] <=> b \in Syndrome(p)[3]
      BY <1>3, <1>4 DEF Xor
    <2>3. QED BY <2>1, <2>2, DataRead
  <1>5. CASE ~ (n = 3 /\ q[2] \in {0, 1})
    <2>1. PICK m \in 0 .. 3 : q[2] = 2 * m \/ q[2] = 2 * m + 1
      BY <1>2, Pairs
    <2>2. n = 3 => m \in 1 .. 3
      BY <1>5, <2>1
    <2>3. (2 * m \in Syndrome(p)[n]) # (2 * m + 1 \in Syndrome(p)[n])
      BY <2>2, OneOfPairs
    <2>4. (2 * m \in D[n]) <=> (2 * m + 1 \in D[n])
      <3>1. 2 * m # 2 * m + 1
        OBVIOUS
      <3>2. QED BY <1>3, <2>1, <2>3, <3>1 DEF Xor
    <2>5. ~ Correctable(D)
      <3>1. /\ n = 1 => ~ OneOfEach(D[1], 0 .. 3)
            /\ n = 2 => ~ OneOfEach(D[2], 0 .. 3)
            /\ n = 3 => ~ OneOfEach(D[3], 1 .. 3)
        BY <2>2, <2>4 DEF OneOfEach
      <3>2. QED BY <3>1 DEF Correctable
    <2>6. \A l \in 1 .. 3 : Syndrome(p)[l] # {}
      <3>1. 1 \in 0 .. 3 /\ 1 \in 1 .. 3
        OBVIOUS
      <3>2. QED BY <3>1, OneOfPairs
    <2>7. \A l \in 1 .. 3 : l # n => D[l] # {}
      BY <1>3, <2>6
    <2>8. ~ EccAtFault(D)
      <3>1. \A l \in 1 .. 3 : Cardinality(D[l]) \in Nat /\ (l # n => Cardinality(D[l]) # 0)
        BY <2>7, SubsetsFinite
      <3>2. /\ Cardinality(D[1]) \in Nat /\ Cardinality(D[2]) \in Nat /\ Cardinality(D[3]) \in Nat
            /\ \/ Cardinality(D[1]) # 0 /\ Cardinality(D[2]) # 0
               \/ Cardinality(D[1]) # 0 /\ Cardinality(D[3]) # 0
               \/ Cardinality(D[2]) # 0 /\ Cardinality(D[3]) # 0
        BY <3>1
      <3>3. QED BY <3>2 DEF EccAtFault
    <2>9. ~ \A l \in 1 .. 3 : D[l] = {}
      BY <2>7
    <2>10. QED BY <2>5, <2>8, <2>9 DEF Outcome
  <1>6. QED BY <1>4, <1>5

(* Two bits of the code: the data are not touched. *)
LEMMA TwoEccRead ==
  ASSUME NEW p \in EccBit, NEW q \in EccBit, NEW D \in [1 .. 3 -> SUBSET Bit], Outcome(D),
         \A n \in 1 .. 3 : D[n] = Xor(Syndrome(p)[n], Syndrome(q)[n])
  PROVE  data' = data
  <1>1. Syndrome(p)[1] \subseteq {p[2]} /\ Syndrome(q)[1] \subseteq {q[2]}
    <2>1. \A r \in EccBit : \A m \in 1 .. 3 : Syndrome(r)[m] = IF r[1] = 256 + m THEN {r[2]} ELSE {}
      BY EccSyndrome
    <2>2. \A r \in EccBit : \A m \in 1 .. 3 : Syndrome(r)[m] \subseteq {r[2]}
      <3>1. ASSUME NEW r \in EccBit, NEW m \in 1 .. 3 PROVE Syndrome(r)[m] \subseteq {r[2]}
        <4>1. Syndrome(r)[m] = IF r[1] = 256 + m THEN {r[2]} ELSE {}
          BY <2>1
        <4>2. CASE r[1] = 256 + m
          BY <4>1, <4>2
        <4>3. CASE r[1] # 256 + m
          BY <4>1, <4>3
        <4>4. QED BY <4>2, <4>3
      <3>2. QED BY <3>1
    <2>3. 1 \in 1 .. 3
      OBVIOUS
    <2>4. QED BY <2>2, <2>3
  <1>2. D[1] \subseteq {p[2], q[2]}
    BY <1>1 DEF Xor
  <1>3. ~ Correctable(D)
    BY <1>2, CorrectableSpread
  <1>4. QED BY <1>3 DEF Outcome

(* A read that keeps its promise. *)
LEMMA ReadKept ==
  ASSUME CodeInv, Read
  PROVE  CodeInv'
  <1> DEFINE D == [n \in 1 .. 3 |-> Apart(n)]
  <1>1. /\ original \in [Index -> Index] /\ data \in [Index -> Index] /\ ecc \in [1 .. 3 -> SUBSET Bit]
        /\ flips \subseteq DataBit \cup EccBit
        /\ Clean /\ Single /\ Double /\ UNCHANGED <<original, flips>>
    BY DEF CodeInv, CodeTypeInv, Read
  <1>2. ComputeECC(data) \in [1 .. 3 -> SUBSET Bit]
    BY <1>1, CodeTyped
  <1>3. D \in [1 .. 3 -> SUBSET Bit]
    BY <1>1, <1>2, XorBits DEF Apart
  <1>4. Outcome(D) /\ ecc' \in {ecc, ComputeECC(data)} /\ status' # "stored"
    BY DEF Read, Outcome, Apart
  <1>5. \A n \in 1 .. 3 : D[n] = Apart(n)
    OBVIOUS
  <1> HIDE DEF D
  <1>6. CodeTypeInv'
    BY <1>1, <1>4 DEF CodeInv, CodeTypeInv
  <1>7. ASSUME NEW p, flips = {p} PROVE status' = "ok" /\ data' = original
    <2>1. data = Damaged(p) /\ \A n \in 1 .. 3 : D[n] = Syndrome(p)[n]
      BY <1>1, <1>5, <1>7 DEF Single
    <2>2. CASE p \in DataBit
      <3>1. data = FlipAt(original, p) /\ D[1] = Syndrome(p)[1] /\ D[2] = Syndrome(p)[2] /\ D[3] = Syndrome(p)[3]
        BY <2>1, <2>2 DEF Damaged
      <3>2. QED BY <1>1, <1>3, <1>4, <2>2, <3>1, DataRead
    <2>3. CASE p \notin DataBit
      <3>1. p \in EccBit /\ data = original
        BY <1>1, <1>7, <2>1, <2>3 DEF Damaged
      <3>2. QED BY <1>3, <1>4, <2>1, <3>1, EccRead
    <2>4. QED BY <2>2, <2>3
  <1>8. ASSUME NEW p, NEW q, p # q, flips = {p, q}, status' = "ok" PROVE data' = original
    <2>1. \A n \in 1 .. 3 : /\ D[n] = Xor(Syndrome(p)[n], Syndrome(q)[n])
                            /\ D[n] = Xor(Syndrome(q)[n], Syndrome(p)[n])
      <3>1. \A n \in 1 .. 3 : D[n] = Xor(Syndrome(p)[n], Syndrome(q)[n])
        BY <1>1, <1>5, <1>8 DEF Double
      <3>2. \A n \in 1 .. 3 : Xor(Syndrome(p)[n], Syndrome(q)[n]) = Xor(Syndrome(q)[n], Syndrome(p)[n])
        BY DEF Xor
      <3>3. QED BY <3>1, <3>2
    <2>2. p \in DataBit \cup EccBit /\ q \in DataBit \cup EccBit
      BY <1>1, <1>8
    <2>3. (q \in EccBit => data = Damaged(p)) /\ (p \in EccBit => data = Damaged(q))
      <3>1. q # p /\ flips = {q, p}
        BY <1>8
      <3>2. QED BY <1>1, <1>8, <3>1 DEF Double
    <2>4. CASE p \in DataBit /\ q \in DataBit
      BY <1>3, <1>4, <1>8, <2>1, <2>4, TwoDataRead
    <2>5. CASE p \in DataBit /\ q \in EccBit
      <3>1. data = FlipAt(original, p)
        BY <2>3, <2>5 DEF Damaged
      <3>2. QED BY <1>1, <1>3, <1>4, <1>8, <2>1, <2>5, <3>1, MixedRead
    <2>6. CASE p \in EccBit /\ q \in DataBit
      <3>1. data = FlipAt(original, q)
        BY <2>3, <2>6 DEF Damaged
      <3>2. QED BY <1>1, <1>3, <1>4, <1>8, <2>1, <2>6, <3>1, MixedRead
    <2>7. CASE p \in EccBit /\ q \in EccBit
      <3>1. data = original
        BY <2>3, <2>7, ErrorsDiffer DEF Damaged
      <3>2. QED BY <1>3, <1>4, <2>1, <2>7, <3>1, TwoEccRead
    <2>8. QED BY <2>2, <2>4, <2>5, <2>6, <2>7
  <1>9. Answered'
    <2>1. (flips = {} \/ \E p : flips = {p}) => status' = "ok" /\ data' = original
      <3>1. flips = {} => status' = "ok" /\ data' = original
        BY <1>1, <1>4, <1>5, CleanRead DEF Clean
      <3>2. QED BY <1>7, <3>1
    <2>2. (status' = "ok" /\ \E p, q : p # q /\ flips = {p, q}) => data' = original
      BY <1>8
    <2>3. QED BY <1>1, <2>1, <2>2 DEF Answered
  <1>10. QED BY <1>4, <1>6, <1>9 DEF CodeInv

(* Every step keeps the difference the sum of the syndromes.               *)
LEMMA CodeKept == CodeInv /\ [Next]_vars => CodeInv'
  <1>1. SUFFICES ASSUME CodeInv, [Next]_vars PROVE CodeInv'
    OBVIOUS
  <1>2. CASE Finished \/ UNCHANGED vars
    <2>1. UNCHANGED vars
      BY <1>2 DEF Finished
    <2>2. Clean' = Clean /\ Single' = Single /\ Double' = Double /\ Answered' = Answered /\ CodeTypeInv' = CodeTypeInv
      BY <2>1 DEF vars, Clean, Single, Double, Answered, CodeTypeInv, Apart, Damaged
    <2>3. QED BY <1>1, <2>1, <2>2 DEF CodeInv, vars
  <1>3. CASE \E p \in DataBits : FlipData(p)
    BY <1>1, <1>3, DataErrorKept
  <1>4. CASE \E n \in 1 .. 3, k \in Bit : FlipEcc(n, k)
    BY <1>1, <1>4, EccErrorKept
  <1>5. CASE Read
    BY <1>1, <1>5, ReadKept
  <1>6. QED BY <1>1, <1>2, <1>3, <1>4, <1>5 DEF Next

(* Sets of at most one and of at most two elements.                        *)
LEMMA SmallSets ==
  ASSUME NEW S, IsFiniteSet(S)
  PROVE  /\ Cardinality(S) <= 1 => S = {} \/ \E p : S = {p}
         /\ Cardinality(S) <= 2 => S = {} \/ (\E p : S = {p}) \/ \E p, q : p # q /\ S = {p, q}
  <1>1. ASSUME NEW T, IsFiniteSet(T), Cardinality(T) <= 1 PROVE T = {} \/ \E p : T = {p}
    <2>1. Cardinality(T) = 0 \/ Cardinality(T) = 1
      BY <1>1, FS_CardinalityType
    <2>2. QED BY <1>1, <2>1, FS_EmptySet, FS_Singleton
  <1>2. ASSUME Cardinality(S) <= 2, S # {} PROVE (\E p : S = {p}) \/ \E p, q : p # q /\ S = {p, q}
    <2>1. PICK p \in S : TRUE
      BY <1>2
    <2>2. IsFiniteSet(S \ {p}) /\ Cardinality(S \ {p}) = Cardinality(S) - 1
      BY <2>1, FS_RemoveElement
    <2>3. Cardinality(S \ {p}) <= 1
      BY <1>2, <2>2, FS_CardinalityType
    <2>4. S \ {p} = {} \/ \E q : S \ {p} = {q}
      BY <1>1, <2>2, <2>3
    <2>5. CASE S \ {p} = {}
      BY <2>1, <2>5
    <2>6. CASE \E q : S \ {p} = {q}
      <3>1. PICK q : S \ {p} = {q}
        BY <2>6
      <3>2. p # q /\ S = {p, q}
        BY <2>1, <3>1
      <3>3. QED BY <3>2
    <2>7. QED BY <2>4, <2>5, <2>6
  <1>3. QED BY <1>1, <1>2

(* The invariant holds in every state.                                     *)
LEMMA AlwaysCode == Spec => []CodeInv
  BY InitCode, CodeKept, PTL DEF Spec

(* For every content of the 256 bytes, an erased page among them, and every *)
(* bit that may flip: the read corrects it (evmc66x_ecc.c, eccCorrectData). *)
THEOREM EverySingleError == Spec => []SingleErrorsCorrected
  <1>1. CodeInv => SingleErrorsCorrected
    <2>1. ASSUME CodeInv, status # "stored", Cardinality(flips) <= 1 PROVE status = "ok" /\ data = original
      <3>1. flips = {} \/ \E p : flips = {p}
        BY <2>1, SmallSets DEF CodeInv, CodeTypeInv
      <3>2. QED BY <2>1, <3>1 DEF CodeInv, Answered
    <2>2. QED BY <2>1 DEF SingleErrorsCorrected
  <1>2. QED BY <1>1, AlwaysCode, PTL

(* For every content and every two bits, of the data or the stored code: a *)
(* read that reports success returns what was written.                     *)
THEOREM NoTwoErrorsForOne == Spec => []NoMiscorrection
  <1>1. CodeInv => NoMiscorrection
    <2>1. ASSUME CodeInv, status = "ok", Cardinality(flips) <= 2 PROVE data = original
      <3>1. flips = {} \/ (\E p : flips = {p}) \/ \E p, q : p # q /\ flips = {p, q}
        BY <2>1, SmallSets DEF CodeInv, CodeTypeInv
      <3>2. QED BY <2>1, <3>1 DEF CodeInv, Answered
    <2>2. QED BY <2>1 DEF NoMiscorrection
  <1>2. QED BY <1>1, AlwaysCode, PTL

==============================================================================
