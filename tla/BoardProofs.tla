----------------------------- MODULE BoardProofs -----------------------------
(***************************************************************************)
(* Proofs about BoardInit and Services for every set of memories, flags,   *)
(* multipliers and number of attempts: no clock is ever taken from a PLL   *)
(* that is not locked, every step keeps the types, a start-up that reports *)
(* success has done all it was asked for, the memory tests find exactly    *)
(* the memories that do not work, characters are written and read in       *)
(* order, and a delay lasts at least what it was asked to last.            *)
(***************************************************************************)
EXTENDS Services, TLAPS, WellFoundedInduction

(* A set of naturals that is not empty has a least member: what stands in for induction below. *)
LEMMA LeastNatural ==
  ASSUME NEW T \in SUBSET Nat, T # {}
  PROVE  \E x \in T : \A y \in T : x <= y
  <1> DEFINE R == OpToRel(<, Nat)
  <1>1. IsWellFoundedOn(R, Nat)
    BY NatLessThanWellFounded
  <1>2. \A x, y \in Nat : y < x => <<y, x>> \in R
    BY DEF OpToRel
  <1> HIDE DEF R
  <1>3. PICK x \in T : \A y \in T : <<y, x>> \notin R
    BY <1>1, WFMin
  <1>4. ASSUME NEW y \in T PROVE x <= y
    <2>1. x \in Nat /\ y \in Nat /\ <<y, x>> \notin R
      BY <1>3
    <2>2. ~ (y < x)
      BY <1>2, <2>1
    <2>3. QED BY <2>1, <2>2
  <1>5. QED BY <1>4

(* Sequences joined end to end keep the type of their elements. *)
LEMMA FlattenTyped ==
  ASSUME NEW S, NEW seqs \in Seq(Seq(S))
  PROVE  FlattenSeq(seqs) \in Seq(S)
  <1> DEFINE L == Len(seqs)
             Val(g, i) == IF i = 1 THEN seqs[i] ELSE g[i - 1] \o seqs[i]
             Has(n) == \E g \in [1 .. n -> Seq(S)] : \A i \in 1 .. n : g[i] = Val(g, i)
             T == {n \in 1 .. L : ~ Has(n)}
  <1>0. L \in Nat /\ seqs \in [1 .. L -> Seq(S)]
    OBVIOUS
  <1>1. CASE L = 0
    BY <1>1 DEF FlattenSeq
  <1>2. CASE L # 0
    <2>1. T = {}
      <3>1. SUFFICES ASSUME T # {} PROVE FALSE
        OBVIOUS
      <3>2. T \in SUBSET Nat
        BY <1>0
      <3> HIDE DEF T
      <3>3. PICK n \in T : \A m \in T : n <= m
        BY <3>1, <3>2, LeastNatural
      <3>4. n \in 1 .. L /\ ~ Has(n)
        BY <3>3 DEF T
      <3>5. CASE n = 1
        <4> DEFINE g == [i \in 1 .. 1 |-> seqs[1]]
        <4>1. g \in [1 .. 1 -> Seq(S)]
          BY <1>0, <1>2
        <4>2. \A i \in 1 .. 1 : g[i] = Val(g, i)
          OBVIOUS
        <4>3. Has(1)
          BY <4>1, <4>2
        <4>4. QED BY <3>4, <3>5, <4>3
      <3>6. CASE n # 1
        <4>1. n - 1 \in 1 .. L /\ n - 1 \notin T /\ n \in Nat
          BY <1>0, <3>3, <3>4, <3>6
        <4>2. PICK g \in [1 .. n - 1 -> Seq(S)] : \A i \in 1 .. n - 1 : g[i] = Val(g, i)
          BY <4>1 DEF T
        <4> DEFINE h == [i \in 1 .. n |-> IF i = n THEN g[n - 1] \o seqs[n] ELSE g[i]]
        <4>3. g[n - 1] \in Seq(S) /\ seqs[n] \in Seq(S)
          BY <1>0, <3>4, <4>1
        <4>4. g[n - 1] \o seqs[n] \in Seq(S)
          BY <4>3
        <4>5. h \in [1 .. n -> Seq(S)]
          BY <4>1, <4>4
        <4>6. ASSUME NEW i \in 1 .. n PROVE h[i] = Val(h, i)
          <5>1. CASE i = n
            <6>1. n \in 1 .. n /\ n - 1 \in 1 .. n /\ n - 1 # n
              BY <3>6, <4>1
            <6>2. h[n] = g[n - 1] \o seqs[n] /\ h[n - 1] = g[n - 1]
              BY <6>1
            <6> HIDE DEF h
            <6>3. QED BY <3>6, <5>1, <6>2
          <5>2. CASE i # n
            <6>1. i \in 1 .. n - 1
              BY <4>1, <5>2
            <6>2. h[i] = g[i] /\ (i # 1 => h[i - 1] = g[i - 1])
              <7>1. i # n /\ (i # 1 => i - 1 \in 1 .. n /\ i - 1 # n)
                BY <4>1, <6>1
              <7>2. QED BY <7>1
            <6>3. g[i] = Val(g, i)
              BY <4>2, <6>1
            <6>4. QED BY <6>2, <6>3
          <5>3. QED BY <5>1, <5>2
        <4>7. Has(n)
          BY <4>5, <4>6
        <4>8. QED BY <3>4, <4>7
      <3>7. QED BY <3>5, <3>6
    <2>2. Has(L)
      <3>1. L \in 1 .. L /\ L \notin T
        <4>1. L \in 1 .. L
          BY <1>0, <1>2
        <4> HIDE DEF T
        <4>2. QED BY <2>1, <4>1
      <3> HIDE DEF Has
      <3>2. QED BY <3>1
    <2>3. PICK g \in [1 .. L -> Seq(S)] : \A i \in 1 .. L : g[i] = Val(g, i)
      BY <2>2
    <2> DEFINE flatten == CHOOSE f : f = [i \in 1 .. L |-> Val(f, i)]
    <2>4. g = [i \in 1 .. L |-> Val(g, i)]
      BY <2>3
    <2>5. flatten = [i \in 1 .. L |-> Val(flatten, i)]
      BY <2>4
    <2>6. FlattenSeq(seqs) = flatten[L]
      BY <1>2 DEF FlattenSeq
    <2>7. \A i \in 1 .. L : flatten[i] = g[i]
      <3> DEFINE U == {n \in 1 .. L : flatten[n] # g[n]}
      <3>1. SUFFICES ASSUME U # {} PROVE FALSE
        OBVIOUS
      <3>2. U \in SUBSET Nat
        BY <1>0
      <3> HIDE DEF U
      <3>3. PICK n \in U : \A m \in U : n <= m
        BY <3>1, <3>2, LeastNatural
      <3>4. n \in 1 .. L /\ flatten[n] # g[n]
        BY <3>3 DEF U
      <3> HIDE DEF flatten
      <3>5. flatten[n] = Val(flatten, n) /\ g[n] = Val(g, n)
        BY <2>3, <2>5, <3>4
      <3>6. n # 1 /\ flatten[n - 1] # g[n - 1]
        BY <3>4, <3>5
      <3>7. n - 1 \in U
        BY <1>0, <3>4, <3>6 DEF U
      <3>8. QED BY <1>0, <3>3, <3>4, <3>7
    <2> HIDE DEF flatten
    <2>8. L \in 1 .. L
      BY <1>0, <1>2
    <2>9. QED BY <2>3, <2>6, <2>7, <2>8
  <1>3. QED BY <1>1, <1>2

(* The last of the words that share a cell with a. *)
LEMMA LastExists ==
  ASSUME NEW chip \in Chip, NEW tested \in SUBSET Cell, NEW a \in tested
  PROVE  /\ LastAt(chip, tested, a) \in tested
         /\ chip.at[LastAt(chip, tested, a)] = chip.at[a]
         /\ \A d \in tested : chip.at[d] = chip.at[a] => d <= LastAt(chip, tested, a)
  <1> DEFINE R == {d \in tested : chip.at[d] = chip.at[a]}
  <1>1. R \in SUBSET Cell /\ a \in R
    OBVIOUS
  <1>2. \E last \in R : \A d \in R : d <= last
    BY <1>1, BoardAssumption
  <1>3. \E b \in tested : /\ chip.at[b] = chip.at[a]
                         /\ \A d \in tested : chip.at[d] = chip.at[a] => d <= b
    BY <1>2
  <1>4. QED BY <1>3 DEF LastAt

(* A cell that gives back a set and its complement has no bits that stick, *)
(* and was written with that set.                                          *)
LEMMA NothingSticks ==
  ASSUME NEW P \in SUBSET Bit, NEW Q \in SUBSET Bit, NEW s0 \in SUBSET Bit, NEW s1 \in SUBSET Bit,
         (Q \ s0) \cup s1 = P, ((Bit \ Q) \ s0) \cup s1 = Bit \ P
  PROVE  s0 = {} /\ s1 = {} /\ Q = P
  <1>1. s1 = {}
    OBVIOUS
  <1>2. s0 = {}
    BY <1>1
  <1>3. QED BY <1>1, <1>2

(* platform_memory_test succeeds exactly on a memory whose words have      *)
(* cells of their own that keep all bits (platform.c:730-771).             *)
THEOREM MemoryTestExact ==
  ASSUME NEW chip \in Chip, NEW tested \in SUBSET Cell
  PROVE  MemoryTest(chip, tested) <=> Healthy(chip, tested)
  <1> DEFINE last(a) == LastAt(chip, tested, a)
             s0(a) == chip.stuck0[chip.at[a]]
             s1(a) == chip.stuck1[chip.at[a]]
  <1>0. /\ \A a \in tested : a \in Cell /\ a \in Nat /\ Pattern[a] \in SUBSET Bit
        /\ \A a \in tested : s0(a) \in SUBSET Bit /\ s1(a) \in SUBSET Bit
    BY BoardAssumption DEF Chip
  <1>1. ASSUME MemoryTest(chip, tested) PROVE Healthy(chip, tested)
    <2>1. ASSUME NEW a \in tested
          PROVE  s0(a) = {} /\ s1(a) = {} /\ last(a) = a
      <3>1. last(a) \in tested
        BY LastExists
      <3>2. (Pattern[last(a)] \ s0(a)) \cup s1(a) = Pattern[a]
        BY <1>1 DEF MemoryTest, ReadsBack, Reading
      <3>3. ((Bit \ Pattern[last(a)]) \ s0(a)) \cup s1(a) = Bit \ Pattern[a]
        <4>1. last(a) \in Cell /\ a \in Cell
          BY <1>0, <3>1
        <4>2. Reading(chip, tested, [c \in Cell |-> Bit \ Pattern[c]], a) = Bit \ Pattern[a]
          BY <1>1, <4>1 DEF MemoryTest, ReadsBack
        <4>3. QED BY <4>1, <4>2 DEF Reading
      <3>4. s0(a) = {} /\ s1(a) = {} /\ Pattern[last(a)] = Pattern[a]
        <4> HIDE DEF last, s0, s1
        <4>1. Pattern[last(a)] \in SUBSET Bit /\ Pattern[a] \in SUBSET Bit
          BY <1>0, <3>1
        <4>2. s0(a) \in SUBSET Bit /\ s1(a) \in SUBSET Bit
          BY <1>0
        <4>3. QED BY <3>2, <3>3, <4>1, <4>2, NothingSticks
      <3>5. QED BY <1>0, <3>1, <3>4, BoardAssumption
    <2>2. ASSUME NEW a \in tested, NEW b \in tested, chip.at[a] = chip.at[b]
          PROVE  a = b
      <3>1. b <= last(a) /\ a <= last(b)
        BY <2>2, LastExists
      <3>2. QED BY <1>0, <2>1, <3>1
    <2>3. QED BY <2>1, <2>2 DEF Healthy
  <1>2. ASSUME Healthy(chip, tested) PROVE MemoryTest(chip, tested)
    <2>1. ASSUME NEW a \in tested PROVE last(a) = a /\ s0(a) = {} /\ s1(a) = {}
      <3>1. last(a) \in tested /\ chip.at[last(a)] = chip.at[a]
        BY LastExists
      <3>2. last(a) = a
        BY <1>2, <3>1 DEF Healthy
      <3>3. s0(a) = {} /\ s1(a) = {}
        BY <1>2 DEF Healthy
      <3>4. QED BY <3>2, <3>3
    <2>2. ReadsBack(chip, tested, Pattern)
      BY <2>1 DEF ReadsBack, Reading
    <2>3. ReadsBack(chip, tested, [a \in Cell |-> Bit \ Pattern[a]])
      BY <1>0, <2>1 DEF ReadsBack, Reading
    <2>4. QED BY <2>2, <2>3 DEF MemoryTest
  <1>3. QED BY <1>1, <1>2

-----------------------------------------------------------------------------
(* The main PLL between EnterBypass and EngagePll, and where nothing but   *)
(* the power-down is under way.                                            *)
Programming == {"values", "go1", "go2", "reset", "release", "engage"}
OutOfPath == {"powerdown", "powerup"} \cup Programming

(* The multiplier, which the arguments give, is left open. *)
MainShape ==
  /\ main = [m |-> main.m, div |-> main.div, post |-> main.post, pllen |-> main.pllen, bypass |-> main.bypass,
             powered |-> main.powered, reset |-> main.reset, locked |-> main.locked]
  /\ {main.pllen, main.bypass, main.powered, main.reset, main.locked} \subseteq BOOLEAN

MainInv ==
  /\ MainShape
  /\ main.powered \/ (main.bypass /\ pc \notin Programming)
  /\ pc \in OutOfPath => ~ main.pllen
  /\ pc = "engage" => ~ main.reset /\ main.locked
  /\ Selected => ~ main.reset /\ main.locked

AuxAt(w) ==
  /\ aux[w].bypass \in BOOLEAN /\ aux[w].reset \in BOOLEAN /\ aux[w].locked \in BOOLEAN
  /\ ~ aux[w].bypass => ~ aux[w].reset /\ aux[w].locked
  /\ pc \in {AuxPath[w][2], AuxPath[w][3], AuxPath[w][4]} => aux[w].bypass
  /\ pc = AuxPath[w][4] => ~ aux[w].reset /\ aux[w].locked
AuxInv == aux \in [{"pa", "ddr"} -> AuxPll] /\ \A w \in {"pa", "ddr"} : AuxAt(w)

ClockInv == MainInv /\ AuxInv

(* Nothing is out of the way of its PLL before the first call. *)
LEMMA InitClock == Init => ClockInv
  <1> SUFFICES ASSUME Init PROVE ClockInv
    OBVIOUS
  <1>0. pc = "idle" /\ main \in BootPll
        /\ aux = [w \in {"pa", "ddr"} |-> [m |-> 0, bypass |-> TRUE, reset |-> FALSE, locked |-> FALSE]]
    BY DEF Init, BoardInitial
  <1>1. MainInv
    BY <1>0, BoardAssumption DEF MainInv, MainShape, MainPll, Selected, OutOfPath, Programming
  <1>2. AuxInv
    <2>1. aux \in [{"pa", "ddr"} -> AuxPll]
      BY <1>0 DEF AuxPll
    <2>2. ASSUME NEW w \in {"pa", "ddr"} PROVE AuxAt(w)
      <3>1. aux[w].bypass = TRUE /\ aux[w].reset = FALSE /\ aux[w].locked = FALSE
        BY <1>0
      <3>2. CASE w = "pa"
        BY <1>0, <3>1, <3>2 DEF AuxAt, AuxPath
      <3>3. CASE w = "ddr"
        BY <1>0, <3>1, <3>3 DEF AuxAt, AuxPath
      <3>4. QED BY <3>2, <3>3
    <2>3. QED BY <2>1, <2>2 DEF AuxInv
  <1>3. QED BY <1>1, <1>2 DEF ClockInv

(* Where a step can lead that leaves the PLLs alone. *)
Between == {"values", "go1", "go2", "reset", "release", "engage", "powerdown", "powerup",
            "paValues", "paRelease", "paEngage", "ddrValues", "ddrRelease", "ddrEngage"}

(* A step that leaves both PLLs alone and enters no switching keeps the clocks safe. *)
LEMMA PllsAlone ==
  ASSUME ClockInv, UNCHANGED <<main, aux>>, pc' = pc \/ pc' \notin Between
  PROVE  ClockInv'
  <1>1. MainInv'
    BY DEF ClockInv, MainInv, MainShape, Selected, OutOfPath, Programming, Between
  <1>2. AuxInv'
    BY DEF ClockInv, AuxInv, AuxAt, AuxPath, Between
  <1>3. QED BY <1>1, <1>2 DEF ClockInv

(* The steps of the main PLL switch its clock safely. *)
LEMMA MainStepClock ==
  ASSUME ClockInv, MainPllStep
  PROVE  ClockInv'
  <1>1. CASE WaitGo \/ GoStuck
    <2>1. aux' = aux /\ main' = main /\ pc \in {"go1", "go2", "readback"}
          /\ pc' \in {"go2", "reset", "pa", "idle"} /\ (pc' \in {"go2", "reset"} => pc \in {"go1", "go2"})
      BY <1>1 DEF WaitGo, GoStuck, Goto, Fail, Return
    <2>2. MainInv'
      BY <2>1 DEF ClockInv, MainInv, MainShape, Selected, OutOfPath, Programming
    <2>3. AuxInv'
      BY <2>1 DEF ClockInv, AuxInv, AuxAt, AuxPath
    <2>4. QED BY <2>2, <2>3 DEF ClockInv
  <1>2. ASSUME aux' = aux, pc' \in OutOfPath \cup {"readback"} PROVE AuxInv'
    BY <1>2 DEF ClockInv, AuxInv, AuxAt, AuxPath, OutOfPath, Programming
  <1>3. CASE EnterBypass
    <2>1. pc = "bypass" /\ aux' = aux /\ main' = [main EXCEPT !.pllen = FALSE]
          /\ pc' = IF main.bypass THEN "powerdown" ELSE "values"
      BY <1>3 DEF EnterBypass, MainStep, Goto, Bypassed
    <2>2. MainInv'
      BY <2>1 DEF ClockInv, MainInv, MainShape, Selected, OutOfPath, Programming
    <2>3. QED BY <1>2, <2>1, <2>2 DEF ClockInv, OutOfPath, Programming
  <1>4. CASE PowerDown
    <2>1. pc = "powerdown" /\ pc' = "powerup" /\ aux' = aux
          /\ main' = [main EXCEPT !.bypass = TRUE, !.powered = FALSE, !.locked = FALSE]
      BY <1>4 DEF PowerDown, MainStep, Goto
    <2>2. MainInv'
      BY <2>1 DEF ClockInv, MainInv, MainShape, Selected, OutOfPath, Programming
    <2>3. QED BY <1>2, <2>1, <2>2 DEF ClockInv, OutOfPath, Programming
  <1>5. CASE PowerUp
    <2>1. pc = "powerup" /\ pc' = "values" /\ aux' = aux /\ main' = [main EXCEPT !.powered = TRUE]
      BY <1>5 DEF PowerUp, MainStep, Goto
    <2>2. MainInv'
      BY <2>1 DEF ClockInv, MainInv, MainShape, Selected, OutOfPath, Programming
    <2>3. QED BY <1>2, <2>1, <2>2 DEF ClockInv, OutOfPath, Programming
  <1>6. CASE SetValues
    <2>1. pc = "values" /\ pc' = "go1" /\ aux' = aux
          /\ \/ main' = main
             \/ /\ WantedM <= PLLM_MAX
                /\ main' = [main EXCEPT !.m = WantedM, !.div = 0, !.post = 1, !.locked = FALSE]
      BY <1>6 DEF SetValues, MainStep, Goto
    <2>2. MainInv'
      BY <2>1 DEF ClockInv, MainInv, MainShape, Selected, OutOfPath, Programming
    <2>3. QED BY <1>2, <2>1, <2>2 DEF ClockInv, OutOfPath, Programming
  <1>7. CASE ResetPll
    <2>1. pc = "reset" /\ pc' = "release" /\ aux' = aux
          /\ main' = [main EXCEPT !.reset = TRUE, !.locked = FALSE]
      BY <1>7 DEF ResetPll, MainStep, Goto
    <2>2. MainInv'
      BY <2>1 DEF ClockInv, MainInv, MainShape, Selected, OutOfPath, Programming
    <2>3. QED BY <1>2, <2>1, <2>2 DEF ClockInv, OutOfPath, Programming
  <1>8. CASE ReleasePll
    <2>1. pc = "release" /\ pc' = "engage" /\ aux' = aux
          /\ main' = [main EXCEPT !.reset = FALSE, !.locked = TRUE]
      BY <1>8 DEF ReleasePll, MainStep, Goto
    <2>2. MainInv'
      BY <2>1 DEF ClockInv, MainInv, MainShape, Selected, OutOfPath, Programming
    <2>3. QED BY <1>2, <2>1, <2>2 DEF ClockInv, OutOfPath, Programming
  <1>9. CASE EngagePll
    <2>1. pc = "engage" /\ pc' = "readback" /\ aux' = aux
          /\ main' = [main EXCEPT !.bypass = FALSE, !.pllen = TRUE]
      BY <1>9 DEF EngagePll, MainStep, Goto
    <2>2. MainInv'
      BY <2>1 DEF ClockInv, MainInv, MainShape, Selected, OutOfPath, Programming
    <2>3. QED BY <1>2, <2>1, <2>2 DEF ClockInv
  <1>10. QED BY <1>1, <1>3, <1>4, <1>5, <1>6, <1>7, <1>8, <1>9 DEF MainPllStep

(* The steps of the auxiliary PLLs switch theirs safely. *)
LEMMA AuxStepClock ==
  ASSUME ClockInv, NEW w \in {"pa", "ddr"}, AuxPllStep(w)
  PROVE  ClockInv'
  <1> DEFINE v == IF w = "pa" THEN "ddr" ELSE "pa"
  <1>0. /\ main' = main
        /\ aux \in [{"pa", "ddr"} -> AuxPll] /\ aux[w] \in AuxPll /\ AuxM[w] \in Nat
        /\ PLLM_PASS \in Nat /\ PLLM_DDR3 \in Nat
    BY BoardAssumption DEF AuxPllStep, AuxRefuse, AuxBypass, AuxValues, AuxRelease, AuxEngage, AuxStep, AuxM,
                           ClockInv, AuxInv
  <1>1. CASE AuxRefuse(w)
    <2>1. pc' = "idle" /\ aux' = aux
      BY <1>1 DEF AuxRefuse, Fail, Return
    <2>2. QED BY <1>0, <2>1, PllsAlone DEF Between
  <1>2. ASSUME NEW value \in AuxPll, aux' = [aux EXCEPT ![w] = value],
               pc' \in {AuxPath[w][2], AuxPath[w][3], AuxPath[w][4], "ddrpll", "ddr", "looped"},
               ~ value.bypass => ~ value.reset /\ value.locked,
               pc' \in {AuxPath[w][2], AuxPath[w][3], AuxPath[w][4]} => value.bypass,
               pc' = AuxPath[w][4] => ~ value.reset /\ value.locked
        PROVE  ClockInv'
    <2>1. MainInv'
      <3>1. pc' \notin OutOfPath
        BY <1>2 DEF AuxPath, OutOfPath, Programming
      <3>2. QED BY <1>0, <3>1 DEF ClockInv, MainInv, MainShape, Selected, OutOfPath, Programming
    <2>2. aux' \in [{"pa", "ddr"} -> AuxPll] /\ aux'[w] = value /\ aux'[v] = aux[v]
      BY <1>0, <1>2
    <2>3. AuxAt(w)'
      BY <1>2, <2>2 DEF AuxAt, AuxPll
    <2>4. AuxAt(v)'
      <3>1. pc' \notin {AuxPath[v][2], AuxPath[v][3], AuxPath[v][4]}
        BY <1>2 DEF AuxPath
      <3>2. AuxAt(v)
        BY DEF ClockInv, AuxInv
      <3>3. QED BY <2>2, <3>1, <3>2 DEF AuxAt
    <2>5. QED BY <2>1, <2>2, <2>3, <2>4 DEF ClockInv, AuxInv
  <1>3. CASE AuxBypass(w)
    <2>1. pc' = AuxPath[w][2] /\ aux' = [aux EXCEPT ![w] = [aux[w] EXCEPT !.bypass = TRUE]]
      BY <1>3 DEF AuxBypass, AuxStep, Goto
    <2>2. [aux[w] EXCEPT !.bypass = TRUE] \in AuxPll
      BY <1>0 DEF AuxPll
    <2>3. AuxPath[w][2] # AuxPath[w][4]
      BY DEF AuxPath
    <2>4. QED BY <1>0, <1>2, <2>1, <2>2, <2>3 DEF AuxPll
  <1>4. CASE AuxValues(w)
    <2> DEFINE value == [aux[w] EXCEPT !.m = AuxM[w], !.reset = TRUE, !.locked = FALSE]
    <2>1. pc = AuxPath[w][2] /\ pc' = AuxPath[w][3] /\ aux' = [aux EXCEPT ![w] = value]
      BY <1>4 DEF AuxValues, AuxStep, Goto
    <2>2. value \in AuxPll /\ value.bypass = aux[w].bypass
      BY <1>0 DEF AuxPll
    <2>3. AuxPath[w][3] # AuxPath[w][4] /\ aux[w].bypass
      BY <2>1 DEF AuxPath, ClockInv, AuxInv, AuxAt
    <2>4. QED BY <1>2, <2>1, <2>2, <2>3
  <1>5. CASE AuxRelease(w)
    <2> DEFINE value == [aux[w] EXCEPT !.reset = FALSE, !.locked = TRUE]
    <2>1. pc = AuxPath[w][3] /\ pc' = AuxPath[w][4] /\ aux' = [aux EXCEPT ![w] = value]
      BY <1>5 DEF AuxRelease, AuxStep, Goto
    <2>2. value \in AuxPll /\ value.bypass = aux[w].bypass /\ value.reset = FALSE /\ value.locked = TRUE
      BY <1>0 DEF AuxPll
    <2>3. aux[w].bypass
      BY <2>1 DEF ClockInv, AuxInv, AuxAt
    <2>4. QED BY <1>2, <2>1, <2>2, <2>3
  <1>6. CASE AuxEngage(w)
    <2> DEFINE value == [aux[w] EXCEPT !.bypass = FALSE]
    <2>1. pc = AuxPath[w][4] /\ pc' = AfterAux(w) /\ aux' = [aux EXCEPT ![w] = value]
      BY <1>6 DEF AuxEngage, AuxStep, Goto
    <2>2. value \in AuxPll /\ value.reset = aux[w].reset /\ value.locked = aux[w].locked
      BY <1>0 DEF AuxPll
    <2>3. ~ aux[w].reset /\ aux[w].locked
      BY <2>1 DEF ClockInv, AuxInv, AuxAt
    <2>4. pc' \in {"ddrpll", "ddr", "looped"} /\ pc' \notin {AuxPath[w][2], AuxPath[w][3], AuxPath[w][4]}
      BY <2>1 DEF AfterAux, AuxPath
    <2>5. QED BY <1>2, <2>1, <2>2, <2>3, <2>4
  <1>7. QED BY <1>1, <1>3, <1>4, <1>5, <1>6 DEF AuxPllStep

(* All other steps leave the PLLs alone. *)
LEMMA RestOfBoardClock ==
  ASSUME ClockInv,
         \/ InitDdr \/ LoopDone \/ TryAgain \/ GiveUp \/ SaveFrequency
         \/ (\E d \in Domain : StartDomain(d) \/ DomainDone(d)) \/ EnableEdc
         \/ ConfigSerdes \/ SerdesLocked \/ SoftReset \/ ConfigureSgmii \/ LinkIsUp \/ Negotiated \/ Hardware
  PROVE  ClockInv'
  <1>1. CASE InitDdr \/ LoopDone \/ GiveUp \/ SaveFrequency \/ EnableEdc
    BY <1>1, PllsAlone DEF InitDdr, LoopDone, GiveUp, SaveFrequency, EnableEdc, Goto, Return, Between
  <1>2. CASE TryAgain
    BY <1>2, PllsAlone DEF TryAgain, FirstStep, Between
  <1>3. ASSUME NEW d \in Domain, StartDomain(d) \/ DomainDone(d) PROVE ClockInv'
    BY <1>3, PllsAlone DEF StartDomain, DomainDone, Goto, Between
  <1>4. CASE ConfigSerdes \/ SerdesLocked \/ SoftReset \/ ConfigureSgmii \/ LinkIsUp \/ Negotiated
    BY <1>4, PllsAlone DEF ConfigSerdes, SerdesLocked, SoftReset, ConfigureSgmii, LinkIsUp, Negotiated,
                           SgmiiStep, Goto, Return, board, Between
  <1>5. CASE Hardware
    BY <1>5, PllsAlone DEF Hardware
  <1>6. QED BY <1>1, <1>2, <1>3, <1>4, <1>5

(* No service touches a PLL. *)
LEMMA ServicesClock ==
  ASSUME ClockInv,
         \/ CallInit \/ GetInfo \/ (\E us \in Usecs : Delay(us)) \/ Spin \/ DelayReturns
         \/ UartStep \/ WriteStep \/ TestStep
  PROVE  ClockInv'
  <1>1. CASE CallInit
    BY <1>1, PllsAlone DEF CallInit, Refuse, Start, FirstStep, Between
  <1>2. CASE GetInfo
    BY <1>2, PllsAlone DEF GetInfo, AtOnce, Call
  <1>3. CASE (\E us \in Usecs : Delay(us)) \/ Spin \/ DelayReturns
    BY <1>3, PllsAlone DEF Delay, Spin, DelayReturns, still, Call, Become, Done, Between
  <1>4. CASE UartStep
    BY <1>4, PllsAlone DEF UartStep, UartInit, SetBaudrate, Arrive, UartReadNowhere, UartRead, UartReady,
                           UartNotReady, UartDelayOver, UartTimeout, still, AtOnce, Call, Become, Done, Between
  <1>5. CASE WriteStep
    BY <1>5, PllsAlone DEF WriteStep, Configure, WriteTooLong, Write, UartWrite, WriteData, WriteReturns, Transmit,
                           still, AtOnce, Call, Become, Done, Between
  <1>6. CASE TestStep
    BY <1>6, PllsAlone DEF TestStep, ExternalTest, InternalRefused, InternalTest, TestL1, InternalReturns,
                           still, AtOnce, Call, Become, Done, Between
  <1>7. QED BY <1>1, <1>2, <1>3, <1>4, <1>5, <1>6

(* Every step keeps the clocks safe. *)
LEMMA NextClock == ClockInv /\ [Next]_vars => ClockInv'
  <1> SUFFICES ASSUME ClockInv, [Next]_vars PROVE ClockInv'
    OBVIOUS
  <1>1. CASE InitStep
    BY <1>1, MainStepClock, AuxStepClock, RestOfBoardClock DEF InitStep, BoardStep
  <1>2. CASE UNCHANGED vars
    BY <1>2, PllsAlone DEF vars, boardvars
  <1>3. QED BY <1>1, <1>2, ServicesClock DEF Next

(* Nothing is ever clocked by a PLL that is powered down, in reset or not  *)
(* locked, on any path of platform_init, through any number of attempts    *)
(* and calls, and for any multiplier (evmc6670.c:110-276, 310-575).        *)
THEOREM ClocksAreSafe == Spec => []ClocksSwitchSafely
  <1>1. Spec => []ClockInv
    BY InitClock, NextClock, PTL DEF Spec
  <1>2. ClockInv => ClocksSwitchSafely
    BY DEF ClockInv, MainInv, AuxInv, AuxAt, ClocksSwitchSafely, Selected
  <1>3. QED BY <1>1, <1>2, PTL

(* Where a call can be. *)
PaPlaces == {"pa", "paValues", "paRelease", "paEngage"}
DdrPlaces == {"ddrpll", "ddrValues", "ddrRelease", "ddrEngage"}
Attempt == {"bypass", "readback", "ddr", "looped"} \cup OutOfPath \cup PaPlaces \cup DdrPlaces
PhyPlaces == {"serdes", "lock0", "lock1", "softreset", "configure", "link", "negotiate"}
Settled == {"frequency", "alwayson", "alwaysonWait", "pass", "passWait", "edc"} \cup PhyPlaces
StartUp == Attempt \cup Settled
Places == StartUp \cup {"idle", "delay", "uartread", "uartDelay", "uartTimeout", "write", "l1p", "l1d", "restore"}

Error == {"none", "INVALID_ARGUMENT", "PLL_SETUP", "GENERIC", "READTO", "address"}
Sgmii == [reset : BOOLEAN, link : BOOLEAN, neg : {"off", "pending", "complete", "error"}]

CallTyped ==
  /\ pc \in Places
  /\ loop_count \in 0 .. INIT_TRIES /\ dnum \in {0, 1}
  /\ pc \in Attempt => loop_count < INIT_TRIES
  /\ args \in Arguments \cup {NoArguments}
  /\ pc \in StartUp => args \in Arguments \ {NoArguments} /\ result = "none"
  /\ result \in {"none", "EOK", "EFAIL"}
  /\ result = "EOK" => args \in Arguments \ {NoArguments}
  /\ platform_init_return_code \in 0 .. INIT_TRIES
HardTyped ==
  /\ main \in MainPll
  /\ ddr \in Chip /\ mapped \in BOOLEAN
  /\ domain \in [Domain -> {"off", "turning", "on"}] /\ edc \in BOOLEAN
  /\ serdes \subseteq {0, 1} /\ sgmii \in Sgmii
FrequencyTyped ==
  /\ frequency \in 0 .. WORD - 1 /\ current \in BOOLEAN
  /\ current => frequency = Measured
  /\ platform_errno \in Error

BoardTyped == CallTyped /\ HardTyped /\ FrequencyTyped

-----------------------------------------------------------------------------
(* Cutting off a fraction keeps the order. *)
LEMMA DivMonotone ==
  ASSUME NEW n \in Nat \ {0}, NEW a \in Nat, NEW b \in Nat, a <= b
  PROVE  a \div n \in 0 .. b \div n
  <1>1. PICK q \in Nat : q = a \div n
    OBVIOUS
  <1>2. PICK p \in Nat : p = b \div n
    OBVIOUS
  <1>3. n * q <= a
    BY <1>1
  <1>4. b < n * p + n
    BY <1>2
  <1>5. q <= p
    <2> SUFFICES ASSUME p + 1 <= q PROVE FALSE
      BY <1>1, <1>2
    <2>1. (q - p - 1) * n \in Nat
      BY <1>1, <1>2
    <2>2. n * q = (q - p - 1) * n + (n * p + n)
      BY <1>1, <1>2
    <2>3. n * q \in Nat /\ n * p + n \in Nat
      BY <1>1, <1>2
    <2>4. QED BY <1>3, <1>4, <2>1, <2>2, <2>3
  <1>6. QED BY <1>1, <1>2, <1>5

(* What platform_get_frequency computes fits into a word, and is the rate  *)
(* of the core where it understands the PLL.                               *)
LEMMA MeasuredFits ==
  ASSUME NEW m \in Nat
  PROVE  ((((m % PLLM_LOW) + 1) \div 2) * BASE_CLK) \div CLK_UNIT \in 0 .. WORD - 1
  <1> DEFINE k == ((m % PLLM_LOW) + 1) \div 2
             h == PLLM_LOW \div 2
  <1>1. k \in Nat /\ h \in Nat /\ k <= h
    <2>1. PLLM_LOW \in Nat \ {0} /\ m % PLLM_LOW \in 0 .. PLLM_LOW - 1
      BY BoardAssumption
    <2>2. QED BY <2>1
  <1>2. BASE_CLK \in Nat /\ WORD \in Nat /\ CLK_UNIT \in Nat \ {0} /\ (h * BASE_CLK) \div CLK_UNIT < WORD
    BY BoardAssumption
  <1> HIDE DEF k, h
  <1>3. k * BASE_CLK \in Nat /\ h * BASE_CLK \in Nat
    BY <1>1, <1>2
  <1>4. (h - k) * BASE_CLK \in Nat
    BY <1>1, <1>2
  <1>5. h * BASE_CLK = (h - k) * BASE_CLK + k * BASE_CLK
    BY <1>1, <1>2
  <1>6. k * BASE_CLK <= h * BASE_CLK
    BY <1>3, <1>4, <1>5
  <1>7. \A a, b \in Nat : a <= b => a \div CLK_UNIT \in 0 .. b \div CLK_UNIT
    BY <1>2, DivMonotone
  <1>8. (k * BASE_CLK) \div CLK_UNIT \in 0 .. WORD - 1
    <2>1. (k * BASE_CLK) \div CLK_UNIT \in 0 .. (h * BASE_CLK) \div CLK_UNIT
      BY <1>3, <1>6, <1>7
    <2>2. (h * BASE_CLK) \div CLK_UNIT \in Nat
      BY <1>2, <1>3
    <2>3. QED BY <1>2, <2>1, <2>2
  <1>9. QED BY <1>8 DEF k

(* With an output divider of two, the multiplier the low bits tell is the one that runs. *)
LEMMA UnderstoodIsTrue ==
  ASSUME NEW m \in Nat, m + 1 <= PLLM_LOW, (m + 1) % 2 = 0
  PROVE  (((m % PLLM_LOW) + 1) \div 2) * BASE_CLK = ((m + 1) * BASE_CLK) \div ((0 + 1) * (1 + 1))
  <1>1. PLLM_LOW \in Nat \ {0} /\ BASE_CLK \in Nat
    BY BoardAssumption
  <1>2. m % PLLM_LOW = m
    BY <1>1
  <1>3. PICK k \in Nat : m + 1 = 2 * k
    <2>1. m + 1 = 2 * ((m + 1) \div 2)
      OBVIOUS
    <2>2. QED BY <2>1
  <1>4. (m + 1) \div 2 = k
    BY <1>3
  <1>5. (m + 1) * BASE_CLK = 2 * (k * BASE_CLK)
    BY <1>1, <1>3
  <1>6. (2 * (k * BASE_CLK)) \div 2 = k * BASE_CLK
    <2>1. k * BASE_CLK \in Nat
      BY <1>1
    <2>2. \A n \in Nat : (2 * n) \div 2 = n
      OBVIOUS
    <2>3. QED BY <2>1, <2>2
  <1>7. (0 + 1) * (1 + 1) = 2
    OBVIOUS
  <1>8. QED BY <1>2, <1>4, <1>5, <1>6, <1>7

(* platform_get_frequency stays within its word. *)
LEMMA MeasuredTyped == main \in MainPll => Measured \in 0 .. WORD - 1
  <1> SUFFICES ASSUME main \in MainPll PROVE Measured \in 0 .. WORD - 1
    OBVIOUS
  <1>1. main.m \in Nat
    BY DEF MainPll
  <1>2. QED BY <1>1, MeasuredFits DEF Measured

(* What platform_get_frequency computes is the clock in whole MHz, when it understands the PLL. *)
LEMMA MeasuredIsTrue ==
  ASSUME main \in MainPll, Selected, Understood, main.div = 0, main.post = 1
  PROVE  Measured = TrueClock \div CLK_UNIT
  <1>1. main.m \in Nat /\ main.m + 1 <= PLLM_LOW /\ (main.m + 1) % 2 = 0
    BY DEF MainPll, Understood
  <1>2. TrueClock = ((main.m + 1) * BASE_CLK) \div ((0 + 1) * (1 + 1))
    BY DEF TrueClock
  <1>3. QED BY <1>1, <1>2, UnderstoodIsTrue DEF Measured

(* The multiplier a call wants is a natural number. *)
LEMMA WantedTyped == args \in Arguments \ {NoArguments} => WantedM \in Nat
  BY BoardAssumption DEF WantedM

(* Start-up begins in the part that can be tried again. *)
LEMMA FirstPlace == \A f : FirstStep(f) \in Attempt
  BY DEF FirstStep, Attempt

(* A call goes on, ends, or is none. *)
LEMMA CallMoves ==
  ASSUME CallTyped, UNCHANGED <<local, result, platform_init_return_code>>,
         \/ pc' = pc
         \/ pc \in Attempt /\ pc' \in Attempt \cup {"frequency"}
         \/ pc \in Settled /\ pc' \in Settled
         \/ pc' \in Places \ StartUp
  PROVE  CallTyped'
  <1>1. (pc' \in Attempt => pc' = pc \/ pc \in Attempt) /\ (pc' \in StartUp => pc \in StartUp) /\ pc' \in Places
    BY DEF CallTyped, Places, StartUp, Attempt, Settled, OutOfPath, Programming, PaPlaces, DdrPlaces, PhyPlaces
  <1>2. UNCHANGED <<args, loop_count, dnum, result, platform_init_return_code>>
    BY DEF local
  <1>3. QED BY <1>1, <1>2 DEF CallTyped

(* A start-up that returns leaves a typed call. *)
LEMMA CallEnds ==
  ASSUME CallTyped, UNCHANGED <<local, platform_init_return_code>>, pc \in StartUp, pc' = "idle",
         result' \in {"EOK", "EFAIL"}
  PROVE  CallTyped'
  <1>1. pc' \in Places /\ pc' \notin StartUp /\ pc' \notin Attempt
    BY DEF Places, StartUp, Attempt, Settled, OutOfPath, Programming, PaPlaces, DdrPlaces, PhyPlaces
  <1>2. UNCHANGED <<args, loop_count, dnum, platform_init_return_code>>
    BY DEF local
  <1>3. QED BY <1>1, <1>2 DEF CallTyped

(* The cached frequency keeps its type while the PLL stands still. *)
LEMMA FrequencyStays ==
  ASSUME FrequencyTyped, UNCHANGED <<frequency, current, main>>, platform_errno' \in Error
  PROVE  FrequencyTyped'
  BY DEF FrequencyTyped, Measured

(* The hardware keeps its type while nothing touches it. *)
LEMMA HardStays ==
  ASSUME HardTyped, UNCHANGED <<main, board>>
  PROVE  HardTyped'
  BY DEF HardTyped, board

(* The steps of the main PLL keep the board typed. *)
LEMMA MainStepTyped ==
  ASSUME BoardTyped, MainPllStep
  PROVE  BoardTyped'
  <1> USE DEF BoardTyped
  <1>1. CASE WaitGo
    <2>1. UNCHANGED <<local, result, platform_init_return_code, main, board, frequency, current, platform_errno>>
      BY <1>1 DEF WaitGo, Goto, outcome
    <2>2. pc \in Attempt /\ pc' \in Attempt
      BY <1>1 DEF WaitGo, Goto, Attempt, OutOfPath, Programming, PaPlaces
    <2>3. platform_errno' \in Error
      BY <2>1 DEF FrequencyTyped
    <2>4. QED BY <2>1, <2>2, <2>3, CallMoves, FrequencyStays, HardStays
  <1>2. CASE GoStuck
    <2>1. UNCHANGED <<local, platform_init_return_code, main, board, frequency, current>>
          /\ result' = "EFAIL" /\ platform_errno' \in Error /\ pc' = "idle"
      BY <1>2 DEF GoStuck, Fail, Return, Error
    <2>2. pc \in StartUp
      BY <1>2 DEF GoStuck, StartUp, Attempt, OutOfPath, Programming
    <2>3. QED BY <2>1, <2>2, CallEnds, FrequencyStays, HardStays
  <1>3. CASE SetValues
    <2>1. UNCHANGED <<local, result, platform_init_return_code, board, frequency, platform_errno>>
          /\ pc = "values" /\ pc' = "go1"
      BY <1>3 DEF SetValues, MainStep, Goto, outcome
    <2>2. pc \in Attempt /\ pc' \in Attempt /\ pc \in StartUp
      BY <2>1 DEF StartUp, Attempt, OutOfPath, Programming
    <2>3. CallTyped'
      BY <2>1, <2>2, CallMoves
    <2>4. CASE main' = main /\ current' = current
      <3>1. platform_errno' \in Error
        BY <2>1 DEF FrequencyTyped
      <3>2. QED BY <2>1, <2>3, <2>4, <3>1, FrequencyStays, HardStays
    <2>5. CASE main' = [main EXCEPT !.m = WantedM, !.div = 0, !.post = 1, !.locked = FALSE] /\ current' = FALSE
      <3>1. WantedM \in Nat
        BY <2>2, WantedTyped DEF CallTyped
      <3>2. main' \in MainPll
        BY <2>5, <3>1 DEF HardTyped, MainPll
      <3>3. HardTyped'
        BY <2>1, <3>2 DEF HardTyped, board
      <3>4. FrequencyTyped'
        BY <2>1, <2>5 DEF FrequencyTyped
      <3>5. QED BY <2>3, <3>3, <3>4
    <2>6. QED BY <1>3, <2>4, <2>5 DEF SetValues, MainStep
  <1>4. ASSUME NEW from \in Attempt, NEW to \in Attempt, NEW value \in MainPll, value.m = main.m,
               MainStep(from, to, value), current' = current \/ current' = FALSE
        PROVE  BoardTyped'
    <2>1. UNCHANGED <<local, result, platform_init_return_code, board, frequency, platform_errno>>
          /\ pc = from /\ pc' = to /\ main' = value
      BY <1>4 DEF MainStep, Goto, outcome
    <2>2. CallTyped'
      BY <2>1, CallMoves
    <2>3. HardTyped'
      BY <2>1 DEF HardTyped, board
    <2>4. FrequencyTyped'
      <3>1. Measured' = Measured
        BY <1>4, <2>1 DEF Measured
      <3>2. current' \in BOOLEAN /\ (current' => current)
        <4>1. current \in BOOLEAN
          BY DEF FrequencyTyped
        <4>2. CASE current' = current
          BY <4>1, <4>2
        <4>3. CASE current' = FALSE
          BY <4>3
        <4>4. QED BY <1>4, <4>2, <4>3
      <3>3. QED BY <2>1, <3>1, <3>2 DEF FrequencyTyped
    <2>5. QED BY <2>2, <2>3, <2>4
  <1>5. "bypass" \in Attempt /\ "powerdown" \in Attempt /\ "powerup" \in Attempt /\ "values" \in Attempt
        /\ "reset" \in Attempt /\ "release" \in Attempt /\ "engage" \in Attempt /\ "readback" \in Attempt
    BY DEF Attempt, OutOfPath, Programming
  <1>6. main \in MainPll
    BY DEF HardTyped
  <1>7. CASE EnterBypass
    <2>1. Bypassed \in MainPll /\ Bypassed.m = main.m
      BY <1>6 DEF Bypassed, MainPll
    <2>2. QED BY <1>4, <1>5, <1>7, <2>1 DEF EnterBypass
  <1>8. CASE PowerDown
    <2> DEFINE value == [main EXCEPT !.bypass = TRUE, !.powered = FALSE, !.locked = FALSE]
    <2>1. value \in MainPll /\ value.m = main.m
      BY <1>6 DEF MainPll
    <2>2. QED BY <1>4, <1>5, <1>8, <2>1 DEF PowerDown
  <1>9. CASE PowerUp
    <2> DEFINE value == [main EXCEPT !.powered = TRUE]
    <2>1. value \in MainPll /\ value.m = main.m
      BY <1>6 DEF MainPll
    <2>2. QED BY <1>4, <1>5, <1>9, <2>1 DEF PowerUp
  <1>10. CASE ResetPll
    <2> DEFINE value == [main EXCEPT !.reset = TRUE, !.locked = FALSE]
    <2>1. value \in MainPll /\ value.m = main.m
      BY <1>6 DEF MainPll
    <2>2. QED BY <1>4, <1>5, <1>10, <2>1 DEF ResetPll
  <1>11. CASE ReleasePll
    <2> DEFINE value == [main EXCEPT !.reset = FALSE, !.locked = TRUE]
    <2>1. value \in MainPll /\ value.m = main.m
      BY <1>6 DEF MainPll
    <2>2. QED BY <1>4, <1>5, <1>11, <2>1 DEF ReleasePll
  <1>12. CASE EngagePll
    <2> DEFINE value == [main EXCEPT !.bypass = FALSE, !.pllen = TRUE]
    <2>1. value \in MainPll /\ value.m = main.m
      BY <1>6 DEF MainPll
    <2>2. QED BY <1>4, <1>5, <1>12, <2>1 DEF EngagePll
  <1>13. QED BY <1>1, <1>2, <1>3, <1>7, <1>8, <1>9, <1>10, <1>11, <1>12 DEF MainPllStep

(* The steps of the auxiliary PLLs keep the board typed. *)
LEMMA AuxStepTyped ==
  ASSUME BoardTyped, NEW w \in {"pa", "ddr"}, AuxPllStep(w)
  PROVE  BoardTyped'
  <1> USE DEF BoardTyped
  <1>1. AuxPath[w][1] \in Attempt /\ AuxPath[w][2] \in Attempt /\ AuxPath[w][3] \in Attempt /\ AuxPath[w][4] \in Attempt
    BY DEF AuxPath, Attempt, PaPlaces, DdrPlaces
  <1>2. CASE AuxRefuse(w)
    <2>1. UNCHANGED <<local, platform_init_return_code, main, board, frequency, current>>
          /\ result' = "EFAIL" /\ platform_errno' \in Error /\ pc' = "idle" /\ pc = AuxPath[w][1]
      BY <1>2 DEF AuxRefuse, Fail, Return, Error
    <2>2. pc \in StartUp
      BY <1>1, <2>1 DEF StartUp
    <2>3. QED BY <2>1, <2>2, CallEnds, FrequencyStays, HardStays
  <1>3. AfterAux(w) \in Attempt
    BY DEF AfterAux, Attempt, DdrPlaces
  <1>4. CASE AuxBypass(w) \/ AuxValues(w) \/ AuxRelease(w) \/ AuxEngage(w)
    <2>1. UNCHANGED <<local, result, platform_init_return_code, main, board, frequency, current, platform_errno>>
      BY <1>4 DEF AuxBypass, AuxValues, AuxRelease, AuxEngage, AuxStep, Goto, outcome
    <2>2. pc \in Attempt /\ pc' \in Attempt
      BY <1>1, <1>3, <1>4 DEF AuxBypass, AuxValues, AuxRelease, AuxEngage, AuxStep, Goto
    <2>3. platform_errno' \in Error
      BY <2>1 DEF FrequencyTyped
    <2>4. QED BY <2>1, <2>2, <2>3, CallMoves, FrequencyStays, HardStays
  <1>5. QED BY <1>2, <1>4 DEF AuxPllStep

(* The steps of an attempt keep the board typed. *)
LEMMA AttemptTyped ==
  ASSUME BoardTyped, InitDdr \/ LoopDone \/ TryAgain \/ GiveUp \/ SaveFrequency
  PROVE  BoardTyped'
  <1> USE DEF BoardTyped
  <1>0. platform_errno \in Error /\ "none" \in Error /\ "GENERIC" \in Error
    BY DEF FrequencyTyped, Error
  <1>1. CASE InitDdr
    <2>1. UNCHANGED <<local, result, platform_init_return_code, main, domain, edc, serdes, sgmii, frequency, current,
                      platform_errno>>
          /\ pc = "ddr" /\ pc' = "looped" /\ ddr' \in Memory /\ mapped' = TRUE
      BY <1>1 DEF InitDdr, Goto, outcome
    <2>2. pc \in Attempt /\ pc' \in Attempt
      BY <2>1 DEF Attempt
    <2>3. HardTyped'
      BY <2>1, BoardAssumption DEF HardTyped
    <2>4. QED BY <1>0, <2>1, <2>2, <2>3, CallMoves, FrequencyStays
  <1>2. CASE LoopDone
    <2>1. UNCHANGED <<args, loop_count, dnum, result, main, board, frequency, current, platform_errno>>
          /\ pc = "looped" /\ pc' = "frequency" /\ platform_init_return_code' = loop_count
      BY <1>2 DEF LoopDone, local
    <2>2. pc \in StartUp /\ pc' \in StartUp /\ pc' \in Places /\ pc' \notin Attempt
      BY <2>1 DEF StartUp, Places, Attempt, Settled, OutOfPath, Programming, PaPlaces, DdrPlaces
    <2>3. CallTyped'
      BY <2>1, <2>2 DEF CallTyped
    <2>4. QED BY <1>0, <2>1, <2>3, FrequencyStays, HardStays
  <1>3. CASE TryAgain
    <2>1. UNCHANGED <<args, dnum, result, platform_init_return_code, main, board, frequency, current>>
          /\ pc = "looped" /\ pc' = FirstStep(args.flags) /\ loop_count' = loop_count + 1
          /\ loop_count + 1 < INIT_TRIES /\ platform_errno' = "none"
      BY <1>3 DEF TryAgain, TriesLeft
    <2>2. pc \in StartUp /\ pc' \in StartUp /\ pc' \in Places
      BY <2>1, FirstPlace DEF StartUp, Places, Attempt
    <2>3. CallTyped'
      BY <2>1, <2>2, BoardAssumption DEF CallTyped
    <2>4. QED BY <1>0, <2>1, <2>3, FrequencyStays, HardStays
  <1>4. CASE GiveUp
    <2>1. UNCHANGED <<args, dnum, main, board, frequency, current>>
          /\ pc = "looped" /\ pc' = "idle" /\ loop_count' = loop_count + 1 /\ result' = "EFAIL"
          /\ platform_init_return_code' = loop_count + 1 /\ platform_errno' = "GENERIC"
      BY <1>4 DEF GiveUp
    <2>2. pc \in Attempt /\ pc' \notin StartUp /\ pc' \notin Attempt /\ pc' \in Places
      BY <2>1 DEF StartUp, Places, Attempt, Settled, OutOfPath, Programming, PaPlaces, DdrPlaces, PhyPlaces
    <2>3. CallTyped'
      BY <2>1, <2>2, BoardAssumption DEF CallTyped
    <2>4. QED BY <1>0, <2>1, <2>3, FrequencyStays, HardStays
  <1>5. CASE SaveFrequency
    <2>1. UNCHANGED <<local, result, platform_init_return_code, main, board>> /\ pc = "frequency" /\ pc' = "alwayson"
      BY <1>5 DEF SaveFrequency
    <2>2. pc \in Settled /\ pc' \in Settled
      BY <2>1 DEF Settled
    <2>3. CASE UNCHANGED <<frequency, current, platform_errno>>
      BY <1>0, <2>1, <2>2, <2>3, CallMoves, HardStays, FrequencyStays
    <2>4. CASE frequency' = Measured /\ current' = TRUE /\ platform_errno' = platform_errno
      <3>1. Measured \in 0 .. WORD - 1 /\ Measured' = Measured
        BY <2>1, MeasuredTyped DEF HardTyped, Measured
      <3>2. FrequencyTyped'
        BY <1>0, <2>4, <3>1 DEF FrequencyTyped
      <3>3. QED BY <2>1, <2>2, <3>2, CallMoves, HardStays
    <2>5. CASE frequency' = UNKNOWN /\ current' = FALSE /\ platform_errno' = "GENERIC"
      <3>1. FrequencyTyped'
        <4>1. WORD \in Nat \ {0, 1}
          BY BoardAssumption
        <4>2. frequency' \in 0 .. WORD - 1
          BY <2>5, <4>1 DEF UNKNOWN
        <4>3. QED BY <1>0, <2>5, <4>2 DEF FrequencyTyped
      <3>2. QED BY <2>1, <2>2, <3>1, CallMoves, HardStays
    <2>6. QED BY <1>5, <2>3, <2>4, <2>5 DEF SaveFrequency
  <1>6. QED BY <1>1, <1>2, <1>3, <1>4, <1>5

(* The steps after the attempts keep the board typed. *)
LEMMA SettledTyped ==
  ASSUME BoardTyped,
         \/ (\E d \in Domain : StartDomain(d) \/ DomainDone(d)) \/ EnableEdc
         \/ ConfigSerdes \/ SerdesLocked \/ SoftReset \/ ConfigureSgmii \/ LinkIsUp \/ Negotiated
  PROVE  BoardTyped'
  <1> USE DEF BoardTyped
  <1>0. platform_errno \in Error
    BY DEF FrequencyTyped
  <1>1. UNCHANGED <<local, platform_init_return_code, main, frequency, current, platform_errno>>
    BY DEF StartDomain, DomainDone, EnableEdc, ConfigSerdes, SerdesLocked, SoftReset, ConfigureSgmii, LinkIsUp,
           Negotiated, SgmiiStep, Goto, Return, outcome
  <1>2. \/ pc \in Settled /\ pc' \in Settled /\ result' = result
        \/ pc \in Settled /\ pc' = "idle" /\ result' = "EOK"
    BY DEF StartDomain, DomainDone, EnableEdc, ConfigSerdes, SerdesLocked, SoftReset, ConfigureSgmii, LinkIsUp,
           Negotiated, SgmiiStep, Goto, Return, outcome, Settled, PhyPlaces
  <1>3. CallTyped'
    BY <1>1, <1>2, CallMoves, CallEnds DEF StartUp
  <1>4. FrequencyTyped'
    BY <1>0, <1>1, FrequencyStays
  <1>5. HardTyped'
    <2>1. CASE \E d \in Domain : StartDomain(d)
      BY <1>1, <2>1 DEF StartDomain, HardTyped
    <2>2. CASE (\E d \in Domain : DomainDone(d)) \/ SerdesLocked \/ Negotiated
      <3>1. UNCHANGED <<main, board>>
        BY <1>1, <2>2 DEF DomainDone, SerdesLocked, Negotiated
      <3>2. QED BY <3>1, HardStays
    <2>3. CASE EnableEdc
      BY <1>1, <2>3 DEF EnableEdc, HardTyped, Flagged
    <2>4. CASE ConfigSerdes
      BY <1>1, <2>4 DEF ConfigSerdes, HardTyped
    <2>5. CASE SoftReset \/ ConfigureSgmii \/ LinkIsUp
      <3>1. sgmii' \in Sgmii
        <4>1. sgmii \in Sgmii
          BY DEF HardTyped
        <4>2. CASE SoftReset
          BY <4>2 DEF SoftReset, SgmiiStep, Sgmii
        <4>3. CASE ConfigureSgmii
          BY <4>1, <4>3 DEF ConfigureSgmii, SgmiiStep, Sgmii
        <4>4. CASE LinkIsUp
          BY <4>1, <4>4 DEF LinkIsUp, SgmiiStep
        <4>5. QED BY <2>5, <4>2, <4>3, <4>4
      <3>2. UNCHANGED <<ddr, mapped, domain, edc, serdes>>
        BY <2>5 DEF SoftReset, ConfigureSgmii, LinkIsUp, SgmiiStep
      <3>3. QED BY <1>1, <3>1, <3>2 DEF HardTyped
    <2>6. QED BY <2>1, <2>2, <2>3, <2>4, <2>5
  <1>6. QED BY <1>3, <1>4, <1>5

(* What the hardware does on its own keeps the board typed. *)
LEMMA HardwareTyped ==
  ASSUME BoardTyped, Hardware
  PROVE  BoardTyped'
  <1> USE DEF BoardTyped
  <1>1. UNCHANGED <<pc, local, result, platform_init_return_code, main, frequency, current, platform_errno, ddr, mapped,
                    edc>>
    BY DEF Hardware, outcome
  <1>2. CallTyped' /\ FrequencyTyped'
    BY <1>1, CallMoves, FrequencyStays DEF FrequencyTyped
  <1>3. domain' \in [Domain -> {"off", "turning", "on"}] /\ serdes' \subseteq {0, 1} /\ sgmii' \in Sgmii
    BY DEF Hardware, HardTyped, Sgmii
  <1>4. QED BY <1>1, <1>2, <1>3 DEF HardTyped

(* Calls of the services leave the board alone. *)
Byte == {"char", "cr", "lf"}

ServiceTyped ==
  /\ usecs \in Nat /\ start \in 0 .. WORD - 1 /\ tscl \in 0 .. WORD - 1 /\ waits \in Nat /\ elapsed \in Nat
  /\ counting \in BOOLEAN
  /\ rx \in Seq(Nat) /\ Len(rx) <= FIFO /\ got \in Seq(Nat) /\ arrived \in Nat
  /\ thr \in Seq(Byte) /\ Len(thr) <= 1 /\ todo \in Seq(Byte) /\ line \in Seq(Byte)
  /\ calls \in 0 .. MaxCalls

PlaceOp ==
  /\ pc \in StartUp => op = "init"
  /\ pc = "delay" => op = "delay"
  /\ pc \in {"uartread", "uartDelay", "uartTimeout"} => op = "uartread"
  /\ pc = "write" => op \in {"write", "uartwrite"}
  /\ pc \in {"l1p", "l1d", "restore"} => op = "internal"

TypeInv == BoardTyped /\ ServiceTyped /\ PlaceOp

NotStartUp == Places \ StartUp

(* The places of the calls that are not start-up. *)
LEMMA OtherPlaces ==
  NotStartUp = {"idle", "delay", "uartread", "uartDelay", "uartTimeout", "write", "l1p", "l1d", "restore"}
  BY DEF NotStartUp, Places, StartUp, Attempt, Settled, OutOfPath, Programming, PaPlaces, DdrPlaces, PhyPlaces

(* A service that leaves the board alone keeps it typed. *)
LEMMA ServiceBoardTyped ==
  ASSUME BoardTyped,
         UNCHANGED <<local, result, platform_init_return_code, frequency, main, board, current>>,
         platform_errno' \in Error, pc' = pc \/ pc' \in NotStartUp
  PROVE  BoardTyped'
  BY CallMoves, FrequencyStays, HardStays DEF BoardTyped, NotStartUp

(* A step that changes nothing of the board keeps it typed. *)
LEMMA StillTyped ==
  ASSUME BoardTyped, UNCHANGED still, pc' = pc \/ pc' \in NotStartUp
  PROVE  BoardTyped'
  <1>1. UNCHANGED <<local, result, platform_init_return_code, frequency, main, board, current, platform_errno>>
    BY DEF still, outcome
  <1>2. platform_errno' \in Error
    BY <1>1 DEF BoardTyped, FrequencyTyped
  <1>3. QED BY <1>1, <1>2, ServiceBoardTyped

(* Calling platform_init keeps the board typed. *)
LEMMA CallInitTyped ==
  ASSUME BoardTyped, CallInit
  PROVE  BoardTyped'
  <1> USE DEF BoardTyped
  <1>1. CASE Refuse
    <2>1. UNCHANGED <<pc, loop_count, dnum, platform_init_return_code, frequency, main, board, current>>
          /\ pc = "idle" /\ args' = NoArguments /\ result' = "EFAIL" /\ platform_errno' = "INVALID_ARGUMENT"
      BY <1>1 DEF Refuse
    <2>2. "idle" \notin StartUp /\ "idle" \notin Attempt
      BY OtherPlaces DEF NotStartUp, StartUp
    <2>3. CallTyped'
      BY <2>1, <2>2 DEF CallTyped
    <2>4. platform_errno' \in Error
      BY <2>1 DEF Error
    <2>5. QED BY <2>1, <2>3, <2>4, FrequencyStays, HardStays
  <1>2. ASSUME NEW a \in Arguments \ {NoArguments}, Start(a) PROVE BoardTyped'
    <2>1. UNCHANGED <<dnum, platform_init_return_code, frequency, main, board, current>>
          /\ pc' = FirstStep(a.flags) /\ args' = a /\ loop_count' = 0 /\ result' = "none" /\ platform_errno' = "none"
      BY <1>2 DEF Start
    <2>2. pc' \in Places
      BY <2>1, FirstPlace DEF Places, StartUp
    <2>3. CallTyped'
      BY <2>1, <2>2, BoardAssumption DEF CallTyped
    <2>4. platform_errno' \in Error
      BY <2>1 DEF Error
    <2>5. QED BY <2>1, <2>3, <2>4, FrequencyStays, HardStays
  <1>3. QED BY <1>1, <1>2 DEF CallInit

(* platform_get_info keeps the board typed. *)
LEMMA GetInfoTyped ==
  ASSUME BoardTyped, GetInfo
  PROVE  BoardTyped'
  <1> USE DEF BoardTyped
  <1>1. UNCHANGED <<local, result, platform_init_return_code, main, board, pc>>
    BY DEF GetInfo, AtOnce
  <1>2. CallTyped' /\ HardTyped'
    BY <1>1, CallMoves, HardStays
  <1>3. CASE frequency' = Measured /\ current' = TRUE /\ platform_errno' = platform_errno
    <2>1. Measured \in 0 .. WORD - 1 /\ Measured' = Measured
      BY <1>1, MeasuredTyped DEF HardTyped, Measured
    <2>2. FrequencyTyped'
      BY <1>3, <2>1 DEF FrequencyTyped
    <2>3. QED BY <1>2, <2>2
  <1>4. CASE frequency' = UNKNOWN /\ current' = FALSE /\ platform_errno' = "GENERIC"
    <2>1. WORD \in Nat \ {0, 1}
      BY BoardAssumption
    <2>2. frequency' \in 0 .. WORD - 1
      BY <1>4, <2>1 DEF UNKNOWN
    <2>3. platform_errno' \in Error
      BY <1>4 DEF Error
    <2>4. FrequencyTyped'
      BY <1>4, <2>2, <2>3 DEF FrequencyTyped
    <2>5. QED BY <1>2, <2>4
  <1>5. CASE platform_errno' = "INVALID_ARGUMENT" /\ UNCHANGED <<frequency, current>>
    <2>1. platform_errno' \in Error
      BY <1>5 DEF Error
    <2>2. FrequencyTyped'
      BY <1>1, <1>5, <2>1, FrequencyStays
    <2>3. QED BY <1>2, <2>2
  <1>6. QED BY <1>3, <1>4, <1>5 DEF GetInfo

(* platform_delay keeps the board typed. *)
LEMMA DelayCallsTyped ==
  ASSUME BoardTyped, (\E us \in Usecs : Delay(us)) \/ Spin \/ DelayReturns
  PROVE  BoardTyped'
  <1>1. UNCHANGED still
    BY DEF Delay, Spin, DelayReturns
  <1>2. pc' = pc \/ pc' \in NotStartUp
    BY OtherPlaces DEF Delay, Spin, DelayReturns, Become, Done
  <1>3. QED BY <1>1, <1>2, StillTyped

(* platform_uart_read keeps the board typed. *)
LEMMA UartTyped ==
  ASSUME BoardTyped, UartStep
  PROVE  BoardTyped'
  <1>1. pc' = pc \/ pc' \in NotStartUp
    BY OtherPlaces DEF UartStep, UartInit, SetBaudrate, Arrive, UartReadNowhere, UartRead, UartReady,
                       UartNotReady, UartDelayOver, UartTimeout, AtOnce, Call, Become, Done
  <1>2. CASE UartTimeout
    <2>1. UNCHANGED <<local, result, platform_init_return_code, frequency, main, board, current>>
          /\ platform_errno' \in Error
      BY <1>2 DEF UartTimeout, board, Error
    <2>2. QED BY <1>1, <2>1, ServiceBoardTyped
  <1>3. CASE ~ UartTimeout
    <2>1. UNCHANGED still
      BY <1>3 DEF UartStep, UartInit, SetBaudrate, Arrive, UartReadNowhere, UartRead, UartReady,
                  UartNotReady, UartDelayOver
    <2>2. QED BY <1>1, <2>1, StillTyped
  <1>4. QED BY <1>2, <1>3

(* platform_write keeps the board typed. *)
LEMMA WriteTyped ==
  ASSUME BoardTyped, WriteStep
  PROVE  BoardTyped'
  <1>1. pc' = pc \/ pc' \in NotStartUp
    BY OtherPlaces DEF WriteStep, Configure, WriteTooLong, Write, UartWrite, WriteData, WriteReturns, Transmit,
                       AtOnce, Call, Become, Done
  <1>2. CASE WriteTooLong
    <2>1. UNCHANGED <<local, result, platform_init_return_code, frequency, main, board, current>>
          /\ platform_errno' \in Error
      BY <1>2 DEF WriteTooLong, board, Error
    <2>2. QED BY <1>1, <2>1, ServiceBoardTyped
  <1>3. CASE ~ WriteTooLong
    <2>1. UNCHANGED still
      BY <1>3 DEF WriteStep, Configure, Write, UartWrite, WriteData, WriteReturns, Transmit
    <2>2. QED BY <1>1, <2>1, StillTyped
  <1>4. QED BY <1>2, <1>3

(* The memory tests keep the board typed. *)
LEMMA TestsTyped ==
  ASSUME BoardTyped, TestStep
  PROVE  BoardTyped'
  <1>0. platform_errno \in Error /\ "address" \in Error /\ "INVALID_ARGUMENT" \in Error
    BY DEF BoardTyped, FrequencyTyped, Error
  <1>1. pc' = pc \/ pc' \in NotStartUp
    BY OtherPlaces DEF TestStep, ExternalTest, InternalRefused, InternalTest, TestL1, InternalReturns,
                       AtOnce, Call, Become, Done
  <1>2. UNCHANGED <<local, result, platform_init_return_code, frequency, main, board, current>>
    BY DEF TestStep, ExternalTest, InternalRefused, InternalTest, TestL1, InternalReturns, still, outcome, board
  <1>3. platform_errno' \in Error
    <2>1. ASSUME NEW r \in Ranges, ExternalTest(r[1], r[2])
          PROVE  platform_errno' \in {platform_errno, "address", "INVALID_ARGUMENT"}
      BY <2>1 DEF ExternalTest
    <2>2. ASSUME NEW id \in 0 .. CORE_COUNT, InternalRefused(id) \/ InternalTest(id)
          PROVE  platform_errno' \in {platform_errno, "address", "INVALID_ARGUMENT"}
      BY <2>2 DEF InternalRefused, InternalTest, still, outcome
    <2>3. ASSUME NEW at, NEW chip, NEW next, TestL1(at, chip, next)
          PROVE  platform_errno' \in {platform_errno, "address", "INVALID_ARGUMENT"}
      BY <2>3 DEF TestL1
    <2>4. CASE InternalReturns
      BY <1>0, <2>4 DEF InternalReturns, still, outcome
    <2>5. QED BY <1>0, <2>1, <2>2, <2>3, <2>4 DEF TestStep
  <1>4. QED BY <1>1, <1>2, <1>3, ServiceBoardTyped

(* Every step keeps the board typed. *)
LEMMA BoardTypedKept ==
  ASSUME BoardTyped, [Next]_vars
  PROVE  BoardTyped'
  <1>1. CASE InitStep
    BY <1>1, MainStepTyped, AuxStepTyped, AttemptTyped, SettledTyped, HardwareTyped DEF InitStep, BoardStep
  <1>2. CASE UNCHANGED vars
    <2>1. UNCHANGED still /\ pc' = pc
      BY <1>2 DEF vars, boardvars, still, outcome
    <2>2. QED BY <2>1, StillTyped
  <1>3. QED BY <1>1, <1>2, CallInitTyped, GetInfoTyped, DelayCallsTyped, UartTyped, WriteTyped, TestsTyped
       DEF Next

(* The services keep their type when no service runs. *)
LEMMA ServiceStays ==
  ASSUME ServiceTyped, UNCHANGED servicevars
  PROVE  ServiceTyped'
  BY DEF ServiceTyped, servicevars, delay, uart, writer

(* The bound on calls holds. *)
LEMMA CallsCounted ==
  ASSUME ServiceTyped, calls' = calls \/ (calls < MaxCalls /\ calls' = calls + 1)
  PROVE  calls' \in 0 .. MaxCalls
  BY ServicesAssumption DEF ServiceTyped

(* platform_delay keeps the services typed. *)
LEMMA DelayServiceTyped ==
  ASSUME ServiceTyped, (\E us \in Usecs : Delay(us)) \/ Spin \/ DelayReturns
  PROVE  ServiceTyped'
  <1>0. UNCHANGED <<waits, counting, uart, writer>>
    BY DEF Delay, Spin, DelayReturns, delay
  <1>1. UNCHANGED <<waits, counting, rx, got, arrived, thr, todo, line>>
    BY <1>0 DEF uart, writer
  <1>2. calls' \in 0 .. MaxCalls
    BY CallsCounted DEF Delay, Spin, DelayReturns, Call, Become, Done
  <1>3. /\ usecs' \in Nat /\ start' \in 0 .. WORD - 1 /\ tscl' \in 0 .. WORD - 1 /\ elapsed' \in Nat
    <2>1. ASSUME NEW us \in Usecs, Delay(us)
          PROVE  usecs' \in Nat /\ start' \in 0 .. WORD - 1 /\ tscl' \in 0 .. WORD - 1 /\ elapsed' \in Nat
      BY <2>1, ServicesAssumption DEF Delay, BeginDelay
    <2>2. CASE Spin
      <3>1. PICK d \in Ticks : tscl' = (tscl + d) % WORD /\ elapsed' = elapsed + d
        BY <2>2 DEF Spin
      <3>2. d \in Nat /\ WORD \in Nat \ {0}
        BY ServicesAssumption, BoardAssumption
      <3>3. tscl' \in 0 .. WORD - 1 /\ elapsed' \in Nat
        BY <3>1, <3>2 DEF ServiceTyped
      <3>4. QED BY <2>2, <3>3 DEF Spin, ServiceTyped
    <2>3. CASE DelayReturns
      BY <2>3 DEF DelayReturns, delay, ServiceTyped
    <2>4. QED BY <2>1, <2>2, <2>3
  <1>4. QED BY <1>1, <1>2, <1>3 DEF ServiceTyped

(* A byte is taken from the receiver. *)
LEMMA ReadDataTyped ==
  ASSUME ServiceTyped, ReadData
  PROVE  rx' \in Seq(Nat) /\ Len(rx') <= FIFO /\ got' \in Seq(Nat) /\ arrived' \in Nat
  <1>1. CASE rx = <<>>
    BY <1>1 DEF ReadData, ServiceTyped
  <1>2. CASE rx # <<>>
    <2>1. rx' = Tail(rx) /\ got' = Append(got, Head(rx)) /\ arrived' = arrived
      BY <1>2 DEF ReadData
    <2>2. Tail(rx) \in Seq(Nat) /\ Len(Tail(rx)) = Len(rx) - 1 /\ Head(rx) \in Nat
      BY <1>2 DEF ServiceTyped
    <2>3. QED BY <2>1, <2>2, ServicesAssumption DEF ServiceTyped
  <1>3. QED BY <1>1, <1>2

(* platform_uart_read keeps the services typed. *)
LEMMA UartServiceTyped ==
  ASSUME ServiceTyped, UartStep
  PROVE  ServiceTyped'
  <1>0. thr' \in Seq(Byte) /\ Len(thr') <= 1 /\ UNCHANGED <<todo, line>>
    <2>1. CASE UartInit
      BY <2>1 DEF UartInit
    <2>2. CASE ~ UartInit
      <3>1. UNCHANGED <<thr, todo, line>>
        BY <2>2 DEF UartStep, SetBaudrate, Arrive, UartReadNowhere, UartRead, UartReady,
               UartNotReady, UartDelayOver, UartTimeout, writer
      <3>2. QED BY <3>1 DEF ServiceTyped
    <2>3. QED BY <2>1, <2>2
  <1>1. calls' \in 0 .. MaxCalls
    BY CallsCounted DEF UartStep, UartInit, SetBaudrate, Arrive, UartReadNowhere, UartRead, UartReady,
           UartNotReady, UartDelayOver, UartTimeout, AtOnce, Call, Become, Done
  <1>2. usecs' \in Nat /\ start' \in 0 .. WORD - 1 /\ tscl' \in 0 .. WORD - 1 /\ waits' \in Nat /\ elapsed' \in Nat
        /\ counting' \in BOOLEAN
    <2>1. ASSUME NEW us \in Usecs, UartRead(us)
          PROVE  usecs' \in Nat /\ start' \in 0 .. WORD - 1 /\ tscl' \in 0 .. WORD - 1 /\ waits' \in Nat
                 /\ elapsed' \in Nat /\ counting' \in BOOLEAN
      BY <2>1, ServicesAssumption, BoardAssumption DEF UartRead, ServiceTyped
    <2>2. CASE UartNotReady
      BY <2>2, ServicesAssumption DEF UartNotReady, ServiceTyped, BeginDelay, delay
    <2>3. CASE UartInit \/ (\E b \in {19200, 115200} : SetBaudrate(b)) \/ Arrive \/ UartReadNowhere \/ UartReady
               \/ UartDelayOver \/ UartTimeout
      <3>1. UNCHANGED delay
        BY <2>3 DEF UartInit, SetBaudrate, Arrive, UartReadNowhere, UartReady, UartDelayOver, UartTimeout
      <3>2. QED BY <3>1 DEF delay, ServiceTyped
    <2>4. QED BY <2>1, <2>2, <2>3 DEF UartStep
  <1>3. rx' \in Seq(Nat) /\ Len(rx') <= FIFO /\ got' \in Seq(Nat) /\ arrived' \in Nat
    <2>1. CASE UartInit
      BY <2>1, ServicesAssumption DEF UartInit
    <2>2. CASE Arrive
      BY <2>2, ServicesAssumption DEF Arrive, ServiceTyped
    <2>3. CASE UartReady \/ UartTimeout
      BY <2>3, ReadDataTyped DEF UartReady, UartTimeout
    <2>4. CASE (\E b \in {19200, 115200} : SetBaudrate(b)) \/ UartReadNowhere \/ (\E us \in Usecs : UartRead(us))
               \/ UartNotReady \/ UartDelayOver
      <3>1. UNCHANGED <<rx, got, arrived>>
        BY <2>4 DEF SetBaudrate, UartReadNowhere, UartRead, UartNotReady, UartDelayOver, uart
      <3>2. QED BY <3>1 DEF ServiceTyped
    <2>5. QED BY <2>1, <2>2, <2>3, <2>4 DEF UartStep
  <1>4. QED BY <1>0, <1>1, <1>2, <1>3 DEF ServiceTyped

(* What a message is sent as. *)
LEMMA ExpansionTyped ==
  ASSUME NEW msg \in Messages
  PROVE  Expansion(msg) \in Seq(Byte)
  <1> DEFINE sent == [i \in 1 .. Len(msg) |-> IF msg[i] = "nl" THEN <<"cr", "lf">> ELSE <<msg[i]>>]
  <1>1. msg \in Seq({"char", "nl"})
    BY ServicesAssumption
  <1>2. ASSUME NEW i \in 1 .. Len(msg)
        PROVE  (IF msg[i] = "nl" THEN <<"cr", "lf">> ELSE <<msg[i]>>) \in Seq(Byte)
    <2>1. msg[i] \in {"char", "nl"}
      BY <1>1
    <2>2. <<"cr", "lf">> \in Seq(Byte) /\ <<"char">> \in Seq(Byte)
      BY DEF Byte
    <2>3. QED BY <2>1, <2>2
  <1>3. sent \in Seq(Seq(Byte))
    BY <1>1, <1>2
  <1> HIDE DEF sent
  <1>4. FlattenSeq(sent) \in Seq(Byte)
    BY <1>3, FlattenTyped
  <1>5. QED BY <1>4 DEF Expansion, sent

(* platform_write keeps the services typed. *)
LEMMA WriteServiceTyped ==
  ASSUME ServiceTyped, WriteStep
  PROVE  ServiceTyped'
  <1>0. UNCHANGED <<delay, uart>>
    BY DEF WriteStep, Configure, WriteTooLong, Write, UartWrite, WriteData, WriteReturns, Transmit
  <1>1. calls' \in 0 .. MaxCalls
    BY CallsCounted DEF WriteStep, Configure, WriteTooLong, Write, UartWrite, WriteData, WriteReturns, Transmit,
           AtOnce, Call, Become, Done
  <1>2. thr' \in Seq(Byte) /\ Len(thr') <= 1 /\ todo' \in Seq(Byte) /\ line' \in Seq(Byte)
    <2>1. ASSUME NEW msg \in Messages, Write(msg)
          PROVE  thr' \in Seq(Byte) /\ Len(thr') <= 1 /\ todo' \in Seq(Byte) /\ line' \in Seq(Byte)
      BY <2>1, ExpansionTyped DEF Write, ServiceTyped
    <2>2. CASE UartWrite \/ WriteData
      <3>1. <<"char">> \in Seq(Byte)
        BY DEF Byte
      <3>2. CASE UartWrite
        BY <3>1, <3>2 DEF UartWrite, ServiceTyped
      <3>3. CASE WriteData
        <4>1. Head(todo) \in Byte /\ Tail(todo) \in Seq(Byte)
          BY <3>3 DEF WriteData, ServiceTyped
        <4>2. QED BY <3>3, <4>1 DEF WriteData, ServiceTyped
      <3>4. QED BY <2>2, <3>2, <3>3
    <2>3. CASE Transmit
      BY <2>3 DEF Transmit, ServiceTyped
    <2>4. CASE (\E w \in {"UART", "ALL", "PRINTF"} : Configure(w)) \/ WriteTooLong \/ WriteReturns
      <3>1. UNCHANGED <<thr, todo, line>>
        BY <2>4 DEF Configure, WriteTooLong, WriteReturns, writer
      <3>2. QED BY <3>1 DEF ServiceTyped
    <2>5. QED BY <2>1, <2>2, <2>3, <2>4 DEF WriteStep
  <1>3. QED BY <1>0, <1>1, <1>2 DEF ServiceTyped, delay, uart

(* Every step keeps the services typed. *)
LEMMA ServiceTypedKept ==
  ASSUME ServiceTyped, [Next]_vars
  PROVE  ServiceTyped'
  <1>1. CASE InitStep \/ UNCHANGED vars
    BY <1>1, ServiceStays DEF InitStep, vars
  <1>2. CASE CallInit \/ GetInfo \/ TestStep
    <2>1. UNCHANGED <<usecs, start, tscl, waits, elapsed, uart, writer>> /\ counting' \in {counting, TRUE}
      BY <1>2 DEF delay, CallInit, GetInfo, TestStep, ExternalTest, InternalRefused, InternalTest, TestL1,
         InternalReturns
    <2>2. calls' \in 0 .. MaxCalls
      BY <1>2, CallsCounted DEF CallInit, GetInfo, TestStep, ExternalTest, InternalRefused, InternalTest,
         TestL1,
                                InternalReturns, AtOnce, Call, Become, Done
    <2>3. QED BY <2>1, <2>2 DEF ServiceTyped, uart, writer
  <1>3. QED BY <1>1, <1>2, DelayServiceTyped, UartServiceTyped, WriteServiceTyped DEF Next

-----------------------------------------------------------------------------
(* A step of start-up starts in it and stays in it or returns. *)
LEMMA StartUpStays ==
  ASSUME CallTyped, BoardStep
  PROVE  pc \in StartUp /\ pc' \in StartUp \cup {"idle"}
  <1>1. ASSUME MainPllStep PROVE pc \in StartUp /\ pc' \in StartUp \cup {"idle"}
    BY <1>1 DEF MainPllStep, EnterBypass, PowerDown, PowerUp, SetValues, WaitGo, GoStuck, ResetPll, ReleasePll,
                EngagePll, MainStep, Goto, Fail, Return, StartUp, Attempt, OutOfPath, Programming, PaPlaces
  <1>2. ASSUME NEW w \in {"pa", "ddr"}, AuxPllStep(w) PROVE pc \in StartUp /\ pc' \in StartUp \cup {"idle"}
    <2>1. /\ AuxPath[w][1] \in Attempt /\ AuxPath[w][2] \in Attempt /\ AuxPath[w][3] \in Attempt
          /\ AuxPath[w][4] \in Attempt /\ AfterAux(w) \in Attempt
      BY DEF AuxPath, AfterAux, Attempt, PaPlaces, DdrPlaces
    <2>2. QED BY <1>2, <2>1 DEF AuxPllStep, AuxRefuse, AuxBypass, AuxValues, AuxRelease, AuxEngage, AuxStep,
                                Goto, Fail, Return, StartUp
  <1>3. CASE InitDdr \/ LoopDone \/ TryAgain \/ GiveUp \/ SaveFrequency
    BY <1>3, FirstPlace DEF InitDdr, LoopDone, TryAgain, GiveUp, SaveFrequency, Goto, StartUp, Attempt, Settled
  <1>4. CASE \/ (\E d \in Domain : StartDomain(d) \/ DomainDone(d)) \/ EnableEdc
             \/ ConfigSerdes \/ SerdesLocked \/ SoftReset \/ ConfigureSgmii \/ LinkIsUp \/ Negotiated
    BY <1>4 DEF StartDomain, DomainDone, EnableEdc, ConfigSerdes, SerdesLocked, SoftReset, ConfigureSgmii,
       LinkIsUp,
                Negotiated, SgmiiStep, Goto, Return, StartUp, Settled, PhyPlaces
  <1>5. QED BY <1>1, <1>2, <1>3, <1>4 DEF BoardStep

(* The place of a call belongs to the operation that was called. *)
LEMMA PlaceOpKept ==
  ASSUME BoardTyped, PlaceOp, [Next]_vars
  PROVE  PlaceOp'
  <1>0. StartUp \cap NotStartUp = {}
    BY DEF NotStartUp
  <1>1. CASE InitStep
    <2>1. op' = op
      BY <1>1 DEF InitStep, servicevars
    <2>2. CASE Hardware
      BY <2>1, <2>2 DEF Hardware, PlaceOp
    <2>3. CASE BoardStep
      <3>1. pc \in StartUp /\ pc' \in StartUp \cup {"idle"}
        BY <2>3, StartUpStays DEF BoardTyped
      <3>2. QED BY <1>0, <2>1, <3>1, OtherPlaces DEF PlaceOp
    <2>4. QED BY <1>1, <2>2, <2>3 DEF InitStep
  <1>2. CASE CallInit
    <2>1. op' = "init" /\ pc' \in StartUp \cup {"idle"}
      BY <1>2, FirstPlace DEF CallInit, Refuse, Start, StartUp
    <2>2. QED BY <1>0, <2>1, OtherPlaces DEF PlaceOp
  <1>3. CASE GetInfo \/ (\E us \in Usecs : Delay(us)) \/ Spin \/ DelayReturns
    BY <1>0, <1>3, OtherPlaces DEF PlaceOp, GetInfo, Delay, Spin, DelayReturns, AtOnce, Call, Become, Done
  <1>4. CASE UartStep
    BY <1>0, <1>4, OtherPlaces DEF PlaceOp, UartStep, UartInit, SetBaudrate, Arrive, UartReadNowhere, UartRead,
           UartReady, UartNotReady, UartDelayOver, UartTimeout, AtOnce, Call, Become, Done
  <1>5. CASE WriteStep
    BY <1>0, <1>5, OtherPlaces DEF PlaceOp, WriteStep, Configure, WriteTooLong, Write, UartWrite, WriteData, WriteReturns,
           Transmit, AtOnce, Call, Become, Done
  <1>6. CASE TestStep
    BY <1>0, <1>6, OtherPlaces DEF PlaceOp, TestStep, ExternalTest, InternalRefused, InternalTest, TestL1,
           InternalReturns, AtOnce, Call, Become, Done
  <1>7. CASE UNCHANGED vars
    BY <1>7 DEF vars, boardvars, servicevars, PlaceOp
  <1>8. QED BY <1>1, <1>2, <1>3, <1>4, <1>5, <1>6, <1>7 DEF Next

(* The first state is typed. *)
LEMMA InitTyped == Init => TypeInv
  <1> SUFFICES ASSUME Init PROVE TypeInv
    OBVIOUS
  <1>1. "idle" \notin StartUp /\ "idle" \notin Attempt /\ "idle" \in Places
    BY OtherPlaces DEF NotStartUp, StartUp
  <1>2. CallTyped
    BY <1>1, BoardAssumption DEF Init, BoardInitial, CallTyped
  <1>3. HardTyped
    BY BoardAssumption DEF Init, BoardInitial, HardTyped, Sgmii
  <1>4. FrequencyTyped
    <2>1. frequency = 0 /\ current = FALSE /\ platform_errno = "none" /\ WORD \in Nat \ {0, 1}
      BY BoardAssumption DEF Init, BoardInitial
    <2>2. frequency \in 0 .. WORD - 1
      BY <2>1
    <2>3. current \in BOOLEAN /\ ~ current
      BY <2>1
    <2>4. platform_errno \in Error
      BY <2>1 DEF Error
    <2>5. QED BY <2>2, <2>3, <2>4 DEF FrequencyTyped
  <1>5. ServiceTyped
    <2>1. counting = FALSE
      BY DEF Init
    <2>2. counting \in BOOLEAN
      BY <2>1
    <2>3. QED BY <2>2, ServicesAssumption, BoardAssumption DEF Init, ServiceTyped
  <1>6. PlaceOp
    BY <1>1 DEF Init, BoardInitial, PlaceOp
  <1>7. QED BY <1>2, <1>3, <1>4, <1>5, <1>6 DEF TypeInv, BoardTyped

(* Every state is typed. *)
LEMMA AlwaysTyped == Spec => []TypeInv
  <1>1. TypeInv /\ [Next]_vars => TypeInv'
    BY BoardTypedKept, ServiceTypedKept, PlaceOpKept DEF TypeInv
  <1>2. QED BY <1>1, InitTyped, PTL DEF Spec

(* Every variable keeps the type its declaration in the code gives it, for *)
(* any number of attempts, calls and bytes; in particular the attempts are *)
(* never more than INIT_TRIES, and the frequency fits into its 32 bits     *)
(* (platform.c:100-122, 365-470).                                          *)
THEOREM TypeCorrect == Spec => []TypeOK
  <1>1. Spec => []TypeInv
    BY AlwaysTyped
  <1>2. Spec => []ClockInv
    BY InitClock, NextClock, PTL DEF Spec
  <1>3. TypeInv /\ ClockInv => TypeOK
    <2> SUFFICES ASSUME TypeInv, ClockInv PROVE TypeOK
      OBVIOUS
    <2>1. loop_count \in 0 .. INIT_TRIES /\ dnum \in {0, 1} /\ result \in {"none", "EOK", "EFAIL"}
          /\ platform_init_return_code \in 0 .. INIT_TRIES
      BY DEF TypeInv, BoardTyped, CallTyped
    <2>2. main \in MainPll /\ ddr \in Chip /\ mapped \in BOOLEAN
          /\ domain \in [Domain -> {"off", "turning", "on"}] /\ edc \in BOOLEAN
          /\ serdes \subseteq {0, 1} /\ sgmii.neg \in {"off", "pending", "complete", "error"}
      BY DEF TypeInv, BoardTyped, HardTyped, Sgmii
    <2>3. frequency \in 0 .. WORD - 1
      BY DEF TypeInv, BoardTyped, FrequencyTyped
    <2>4. current \in BOOLEAN
      BY DEF TypeInv, BoardTyped, FrequencyTyped
    <2>5. platform_errno \in {"none", "INVALID_ARGUMENT", "PLL_SETUP", "GENERIC", "READTO", "address"}
      BY DEF TypeInv, BoardTyped, FrequencyTyped, Error
    <2>6. start \in 0 .. WORD - 1 /\ tscl \in 0 .. WORD - 1 /\ waits \in Nat /\ elapsed \in Nat
          /\ counting \in BOOLEAN /\ Len(rx) <= FIFO /\ Len(thr) <= 1 /\ calls \in 0 .. MaxCalls
      BY DEF TypeInv, ServiceTyped
    <2>7. aux \in [{"pa", "ddr"} -> AuxPll]
      BY DEF ClockInv, AuxInv
    <2>8. QED BY <2>1, <2>2, <2>3, <2>4, <2>5, <2>6, <2>7 DEF TypeOK
  <1>4. QED BY <1>1, <1>2, <1>3, PTL

(* The places that platform_init comes to after a step of it, and whether  *)
(* the call is past that step, or has succeeded.                           *)
AfterDdr == {"ddr", "looped"} \cup Settled
AfterPa == DdrPlaces \cup AfterDdr
AfterMain == {"readback"} \cup PaPlaces \cup AfterPa
AfterValues == {"go1", "go2", "reset", "release", "engage"} \cup AfterMain
Past(S) == pc \in S \/ result = "EOK"

MainSet ==
  Flagged("pll") =>
    /\ Past(AfterValues) /\ WantedM <= PLLM_MAX => main.m = WantedM
    /\ Past(AfterMain) => Selected
PaSet ==
  Flagged("pll") =>
    /\ Past({"paValues", "paRelease", "paEngage"} \cup AfterPa) => dnum = 0
    /\ Past({"paRelease", "paEngage"} \cup AfterPa) => aux["pa"].m = PLLM_PASS
    /\ Past(AfterPa) => ~ aux["pa"].bypass
DdrSet ==
  /\ {"pll", "ddr"} \subseteq args.flags =>
       /\ Past({"ddrRelease", "ddrEngage"} \cup AfterDdr) => aux["ddr"].m = PLLM_DDR3
       /\ Past(AfterDdr) => ~ aux["ddr"].bypass
       /\ Past(Settled) => Healthy(ddr, Tested)
  /\ Flagged("ddr") /\ Past({"looped"} \cup Settled) => mapped
PhySet ==
  /\ Past({"pass", "passWait", "edc"} \cup PhyPlaces) => domain["ALWAYSON"] = "on"
  /\ Past({"edc"} \cup PhyPlaces) => domain["PASS"] = "on"
  /\ pc \in {"lock1", "softreset", "configure", "link", "negotiate"} => 0 \in serdes
  /\ pc \in {"softreset", "configure", "link", "negotiate"} => 1 \in serdes
  /\ result = "EOK" /\ Flagged("phy") => serdes = {0, 1} /\ sgmii.neg \in {"complete", "error"}

StartInv == MainSet /\ PaSet /\ DdrSet /\ PhySet

(* Nothing but the place changes, and that only outside of platform_init. *)
LEMMA StillComplete ==
  ASSUME StartInv, UNCHANGED <<args, dnum, result, main, aux, board>>, pc' = pc \/ pc' \in NotStartUp
  PROVE  StartInv'
  <1>1. UNCHANGED <<ddr, mapped, domain, serdes, sgmii>> /\ WantedM' = WantedM
    BY DEF board, WantedM
  <1>2. ASSUME NEW S, S \subseteq StartUp, Past(S)' PROVE Past(S)
    BY <1>2 DEF Past, NotStartUp
  <1>3. AfterValues \subseteq StartUp
    BY DEF AfterValues, AfterMain, AfterPa, AfterDdr, StartUp, Attempt, Settled, OutOfPath, Programming
  <1>4. MainSet'
    <2>1. (Past(AfterValues)' => Past(AfterValues)) /\ (Past(AfterMain)' => Past(AfterMain))
      BY <1>2, <1>3 DEF AfterValues
    <2>2. QED BY <1>1, <2>1 DEF StartInv, MainSet, Flagged, Selected
  <1>5. PaSet'
    <2> DEFINE A == {"paValues", "paRelease", "paEngage"} \cup AfterPa
               B == {"paRelease", "paEngage"} \cup AfterPa
    <2>1. A \subseteq StartUp /\ B \subseteq StartUp /\ AfterPa \subseteq StartUp
      BY <1>3 DEF AfterValues, AfterMain, PaPlaces
    <2> HIDE DEF A, B
    <2>2. (Past(A)' => Past(A)) /\ (Past(B)' => Past(B)) /\ (Past(AfterPa)' => Past(AfterPa))
      BY <1>2, <2>1
    <2>3. QED BY <2>2 DEF StartInv, PaSet, Flagged, A, B
  <1>6. DdrSet'
    <2> DEFINE A == {"ddrRelease", "ddrEngage"} \cup AfterDdr
               B == {"looped"} \cup Settled
    <2>1. A \subseteq StartUp /\ B \subseteq StartUp /\ AfterDdr \subseteq StartUp /\ Settled \subseteq StartUp
      BY <1>3 DEF AfterValues, AfterMain, AfterPa, AfterDdr, DdrPlaces
    <2> HIDE DEF A, B
    <2>2. /\ Past(A)' => Past(A)
          /\ Past(B)' => Past(B)
          /\ Past(AfterDdr)' => Past(AfterDdr)
          /\ Past(Settled)' => Past(Settled)
      BY <1>2, <2>1
    <2>3. QED BY <1>1, <2>2 DEF StartInv, DdrSet, Flagged, A, B
  <1>7. PhySet'
    <2> DEFINE A == {"pass", "passWait", "edc"} \cup PhyPlaces
               B == {"edc"} \cup PhyPlaces
    <2>1. A \subseteq StartUp /\ B \subseteq StartUp
          /\ {"lock1", "softreset", "configure", "link", "negotiate"} \subseteq StartUp
      BY DEF StartUp, Settled, PhyPlaces
    <2> HIDE DEF A, B
    <2>2. (Past(A)' => Past(A)) /\ (Past(B)' => Past(B))
      BY <1>2, <2>1
    <2>3. pc' \in {"lock1", "softreset", "configure", "link", "negotiate"} => pc' = pc
      BY <2>1 DEF NotStartUp
    <2>4. QED BY <1>1, <2>2, <2>3 DEF StartInv, PhySet, Flagged, A, B
  <1>8. QED BY <1>4, <1>5, <1>6, <1>7 DEF StartInv

(* A call fails. *)
LEMMA FailsComplete ==
  ASSUME pc' = "idle", result' # "EOK"
  PROVE  StartInv'
  <1>1. "idle" \notin StartUp
    BY OtherPlaces DEF NotStartUp
  <1>2. QED BY <1>1 DEF StartInv, MainSet, PaSet, DdrSet, PhySet, Past, AfterValues, AfterMain, AfterPa,
       AfterDdr,
                        StartUp, Attempt, Settled

(* An attempt begins. *)
LEMMA BeginsComplete ==
  ASSUME pc' = FirstStep(args'.flags), result' = "none"
  PROVE  StartInv'
  <1>1. CASE "pll" \in args'.flags
    <2>1. pc' = "bypass"
      BY <1>1 DEF FirstStep
    <2>2. QED BY <2>1 DEF StartInv, MainSet, PaSet, DdrSet, PhySet, Past, AfterValues, AfterMain, AfterPa,
         AfterDdr,
                          Settled, PhyPlaces, PaPlaces, DdrPlaces
  <1>2. CASE "pll" \notin args'.flags
    <2>1. pc' \in {"ddr", "looped"} /\ (pc' = "looped" => "ddr" \notin args'.flags)
      BY <1>2 DEF FirstStep
    <2>2. QED BY <1>2, <2>1 DEF StartInv, MainSet, PaSet, DdrSet, PhySet, Past, Settled, PhyPlaces, Flagged
  <1>3. QED BY <1>1, <1>2

(* While the main PLL is set, only its part can be lost. *)
LEMMA MainOnly ==
  ASSUME MainSet', pc' \in OutOfPath \cup {"readback", "pa"}, result' = "none"
  PROVE  StartInv'
  BY DEF StartInv, PaSet, DdrSet, PhySet, Past, AfterPa, AfterDdr, Settled, PhyPlaces, PaPlaces, DdrPlaces,
         OutOfPath, Programming

(* The steps of the main PLL leave done what start-up has done. *)
LEMMA MainStepComplete ==
  ASSUME TypeInv, StartInv, MainPllStep
  PROVE  StartInv'
  <1>0. result = "none" /\ main \in MainPll
    <2>1. pc \in StartUp
      BY StartUpStays DEF TypeInv, BoardTyped, BoardStep
    <2>2. QED BY <2>1 DEF TypeInv, BoardTyped, CallTyped, HardTyped
  <1>1. CASE GoStuck
    BY <1>1, FailsComplete DEF GoStuck, Fail, Return
  <1>2. CASE WaitGo
    <2>1. /\ args' = args /\ result' = result /\ main' = main /\ pc \in {"go1", "go2", "readback"}
          /\ pc' \in {"go2", "reset", "pa"} /\ (pc' = "pa" => pc = "readback")
      BY <1>2 DEF WaitGo, Goto, local, outcome
    <2>2. MainSet'
      BY <1>0, <2>1 DEF StartInv, MainSet, Past, Flagged, Selected, WantedM, AfterValues, AfterMain, AfterPa,
         AfterDdr,
                        Settled, PhyPlaces, PaPlaces, DdrPlaces
    <2>3. QED BY <1>0, <2>1, <2>2, MainOnly DEF OutOfPath, Programming
  <1>3. CASE SetValues
    <2>1. args' = args /\ result' = result /\ pc' = "go1"
      BY <1>3 DEF SetValues, MainStep, Goto, local, outcome
    <2>2. WantedM' = WantedM /\ (WantedM <= PLLM_MAX => main'.m = WantedM)
      <3>1. WantedM' = WantedM
        BY <2>1 DEF WantedM
      <3>2. CASE WantedM <= PLLM_MAX /\ MainStep("values", "go1", [main EXCEPT !.m = WantedM, !.div = 0, !.post = 1, !.locked = FALSE])
        BY <1>0, <3>1, <3>2 DEF MainStep, MainPll
      <3>3. CASE WantedM > PLLM_MAX
        <4>1. WantedM \in Nat /\ PLLM_MAX \in Nat
          <5>1. pc \in StartUp
            BY <1>3 DEF SetValues, MainStep, StartUp, Attempt, OutOfPath, Programming
          <5>2. QED BY <5>1, WantedTyped, BoardAssumption DEF TypeInv, BoardTyped, CallTyped
        <4>2. QED BY <3>1, <3>3, <4>1
      <3>4. QED BY <1>3, <3>2, <3>3 DEF SetValues
    <2>3. MainSet'
      BY <1>0, <2>1, <2>2 DEF MainSet, Past, AfterMain, AfterPa, AfterDdr, Settled, PhyPlaces, PaPlaces,
         DdrPlaces
    <2>4. QED BY <1>0, <2>1, <2>3, MainOnly DEF OutOfPath, Programming
  <1>4. ASSUME NEW from \in OutOfPath \cup {"bypass"}, NEW to \in OutOfPath, NEW value, value.m = main.m,
               to \in {"powerdown", "powerup", "values"} \/ from \in {"reset", "release"},
               MainStep(from, to, value)
        PROVE  StartInv'
    <2>1. args' = args /\ result' = "none" /\ pc = from /\ pc' = to /\ main'.m = main.m /\ WantedM' = WantedM
      BY <1>0, <1>4 DEF MainStep, Goto, local, outcome, WantedM
    <2>2. pc' \notin AfterMain /\ (pc' \in AfterValues => pc \in AfterValues)
      BY <1>4, <2>1 DEF AfterValues, AfterMain, AfterPa, AfterDdr, Settled, PhyPlaces, PaPlaces, DdrPlaces,
         OutOfPath,
                        Programming
    <2>3. MainSet'
      BY <2>1, <2>2 DEF StartInv, MainSet, Past, Flagged
    <2>4. QED BY <2>1, <2>3, MainOnly
  <1>5. CASE EnterBypass
    BY <1>0, <1>4, <1>5 DEF EnterBypass, Bypassed, MainPll, OutOfPath, Programming
  <1>6. CASE PowerDown
    BY <1>0, <1>4, <1>6 DEF PowerDown, MainPll, OutOfPath, Programming
  <1>7. CASE PowerUp
    BY <1>0, <1>4, <1>7 DEF PowerUp, MainPll, OutOfPath, Programming
  <1>8. CASE ResetPll
    BY <1>0, <1>4, <1>8 DEF ResetPll, MainPll, OutOfPath, Programming
  <1>9. CASE ReleasePll
    BY <1>0, <1>4, <1>9 DEF ReleasePll, MainPll, OutOfPath, Programming
  <1>10. CASE EngagePll
    <2>1. args' = args /\ result' = "none" /\ pc = "engage" /\ pc' = "readback" /\ WantedM' = WantedM
          /\ main' = [main EXCEPT !.bypass = FALSE, !.pllen = TRUE]
      BY <1>0, <1>10 DEF EngagePll, MainStep, Goto, local, outcome, WantedM
    <2>2. main'.m = main.m /\ Selected'
      BY <1>0, <2>1 DEF MainPll, Selected
    <2>3. MainSet'
      BY <2>1, <2>2 DEF StartInv, MainSet, Past, Flagged, AfterValues
    <2>4. QED BY <2>1, <2>3, MainOnly
  <1>11. QED BY <1>1, <1>2, <1>3, <1>5, <1>6, <1>7, <1>8, <1>9, <1>10 DEF MainPllStep

(* The steps of the auxiliary PLLs leave done what start-up has done. *)
LEMMA AuxStepComplete ==
  ASSUME TypeInv, ClockInv, StartInv, NEW w \in {"pa", "ddr"}, AuxPllStep(w)
  PROVE  StartInv'
  <1> DEFINE v == IF w = "pa" THEN "ddr" ELSE "pa"
  <1>0. result = "none" /\ aux \in [{"pa", "ddr"} -> AuxPll] /\ dnum \in {0, 1}
    <2>1. pc \in StartUp
      BY StartUpStays DEF TypeInv, BoardTyped, BoardStep
    <2>2. QED BY <2>1 DEF TypeInv, BoardTyped, CallTyped, ClockInv, AuxInv
  <1>1. CASE AuxRefuse(w)
    BY <1>1, FailsComplete DEF AuxRefuse, Fail, Return
  <1>2. ASSUME NEW n \in 1 .. 4, NEW value, AuxStep(w, n, value)
        PROVE  /\ UNCHANGED <<args, dnum, main, ddr, mapped>> /\ result' = "none" /\ WantedM' = WantedM
               /\ pc = AuxPath[w][n] /\ pc' = (IF n < 4 THEN AuxPath[w][n + 1] ELSE AfterAux(w))
               /\ aux'[w] = value /\ aux'[v] = aux[v]
    BY <1>0, <1>2 DEF AuxStep, Goto, local, outcome, board, WantedM
  (* The main PLL has been set, and nothing after the PLLs has begun. *)
  <1>3. ASSUME UNCHANGED <<args, main>>, result' = "none", WantedM' = WantedM,
               pc \in PaPlaces \cup DdrPlaces, pc' \in PaPlaces \cup DdrPlaces \cup {"ddr", "looped"}
        PROVE  MainSet' /\ PhySet'
    <2>1. MainSet'
      BY <1>3 DEF StartInv, MainSet, Past, Flagged, Selected, AfterValues, AfterMain, AfterPa
    <2>2. PhySet'
      BY <1>3 DEF PhySet, Past, PaPlaces, DdrPlaces, PhyPlaces
    <2>3. QED BY <2>1, <2>2
  <1>4. CASE w = "pa"
    <2>1. ASSUME NEW n \in 1 .. 4, NEW value, AuxStep(w, n, value),
                 n = 1 => dnum = 0, n \in {2, 3, 4} => value.m = (IF n = 2 THEN PLLM_PASS ELSE aux["pa"].m),
                 n = 4 => ~ value.bypass
          PROVE  StartInv'
      <3>1. pc \in PaPlaces /\ pc' \in PaPlaces \cup {"ddrpll", "looped"} /\ (pc' = "looped" => "ddr" \notin args.flags)
            /\ (n = 1 => pc' = "paValues") /\ (n = 2 => pc' = "paRelease") /\ (n = 3 => pc' = "paEngage")
            /\ (n = 4 => pc' \in {"ddrpll", "looped"})
            /\ (n # 1 => pc \in {"paValues", "paRelease", "paEngage"})
            /\ (n \in {3, 4} => pc \in {"paRelease", "paEngage"})
        BY <1>2, <1>4, <2>1 DEF AuxPath, AfterAux, Flagged, PaPlaces
      <3>2. MainSet' /\ PhySet'
        BY <1>2, <1>3, <2>1, <3>1 DEF DdrPlaces
      <3>3. PaSet'
        <4>1. Flagged("pll")' <=> Flagged("pll")
          BY <1>2, <2>1 DEF Flagged
        <4>2. Flagged("pll") => dnum = 0
          BY <2>1, <3>1 DEF StartInv, PaSet, Past
        <4>3. Flagged("pll") /\ n \in {3, 4} => aux["pa"].m = PLLM_PASS
          BY <3>1 DEF StartInv, PaSet, Past
        <4>4. n = 1 => pc' \notin {"paRelease", "paEngage"} \cup AfterPa
          BY <3>1 DEF AfterPa, AfterDdr, Settled, PhyPlaces, DdrPlaces
        <4>5. n # 4 => pc' \notin AfterPa
          BY <2>1, <3>1 DEF AfterPa, AfterDdr, Settled, PhyPlaces, DdrPlaces
        <4>6. dnum' = dnum /\ aux'["pa"] = value /\ result' = "none"
          BY <1>2, <1>4, <2>1
        <4>7. Flagged("pll") /\ n # 1 => value.m = PLLM_PASS
          BY <2>1, <4>3
        <4>8. QED BY <2>1, <4>1, <4>2, <4>4, <4>5, <4>6, <4>7 DEF PaSet, Past
      <3>4. DdrSet'
        <4>1. args' = args /\ result' = "none"
          BY <1>2, <2>1
        <4>2. QED BY <3>1, <4>1 DEF DdrSet, Past, AfterDdr, Settled, PhyPlaces, PaPlaces, Flagged
      <3>5. QED BY <3>2, <3>3, <3>4 DEF StartInv
    <2>2. CASE AuxBypass(w)
      BY <2>1, <2>2 DEF AuxBypass
    <2>3. CASE AuxValues(w)
      <3> DEFINE value == [aux[w] EXCEPT !.m = AuxM[w], !.reset = TRUE, !.locked = FALSE]
      <3>1. value.m = PLLM_PASS /\ AuxStep(w, 2, value)
        BY <1>0, <1>4, <2>3 DEF AuxValues, AuxPll, AuxM
      <3> HIDE DEF value
      <3>2. QED BY <2>1, <3>1
    <2>4. CASE AuxRelease(w)
      <3> DEFINE value == [aux[w] EXCEPT !.reset = FALSE, !.locked = TRUE]
      <3>1. value.m = aux["pa"].m /\ AuxStep(w, 3, value)
        BY <1>0, <1>4, <2>4 DEF AuxRelease, AuxPll
      <3> HIDE DEF value
      <3>2. QED BY <2>1, <3>1
    <2>5. CASE AuxEngage(w)
      BY <1>0, <1>4, <2>1, <2>5 DEF AuxEngage, AuxPll
    <2>6. QED BY <1>1, <2>2, <2>3, <2>4, <2>5 DEF AuxPllStep
  <1>5. CASE w = "ddr"
    <2>1. ASSUME NEW n \in 1 .. 4, NEW value, AuxStep(w, n, value),
                 n \in {2, 3, 4} => value.m = (IF n = 2 THEN PLLM_DDR3 ELSE aux["ddr"].m),
                 n = 4 => ~ value.bypass
          PROVE  StartInv'
      <3>1. pc \in DdrPlaces /\ pc' \in DdrPlaces \cup {"ddr"}
            /\ (n = 1 => pc' = "ddrValues") /\ (n = 2 => pc' = "ddrRelease") /\ (n = 3 => pc' = "ddrEngage")
            /\ (n = 4 => pc' = "ddr")
            /\ (n \in {3, 4} => pc \in {"ddrRelease", "ddrEngage"})
        BY <1>2, <1>5, <2>1 DEF AuxPath, AfterAux, DdrPlaces
      <3>2. MainSet' /\ PhySet'
        BY <1>2, <1>3, <2>1, <3>1
      <3>3. PaSet'
        <4>1. args' = args /\ dnum' = dnum /\ aux'["pa"] = aux["pa"] /\ result' = "none"
          BY <1>2, <1>5, <2>1
        <4>2. QED BY <3>1, <4>1 DEF StartInv, PaSet, Past, Flagged, AfterPa
      <3>4. DdrSet'
        <4>1. args' = args /\ aux'["ddr"] = value /\ result' = "none"
          BY <1>2, <1>5, <2>1
        <4>2. {"pll", "ddr"} \subseteq args.flags /\ n \in {3, 4} => aux["ddr"].m = PLLM_DDR3
          BY <3>1 DEF StartInv, DdrSet, Past
        <4>3. pc' \notin {"looped"} \cup Settled /\ (n # 4 => pc' \notin AfterDdr)
              /\ (n = 1 => pc' \notin {"ddrRelease", "ddrEngage"})
          BY <2>1, <3>1 DEF AfterDdr, Settled, PhyPlaces, DdrPlaces
        <4>4. {"pll", "ddr"} \subseteq args.flags /\ n # 1 => value.m = PLLM_DDR3
          BY <2>1, <4>2
        <4>5. QED BY <2>1, <4>1, <4>3, <4>4 DEF DdrSet, Past
      <3>5. QED BY <3>2, <3>3, <3>4 DEF StartInv
    <2>2. CASE AuxBypass(w)
      BY <2>1, <2>2 DEF AuxBypass
    <2>3. CASE AuxValues(w)
      <3> DEFINE value == [aux[w] EXCEPT !.m = AuxM[w], !.reset = TRUE, !.locked = FALSE]
      <3>1. value.m = PLLM_DDR3 /\ AuxStep(w, 2, value)
        BY <1>0, <1>5, <2>3 DEF AuxValues, AuxPll, AuxM
      <3> HIDE DEF value
      <3>2. QED BY <2>1, <3>1
    <2>4. CASE AuxRelease(w)
      <3> DEFINE value == [aux[w] EXCEPT !.reset = FALSE, !.locked = TRUE]
      <3>1. value.m = aux["ddr"].m /\ AuxStep(w, 3, value)
        BY <1>0, <1>5, <2>4 DEF AuxRelease, AuxPll
      <3> HIDE DEF value
      <3>2. QED BY <2>1, <3>1
    <2>5. CASE AuxEngage(w)
      BY <1>0, <1>5, <2>1, <2>5 DEF AuxEngage, AuxPll
    <2>6. QED BY <1>1, <2>2, <2>3, <2>4, <2>5 DEF AuxPllStep
  <1>6. QED BY <1>4, <1>5

(* Past the PLLs. *)
LEMMA PllsComplete ==
  ASSUME StartInv, UNCHANGED <<args, dnum, main, aux>>, pc \in AfterDdr, pc' \in AfterDdr \/ result' = "EOK"
  PROVE  /\ MainSet' /\ PaSet'
         /\ {"pll", "ddr"} \subseteq args.flags => aux'["ddr"].m = PLLM_DDR3 /\ ~ aux'["ddr"].bypass
  <1>1. WantedM' = WantedM
    BY DEF WantedM
  <1>2. pc \in AfterPa /\ pc \in AfterMain /\ pc \in AfterValues
    BY DEF AfterPa, AfterMain, AfterValues
  <1>3. QED BY <1>1, <1>2 DEF StartInv, MainSet, PaSet, DdrSet, Past, Flagged, Selected

(* An attempt leaves nothing undone when it goes on. *)
LEMMA AttemptComplete ==
  ASSUME TypeInv, StartInv, InitDdr \/ LoopDone \/ TryAgain \/ GiveUp \/ SaveFrequency
  PROVE  StartInv'
  <1>0. result = "none"
    <2>1. pc \in StartUp
      BY StartUpStays DEF TypeInv, BoardTyped, BoardStep
    <2>2. QED BY <2>1 DEF TypeInv, BoardTyped, CallTyped
  <1>1. CASE InitDdr
    <2>1. UNCHANGED <<args, dnum, main, aux>> /\ result' = "none" /\ pc = "ddr" /\ pc' = "looped" /\ mapped' = TRUE
      BY <1>0, <1>1 DEF InitDdr, Goto, local, outcome
    <2>2. pc \in AfterDdr /\ pc' \in AfterDdr /\ pc' \notin Settled
      BY <2>1 DEF AfterDdr, Settled, PhyPlaces
    <2>3. DdrSet'
      BY <2>1, <2>2, PllsComplete DEF DdrSet, Past
    <2>4. PhySet'
      BY <2>1 DEF PhySet, Past, PhyPlaces
    <2>5. QED BY <2>1, <2>2, <2>3, <2>4, PllsComplete DEF StartInv
  <1>2. CASE LoopDone
    <2>1. UNCHANGED <<args, dnum, main, aux, ddr, mapped>> /\ result' = "none" /\ pc = "looped" /\ pc' = "frequency"
          /\ ({"pll", "ddr"} \subseteq args.flags => MemoryTest(ddr, Tested))
      BY <1>0, <1>2 DEF LoopDone, local, board
    <2>2. pc \in AfterDdr /\ pc' \in AfterDdr
      BY <2>1 DEF AfterDdr, Settled
    <2>3. DdrSet'
      <3>1. {"pll", "ddr"} \subseteq args.flags => Healthy(ddr, Tested)
        BY <2>1, MemoryTestExact DEF TypeInv, BoardTyped, HardTyped, Tested, Words
      <3>2. Flagged("ddr") => mapped
        BY <2>1 DEF StartInv, DdrSet, Past
      <3>3. QED BY <2>1, <2>2, <3>1, <3>2, PllsComplete DEF DdrSet, Flagged
    <2>4. PhySet'
      BY <2>1 DEF PhySet, Past, PhyPlaces
    <2>5. QED BY <2>1, <2>2, <2>3, <2>4, PllsComplete DEF StartInv
  <1>3. CASE TryAgain
    BY <1>0, <1>3, BeginsComplete DEF TryAgain
  <1>4. CASE GiveUp
    BY <1>4, FailsComplete DEF GiveUp
  <1>5. CASE SaveFrequency
    <2>1. UNCHANGED <<args, dnum, main, aux, ddr, mapped>> /\ result' = "none" /\ pc = "frequency" /\ pc' = "alwayson"
      BY <1>0, <1>5 DEF SaveFrequency, local, board
    <2>2. pc \in AfterDdr /\ pc' \in AfterDdr /\ pc \in Settled
      BY <2>1 DEF AfterDdr, Settled
    <2>3. DdrSet'
      BY <2>1, <2>2, PllsComplete DEF StartInv, DdrSet, Past, Flagged
    <2>4. PhySet'
      BY <2>1 DEF PhySet, Past, PhyPlaces
    <2>5. QED BY <2>1, <2>2, <2>3, <2>4, PllsComplete DEF StartInv
  <1>6. QED BY <1>1, <1>2, <1>3, <1>4, <1>5

(* The steps after the attempts do each what comes next. *)
LEMMA SettledComplete ==
  ASSUME TypeInv, StartInv,
         \/ (\E d \in Domain : StartDomain(d) \/ DomainDone(d)) \/ EnableEdc
         \/ ConfigSerdes \/ SerdesLocked \/ SoftReset \/ ConfigureSgmii \/ LinkIsUp \/ Negotiated
  PROVE  StartInv'
  <1>1. UNCHANGED <<args, dnum, main, aux, ddr, mapped>>
    BY DEF StartDomain, DomainDone, EnableEdc, ConfigSerdes, SerdesLocked, SoftReset, ConfigureSgmii, LinkIsUp,
           Negotiated, SgmiiStep, Goto, Return, local, board
  <1>2. pc \in Settled /\ result = "none"
    <2>1. pc \in Settled
      BY DEF StartDomain, DomainDone, EnableEdc, ConfigSerdes, SerdesLocked, SoftReset, ConfigureSgmii,
         LinkIsUp,
             Negotiated, Settled, PhyPlaces
    <2>2. QED BY <2>1 DEF StartUp, TypeInv, BoardTyped, CallTyped
  <1>3. pc' \in Settled \/ result' = "EOK"
    BY DEF StartDomain, DomainDone, EnableEdc, ConfigSerdes, SerdesLocked, SoftReset, ConfigureSgmii, LinkIsUp,
           Negotiated, SgmiiStep, Goto, Return, outcome, Settled, PhyPlaces
  <1>4. MainSet' /\ PaSet' /\ DdrSet'
    <2>1. pc \in AfterDdr /\ (pc' \in AfterDdr \/ result' = "EOK")
      BY <1>2, <1>3 DEF AfterDdr
    <2>2. MainSet' /\ PaSet'
      BY <1>1, <2>1, PllsComplete
    <2>3. {"pll", "ddr"} \subseteq args.flags => aux'["ddr"].m = PLLM_DDR3 /\ ~ aux'["ddr"].bypass
      BY <1>1, <2>1, PllsComplete
    <2>4. DdrSet'
      BY <1>1, <1>2, <1>3, <2>3 DEF StartInv, DdrSet, Past, Flagged
    <2>5. QED BY <2>2, <2>4
  <1>5. PhySet'
    <2>0. domain \in [Domain -> {"off", "turning", "on"}] /\ "PASS" \in Domain /\ "ALWAYSON" \in Domain
      BY DEF TypeInv, BoardTyped, HardTyped, Domain
    <2>1. ASSUME NEW d \in Domain, StartDomain(d) PROVE PhySet'
      <3>1. result' = "none" /\ domain' = [domain EXCEPT ![d] = "turning"] /\ d \in {"ALWAYSON", "PASS"}
            /\ \/ d = "PASS" /\ pc = "pass" /\ pc' = "passWait"
               \/ d = "ALWAYSON" /\ pc' = "alwaysonWait"
        BY <1>2, <2>1 DEF StartDomain, Goto, outcome, Domain
      <3>2. QED BY <2>0, <3>1 DEF StartInv, PhySet, Past, PhyPlaces
    <2>2. ASSUME NEW d \in Domain, DomainDone(d) PROVE PhySet'
      <3>1. result' = "none" /\ domain' = domain /\ domain[d] = "on"
            /\ \/ d = "PASS" /\ pc = "passWait" /\ pc' = "edc"
               \/ d = "ALWAYSON" /\ pc' = "pass"
        BY <1>2, <2>2 DEF DomainDone, Goto, outcome, board, Domain
      <3>2. QED BY <3>1 DEF StartInv, PhySet, Past, PhyPlaces
    <2>3. CASE EnableEdc
      <3>1. args' = args /\ domain' = domain /\ pc = "edc"
            /\ \/ pc' = "serdes" /\ result' = "none"
               \/ pc' = "idle" /\ ~ Flagged("phy")
        BY <1>2, <2>3 DEF EnableEdc, Goto, Return, outcome, local
      <3>2. QED BY <3>1 DEF StartInv, PhySet, Past, PhyPlaces, Flagged
    <2>4. CASE ConfigSerdes
      <3>1. domain' = domain /\ pc = "serdes" /\ pc' = "lock0" /\ result' = "none"
        BY <1>2, <2>4 DEF ConfigSerdes, Goto, outcome
      <3>2. QED BY <3>1 DEF StartInv, PhySet, Past, PhyPlaces
    <2>5. CASE SerdesLocked
      <3>1. domain' = domain /\ serdes' = serdes /\ result' = "none"
            /\ \/ pc = "lock0" /\ 0 \in serdes /\ pc' = "lock1"
               \/ pc = "lock1" /\ 1 \in serdes /\ pc' = "softreset"
        BY <1>2, <2>5 DEF SerdesLocked, Goto, outcome, board
      <3>2. QED BY <3>1 DEF StartInv, PhySet, Past, PhyPlaces
    <2>6. CASE SoftReset \/ ConfigureSgmii \/ LinkIsUp
      <3>1. domain' = domain /\ serdes' = serdes /\ result' = "none"
            /\ pc \in {"softreset", "configure", "link"} /\ pc' \in {"configure", "link", "negotiate"}
        BY <1>2, <2>6 DEF SoftReset, ConfigureSgmii, LinkIsUp, SgmiiStep, Goto, outcome
      <3>2. QED BY <3>1 DEF StartInv, PhySet, Past, PhyPlaces
    <2>7. CASE Negotiated
      <3>1. domain' = domain /\ serdes' = serdes /\ sgmii' = sgmii /\ pc = "negotiate" /\ pc' = "idle"
            /\ sgmii.neg \in {"complete", "error"}
        BY <2>7 DEF Negotiated, Return, board
      <3>2. serdes \subseteq {0, 1}
        BY DEF TypeInv, BoardTyped, HardTyped
      <3>3. QED BY <3>1, <3>2 DEF StartInv, PhySet, Past, PhyPlaces
    <2>8. QED BY <2>1, <2>2, <2>3, <2>4, <2>5, <2>6, <2>7
  <1>6. QED BY <1>4, <1>5 DEF StartInv

(* The hardware undoes nothing of what start-up has done. *)
LEMMA HardwareComplete ==
  ASSUME TypeInv, StartInv, Hardware
  PROVE  StartInv'
  <1>1. UNCHANGED <<pc, args, dnum, result, main, aux, ddr, mapped>>
    BY DEF Hardware, local, outcome
  <1>2. MainSet' /\ PaSet' /\ DdrSet'
    BY <1>1 DEF StartInv, MainSet, PaSet, DdrSet, Past, Flagged, Selected, WantedM
  <1>3. /\ \A d \in Domain : domain[d] = "on" => domain'[d] = "on"
        /\ serdes \subseteq serdes' /\ (serdes' # serdes => pc \in {"lock0", "lock1"})
        /\ sgmii.neg \in {"complete", "error"} => sgmii'.neg \in {"complete", "error"}
    BY DEF Hardware, TypeInv, BoardTyped, HardTyped, Sgmii
  <1>4. result = "EOK" => pc \notin {"lock0", "lock1"}
    BY DEF TypeInv, BoardTyped, CallTyped, StartUp, Settled, PhyPlaces
  <1>5. PhySet'
    BY <1>1, <1>3, <1>4 DEF StartInv, PhySet, Past, Flagged, Domain
  <1>6. QED BY <1>2, <1>5 DEF StartInv

(* Every step keeps what start-up has done so far. *)
LEMMA StartKept ==
  ASSUME TypeInv, ClockInv, StartInv, [Next]_vars
  PROVE  StartInv'
  <1>1. CASE InitStep
    BY <1>1, MainStepComplete, AuxStepComplete, AttemptComplete, SettledComplete, HardwareComplete
       DEF InitStep, BoardStep
  <1>2. CASE CallInit
    <2>1. CASE Refuse
      BY <2>1, FailsComplete DEF Refuse
    <2>2. ASSUME NEW a \in Arguments, Start(a) PROVE StartInv'
      BY <2>2, BeginsComplete DEF Start
    <2>3. QED BY <1>2, <2>1, <2>2 DEF CallInit
  <1>3. CASE UNCHANGED vars
    BY <1>3, StillComplete DEF vars, boardvars, local, outcome
  <1>4. CASE GetInfo
    BY <1>4, StillComplete DEF GetInfo, AtOnce, local
  <1>5. CASE (\E us \in Usecs : Delay(us)) \/ Spin \/ DelayReturns
    BY <1>5, OtherPlaces, StillComplete DEF Delay, Spin, DelayReturns, still, local, outcome, Become, Done
  <1>6. CASE UartStep
    <2>1. UNCHANGED <<args, dnum, result, main, aux, board>>
      BY <1>6 DEF UartStep, UartInit, SetBaudrate, Arrive, UartReadNowhere, UartRead, UartReady,
                  UartNotReady, UartDelayOver, UartTimeout, still, local, outcome
    <2>2. pc' = pc \/ pc' \in NotStartUp
      BY <1>6, OtherPlaces DEF UartStep, UartInit, SetBaudrate, Arrive, UartReadNowhere, UartRead, UartReady,
                       UartNotReady, UartDelayOver, UartTimeout, AtOnce, Call, Become, Done
    <2>3. QED BY <2>1, <2>2, StillComplete
  <1>7. CASE WriteStep
    <2>1. UNCHANGED <<args, dnum, result, main, aux, board>>
      BY <1>7 DEF WriteStep, Configure, WriteTooLong, Write, UartWrite, WriteData, WriteReturns, Transmit, still, local,
         outcome
    <2>2. pc' = pc \/ pc' \in NotStartUp
      BY <1>7, OtherPlaces DEF WriteStep, Configure, WriteTooLong, Write, UartWrite, WriteData, WriteReturns, Transmit,
                       AtOnce, Call, Become, Done
    <2>3. QED BY <2>1, <2>2, StillComplete
  <1>8. CASE TestStep
    <2>1. UNCHANGED <<args, dnum, result, main, aux, board>>
      BY <1>8 DEF TestStep, ExternalTest, InternalRefused, InternalTest, TestL1, InternalReturns, still,
         local, outcome
    <2>2. pc' = pc \/ pc' \in NotStartUp
      BY <1>8, OtherPlaces DEF TestStep, ExternalTest, InternalRefused, InternalTest, TestL1, InternalReturns,
                       AtOnce, Call, Become, Done
    <2>3. QED BY <2>1, <2>2, StillComplete
  <1>9. QED BY <1>1, <1>2, <1>3, <1>4, <1>5, <1>6, <1>7, <1>8 DEF Next

(* Nothing is claimed of start-up before it is called. *)
LEMMA InitComplete == Init => StartInv
  <1> SUFFICES ASSUME Init PROVE StartInv
    OBVIOUS
  <1>1. pc = "idle" /\ result = "none" /\ "idle" \notin StartUp
    BY OtherPlaces DEF NotStartUp, Init, BoardInitial
  <1>2. QED BY <1>1 DEF StartInv, MainSet, PaSet, DdrSet, PhySet, Past, AfterValues, AfterMain, AfterPa,
       AfterDdr,
                        StartUp, Attempt, Settled, OutOfPath, Programming

(* When platform_init reports success, everything that its flags ask for   *)
(* has been done, in whatever state the boot ROM and earlier calls have    *)
(* left the board, after any number of attempts, and for as long as no     *)
(* other call of platform_init is made (platform.c:365-470).               *)
THEOREM StartUpSucceeds == Spec => []StartUpComplete
  <1>1. Spec => [](TypeInv /\ ClockInv /\ StartInv)
    <2>1. TypeInv /\ ClockInv /\ StartInv /\ [Next]_vars => (TypeInv /\ ClockInv /\ StartInv)'
      BY BoardTypedKept, ServiceTypedKept, PlaceOpKept, NextClock, StartKept DEF TypeInv
    <2>2. Init => TypeInv /\ ClockInv /\ StartInv
      BY InitTyped, InitClock, InitComplete
    <2>3. QED BY <2>1, <2>2, PTL DEF Spec
  <1>2. TypeInv /\ StartInv => StartUpComplete
    <2> SUFFICES ASSUME TypeInv, StartInv, pc = "idle", result = "EOK" PROVE StartUpComplete
      BY DEF StartUpComplete
    <2>1. Flagged("pll") =>
            /\ dnum = 0 /\ Selected /\ ~ aux["pa"].bypass /\ aux["pa"].m = PLLM_PASS
            /\ WantedM <= PLLM_MAX => main.m = WantedM
      BY DEF StartInv, MainSet, PaSet, Past
    <2>2. Flagged("pll") /\ current /\ Understood /\ main.div = 0 /\ main.post = 1 => frequency = TrueClock \div CLK_UNIT
      <3> SUFFICES ASSUME Flagged("pll"), current, Understood, main.div = 0, main.post = 1
           PROVE frequency = TrueClock \div CLK_UNIT
        OBVIOUS
      <3>1. frequency = Measured
        BY DEF TypeInv, BoardTyped, FrequencyTyped
      <3>2. main \in MainPll
        BY DEF TypeInv, BoardTyped, HardTyped
      <3>3. QED BY <2>1, <3>1, <3>2, MeasuredIsTrue
    <2>3. (Flagged("ddr") => mapped) /\ ({"pll", "ddr"} \subseteq args.flags =>
            ~ aux["ddr"].bypass /\ aux["ddr"].m = PLLM_DDR3 /\ Healthy(ddr, Tested))
      BY DEF StartInv, DdrSet, Past
    <2>4. (\A d \in Domain : domain[d] = "on")
          /\ (Flagged("phy") => serdes = {0, 1} /\ sgmii.neg \in {"complete", "error"})
      BY DEF StartInv, PhySet, Past, Domain
    <2>5. QED BY <2>1, <2>2, <2>3, <2>4 DEF StartUpComplete
  <1>3. QED BY <1>1, <1>2, PTL

-----------------------------------------------------------------------------
(* The UART: what is written is due, sent or discarded.                    *)
(* Nothing is left to write between the calls, and after a byte has been   *)
(* discarded none waits.                                                   *)
LostInv ==
  /\ pc # "write" => todo = <<>>
  /\ lost \in Seq(Byte) /\ Len(lost) <= 1
  /\ lost # <<>> => thr = <<>> /\ todo = <<>>

(* Only platform_write and platform_uart_write are at the place "write". *)
LEMMA WritingStays ==
  ASSUME TypeInv, [Next]_vars, ~ WriteStep, ~ UartInit
  PROVE  UNCHANGED <<todo, thr, line, due, lost>> /\ (pc = "write" => pc' = "write")
  <1>0. "write" \notin StartUp
    BY OtherPlaces DEF NotStartUp
  <1>1. CASE InitStep
    <2>1. UNCHANGED writer
      BY <1>1 DEF InitStep, servicevars
    <2>2. pc = "write" => pc' = "write"
      <3>1. CASE BoardStep
        BY <1>0, <3>1, StartUpStays DEF TypeInv, BoardTyped
      <3>2. CASE Hardware
        BY <3>2 DEF Hardware
      <3>3. QED BY <1>1, <3>1, <3>2 DEF InitStep
    <2>3. QED BY <2>1, <2>2 DEF writer
  <1>2. CASE CallInit \/ GetInfo \/ (\E us \in Usecs : Delay(us)) \/ Spin \/ DelayReturns
    <2>1. UNCHANGED writer
      BY <1>2 DEF CallInit, GetInfo, Delay, Spin, DelayReturns
    <2>2. pc # "write"
      BY <1>2 DEF CallInit, Refuse, Start, GetInfo, Delay, Spin, DelayReturns, AtOnce, Call
    <2>3. QED BY <2>1, <2>2 DEF writer
  <1>3. CASE UartStep
    <2>1. UNCHANGED writer
      BY <1>3 DEF UartStep, SetBaudrate, Arrive, UartReadNowhere, UartRead, UartReady,
                  UartNotReady, UartDelayOver, UartTimeout
    <2>2. pc # "write"
      BY <1>3 DEF UartStep, UartInit, SetBaudrate, Arrive, UartReadNowhere, UartRead, UartReady,
                  UartNotReady, UartDelayOver, UartTimeout, AtOnce, Call
    <2>3. QED BY <2>1, <2>2 DEF writer
  <1>4. CASE TestStep
    <2>1. UNCHANGED writer
      BY <1>4 DEF TestStep, ExternalTest, InternalRefused, InternalTest, TestL1, InternalReturns
    <2>2. pc # "write"
      BY <1>4 DEF TestStep, ExternalTest, InternalRefused, InternalTest, TestL1, InternalReturns, AtOnce, Call
    <2>3. QED BY <2>1, <2>2 DEF writer
  <1>5. CASE UNCHANGED vars
    BY <1>5 DEF vars, boardvars, servicevars, writer
  <1>6. QED BY <1>1, <1>2, <1>3, <1>4, <1>5 DEF Next

(* Every step keeps that. *)
LEMMA LostKept ==
  ASSUME TypeInv, LostInv, [Next]_vars
  PROVE  LostInv'
  <1>0. thr \in Seq(Byte) /\ Len(thr) <= 1 /\ todo \in Seq(Byte) /\ lost \in Seq(Byte) /\ Len(lost) <= 1
    BY DEF TypeInv, ServiceTyped, LostInv
  <1>1. CASE UartInit
    <2>1. pc = "idle" /\ pc' = pc /\ todo' = todo /\ thr' = <<>> /\ lost' = lost \o thr
      BY <1>1 DEF UartInit, AtOnce, Call
    <2>2. lost \o thr \in Seq(Byte) /\ Len(lost \o thr) <= 1
      <3>1. CASE lost = <<>>
        BY <1>0, <3>1
      <3>2. CASE lost # <<>>
        BY <1>0, <3>2 DEF LostInv
      <3>3. QED BY <3>1, <3>2
    <2>3. QED BY <2>1, <2>2 DEF LostInv
  <1>2. ASSUME (\E msg \in Messages : Write(msg)) \/ UartWrite PROVE LostInv'
    <2>1. pc' = "write" /\ lost' = <<>>
      BY <1>2 DEF Write, UartWrite
    <2>2. QED BY <2>1 DEF LostInv
  <1>3. CASE WriteData
    <2>1. pc' = "write" /\ todo # <<>> /\ lost' = lost
      BY <1>3 DEF WriteData, Become
    <2>2. lost = <<>>
      BY <2>1 DEF LostInv
    <2>3. QED BY <2>1, <2>2 DEF LostInv
  <1>4. CASE WriteReturns
    BY <1>4 DEF WriteReturns, Done, LostInv, writer
  <1>5. CASE Transmit
    BY <1>5 DEF Transmit, LostInv
  <1>6. CASE (\E w \in {"UART", "ALL", "PRINTF"} : Configure(w)) \/ WriteTooLong
    BY <1>6 DEF Configure, WriteTooLong, AtOnce, Call, LostInv, writer
  <1>7. CASE ~ WriteStep /\ ~ UartInit
    BY <1>7, WritingStays DEF LostInv
  <1>8. QED BY <1>1, <1>2, <1>3, <1>4, <1>5, <1>6, <1>7 DEF WriteStep

(* Every step keeps what is due on its way. *)
LEMMA WritesKept ==
  ASSUME TypeInv, LostInv, WritesInOrder, [Next]_vars
  PROVE  line' \o lost' \o thr' \o todo' = due'
  <1>0. line \in Seq(Byte) /\ thr \in Seq(Byte) /\ todo \in Seq(Byte) /\ lost \in Seq(Byte)
        /\ line \o lost \o thr \o todo = due
    BY DEF TypeInv, ServiceTyped, LostInv, WritesInOrder
  <1>1. CASE ~ WriteStep /\ ~ UartInit
    BY <1>0, <1>1, WritingStays
  <1>2. CASE UartInit
    <2>1. line' = line /\ lost' = lost \o thr /\ thr' = <<>> /\ todo' = todo /\ due' = due
      BY <1>2 DEF UartInit
    <2>2. line \o (lost \o thr) = (line \o lost) \o thr
      BY <1>0, SMTT(60)
    <2>3. (line \o lost \o thr) \o <<>> = line \o lost \o thr
      BY <1>0
    <2>4. QED BY <1>0, <2>1, <2>2, <2>3
  <1>3. ASSUME (\E msg \in Messages : Write(msg)) \/ UartWrite PROVE line' \o lost' \o thr' \o todo' = due'
    <2>1. line' = <<>> /\ lost' = <<>> /\ thr' = thr /\ due' = thr \o todo'
      BY <1>3 DEF Write, UartWrite
    <2>2. <<>> \o <<>> \o thr = thr
      BY <1>0
    <2>3. QED BY <2>1, <2>2
  <1>4. CASE WriteData
    <2>1. thr = <<>> /\ todo # <<>> /\ thr' = <<Head(todo)>> /\ todo' = Tail(todo) /\ UNCHANGED <<line, lost, due>>
      BY <1>4 DEF WriteData, Empty
    <2>2. <<Head(todo)>> \o Tail(todo) = todo /\ <<Head(todo)>> \in Seq(Byte) /\ Tail(todo) \in Seq(Byte)
      BY <1>0, <2>1
    <2>3. line \o lost \in Seq(Byte)
      BY <1>0
    <2>4. ((line \o lost) \o <<Head(todo)>>) \o Tail(todo) = (line \o lost) \o (<<Head(todo)>> \o Tail(todo))
      BY <2>2, <2>3, SMTT(60)
    <2>5. (line \o lost) \o <<>> = line \o lost
      BY <2>3
    <2>6. QED BY <1>0, <2>1, <2>2, <2>4, <2>5
  <1>5. CASE Transmit
    <2>1. line' = line \o thr /\ thr' = <<>> /\ thr # <<>> /\ UNCHANGED <<lost, todo, due>>
      BY <1>5 DEF Transmit
    <2>2. lost = <<>>
      BY <2>1 DEF LostInv
    <2>3. (line \o thr) \o <<>> \o <<>> = line \o thr /\ line \o <<>> = line
      BY <1>0
    <2>4. QED BY <1>0, <2>1, <2>2, <2>3
  <1>6. CASE (\E w \in {"UART", "ALL", "PRINTF"} : Configure(w)) \/ WriteTooLong \/ WriteReturns
    BY <1>0, <1>6 DEF Configure, WriteTooLong, WriteReturns, writer
  <1>7. QED BY <1>1, <1>2, <1>3, <1>4, <1>5, <1>6 DEF WriteStep

Arrived(n) == [i \in 1 .. n |-> i]

(* The oldest byte goes from the receiver to the caller. *)
LEMMA ReadDataKept ==
  ASSUME ServiceTyped, got \o rx = Arrived(arrived), ReadData
  PROVE  /\ got' \o rx' = Arrived(arrived')
         /\ rx # <<>> => got' # <<>> /\ buf' = Last(got')
  <1>0. got \in Seq(Nat) /\ rx \in Seq(Nat)
    BY DEF ServiceTyped
  <1>1. CASE rx = <<>>
    BY <1>1 DEF ReadData
  <1>2. CASE rx # <<>>
    <2>1. rx' = Tail(rx) /\ got' = Append(got, Head(rx)) /\ arrived' = arrived /\ buf' = Head(rx)
      BY <1>2 DEF ReadData
    <2>2. Append(got, Head(rx)) \o Tail(rx) = got \o rx
      <3>1. Head(rx) \in Nat /\ Tail(rx) \in Seq(Nat) /\ rx = <<Head(rx)>> \o Tail(rx)
        BY <1>0, <1>2
      <3>2. Append(got, Head(rx)) = got \o <<Head(rx)>>
        BY <1>0, <3>1
      <3>3. (got \o <<Head(rx)>>) \o Tail(rx) = got \o (<<Head(rx)>> \o Tail(rx))
        BY <1>0, <3>1
      <3>4. QED BY <3>1, <3>2, <3>3
    <2>3. Append(got, Head(rx)) # <<>> /\ Last(Append(got, Head(rx))) = Head(rx)
      <3>1. Head(rx) \in Nat
        BY <1>0, <1>2
      <3>2. Append(got, Head(rx))[Len(got) + 1] = Head(rx) /\ Len(Append(got, Head(rx))) = Len(got) + 1
        BY <1>0, <3>1
      <3>3. QED BY <1>0, <3>1, <3>2 DEF Last
    <2>4. QED BY <2>1, <2>2, <2>3
  <1>3. QED BY <1>1, <1>2

(* Every step keeps the characters read in order. *)
LEMMA ReadsKept ==
  ASSUME TypeInv, ReadsInOrder, [Next]_vars
  PROVE  ReadsInOrder'
  <1>0. got \in Seq(Nat) /\ rx \in Seq(Nat) /\ arrived \in Nat /\ got \o rx = Arrived(arrived)
    BY DEF TypeInv, ServiceTyped, ReadsInOrder, Arrived
  <1>1. ASSUME UNCHANGED <<got, rx, arrived, buf>>,
               pc' = "idle" /\ op' = "uartread" /\ ret' = "EOK" => pc = "idle" /\ op = "uartread" /\ ret = "EOK"
        PROVE  ReadsInOrder'
    BY <1>1 DEF ReadsInOrder
  <1>2. CASE InitStep
    <2>1. UNCHANGED <<got, rx, arrived, buf, op, ret>>
      BY <1>2 DEF InitStep, servicevars, uart
    <2>2. CASE Hardware
      BY <1>1, <2>1, <2>2 DEF Hardware
    <2>3. CASE BoardStep
      <3>1. op = "init"
        BY <2>3, StartUpStays DEF TypeInv, BoardTyped, PlaceOp
      <3>2. QED BY <1>1, <2>1, <3>1
    <2>4. QED BY <1>2, <2>2, <2>3 DEF InitStep
  <1>3. CASE CallInit \/ GetInfo \/ (\E us \in Usecs : Delay(us)) \/ Spin \/ DelayReturns \/ UNCHANGED vars
    <2>1. UNCHANGED <<got, rx, arrived, buf>>
      BY <1>3 DEF CallInit, GetInfo, Delay, Spin, DelayReturns, vars, servicevars, uart
    <2>2. CASE CallInit \/ GetInfo \/ \E us \in Usecs : Delay(us)
      <3>1. op' # "uartread"
        BY <2>2 DEF CallInit, GetInfo, Delay, AtOnce, Call
      <3>2. QED BY <1>1, <2>1, <3>1
    <2>3. CASE Spin
      BY <1>1, <2>1, <2>3 DEF Spin, Become
    <2>4. CASE DelayReturns
      <3>1. op' = "delay"
        BY <2>4 DEF DelayReturns, Done, TypeInv, PlaceOp
      <3>2. QED BY <1>1, <2>1, <3>1
    <2>5. CASE UNCHANGED vars
      BY <1>1, <2>5 DEF vars, boardvars, servicevars, uart
    <2>6. QED BY <1>3, <2>2, <2>3, <2>4, <2>5
  <1>4. CASE WriteStep \/ TestStep
    <2>1. UNCHANGED <<got, rx, arrived, buf>>
      BY <1>4 DEF WriteStep, Configure, WriteTooLong, Write, UartWrite, WriteData, WriteReturns, Transmit,
                  TestStep, ExternalTest, InternalRefused, InternalTest, TestL1, InternalReturns, uart
    <2>2. \/ op' \in {"configure", "write", "uartwrite", "external", "internal"}
          \/ UNCHANGED <<pc, op, ret>>
      BY <1>4 DEF WriteStep, Configure, WriteTooLong, Write, UartWrite, WriteData, WriteReturns, Transmit, AtOnce, Call,
         Done, Become,
                  TestStep, ExternalTest, InternalRefused, InternalTest, TestL1, InternalReturns, TypeInv,
                  PlaceOp
    <2>3. QED BY <1>1, <2>1, <2>2
  <1>5. CASE UartInit
    <2>1. got' = <<>> /\ rx' = <<>> /\ arrived' = 0 /\ op' = "uartinit"
      BY <1>5 DEF UartInit, AtOnce, Call
    <2>2. <<>> \o <<>> = [i \in 1 .. 0 |-> i]
      OBVIOUS
    <2>3. QED BY <2>1, <2>2 DEF ReadsInOrder
  <1>6. CASE Arrive
    <2>1. got' = got /\ rx' = Append(rx, arrived + 1) /\ arrived' = arrived + 1 /\ pc' = pc /\ pc # "idle"
      BY <1>6 DEF Arrive
    <2>2. got \o Append(rx, arrived + 1) = Append(got \o rx, arrived + 1)
      BY <1>0
    <2>3. Append(Arrived(arrived), arrived + 1) = Arrived(arrived + 1)
      BY <1>0 DEF Arrived
    <2>4. QED BY <1>0, <2>1, <2>2, <2>3 DEF ReadsInOrder, Arrived
  <1>7. CASE UartReady \/ UartTimeout
    <2>1. ReadData /\ pc' = "idle" /\ (ret' = "EOK" => rx # <<>>)
      BY <1>7 DEF UartReady, UartTimeout, Done
    <2>2. got' \o rx' = Arrived(arrived') /\ (rx # <<>> => got' # <<>> /\ buf' = Last(got'))
      BY <1>0, <2>1, ReadDataKept DEF TypeInv
    <2>3. QED BY <2>1, <2>2 DEF ReadsInOrder, Arrived
  <1>8. CASE (\E b \in {19200, 115200} : SetBaudrate(b)) \/ UartReadNowhere \/ (\E us \in Usecs : UartRead(us))
             \/ UartNotReady \/ UartDelayOver
    <2>1. UNCHANGED <<got, rx, arrived, buf>>
      BY <1>8 DEF SetBaudrate, UartReadNowhere, UartRead, UartNotReady, UartDelayOver, uart
    <2>2. op' = "baudrate" \/ ret' = "EINVALID" \/ pc' # "idle"
      BY <1>8 DEF SetBaudrate, UartReadNowhere, UartRead, UartNotReady, UartDelayOver, AtOnce, Call, Become
    <2>3. QED BY <1>1, <2>1, <2>2
  <1>9. QED BY <1>2, <1>3, <1>4, <1>5, <1>6, <1>7, <1>8 DEF Next, UartStep

-----------------------------------------------------------------------------
(* The memory tests. *)
TestInv ==
  /\ TestsTrue
  /\ pc \in {"l1p", "l1d", "restore"} =>
       l1 \in Chip \X Chip /\ range = Cell /\ saved = before /\ status \in {"EOK", "EFAIL"}
  /\ pc = "l1p" => status = "EOK"
  /\ pc = "l1d" => (status = "EOK" <=> Healthy(l1[1], Cell))
  /\ pc = "restore" => (status = "EOK" <=> (Healthy(l1[1], Cell) /\ Healthy(l1[2], Cell)))

(* platform_external_memory_test says whether the words it was given work. *)
LEMMA ExternalExact ==
  ASSUME TypeInv, NEW r \in Ranges, ExternalTest(r[1], r[2])
  PROVE  /\ ddr' = ddr /\ op' = "external" /\ pc' = "idle"
         /\ ret' \in {"EOK", "EFAIL"} => (ret' = "EOK" <=> Healthy(ddr, range'))
  <1> DEFINE first == r[1]
             end == r[2]
             whole == first = 0 /\ end = 0
             lo == IF whole THEN DDR_START ELSE first
             hi == IF whole THEN DDR_END - 1 ELSE end
             good == MemoryTest(ddr, Words(lo, hi))
  <1>1. ddr' = ddr /\ op' = "external" /\ pc' = "idle"
    BY DEF ExternalTest, AtOnce, Call, board
  <1>2. ret' \in {"EOK", "EFAIL"} => (ret' = "EOK" <=> good)
    BY DEF ExternalTest, AtOnce
  <1>3. range' = IF whole THEN Cell ELSE Words(first, end)
    BY DEF ExternalTest
  <1>4. range' = Words(lo, hi)
    <2>1. CASE whole
      <3>1. \A c \in Cell : c \in Nat /\ DDR_START <= c /\ c < DDR_END - 1 /\ DDR_END \in Nat
        BY BoardAssumption, ServicesAssumption
      <3>2. QED BY <1>3, <2>1, <3>1 DEF Words
    <2>2. CASE ~ whole
      BY <1>3, <2>2
    <2>3. QED BY <2>1, <2>2
  <1>5. good <=> Healthy(ddr, Words(lo, hi))
    <2>1. Words(lo, hi) \in SUBSET Cell /\ ddr \in Chip
      BY DEF Words, TypeInv, BoardTyped, HardTyped
    <2>2. QED BY <2>1, MemoryTestExact
  <1>6. QED BY <1>1, <1>2, <1>4, <1>5

(* Each half of the test of the level-one memories remembers what it found. *)
LEMMA TestL1Kept ==
  ASSUME TestInv, NEW at, NEW chip, NEW next, TestL1(at, chip, next),
         \/ at = "l1p" /\ chip = l1[1] /\ next = "l1d"
         \/ at = "l1d" /\ chip = l1[2] /\ next = "restore"
  PROVE  TestInv'
  <1>1. /\ pc = at /\ pc' = next /\ UNCHANGED <<range, saved, before, l1, psc>>
        /\ \/ MemoryTest(chip, range) /\ status' = status
           \/ ~ MemoryTest(chip, range) /\ status' = "EFAIL"
    BY DEF TestL1, Become
  <1>2. l1 \in Chip \X Chip /\ range = Cell /\ saved = before /\ status \in {"EOK", "EFAIL"}
    BY <1>1 DEF TestInv
  <1>3. MemoryTest(chip, range) <=> Healthy(chip, Cell)
    <2>1. chip \in Chip /\ Cell \in SUBSET Cell
      BY <1>2
    <2>2. QED BY <1>2, <2>1, MemoryTestExact
  <1>4. status' \in {"EOK", "EFAIL"} /\ (status' = "EOK" <=> (status = "EOK" /\ Healthy(chip, Cell)))
    BY <1>1, <1>2, <1>3
  <1>5. CASE at = "l1p"
    <2>1. (status' = "EOK" <=> Healthy(l1[1], Cell)) /\ pc' = "l1d"
      BY <1>1, <1>4, <1>5 DEF TestInv
    <2>2. QED BY <1>1, <1>2, <1>4, <2>1 DEF TestInv, TestsTrue
  <1>6. CASE at = "l1d"
    <2>1. (status' = "EOK" <=> (Healthy(l1[1], Cell) /\ Healthy(l1[2], Cell))) /\ pc' = "restore"
      BY <1>1, <1>4, <1>6 DEF TestInv
    <2>2. QED BY <1>1, <1>2, <1>4, <2>1 DEF TestInv, TestsTrue
  <1>7. QED BY <1>5, <1>6

(* Every step keeps the verdict of the memory tests exact. *)
LEMMA TestsKept ==
  ASSUME TypeInv, TestInv, [Next]_vars
  PROVE  TestInv'
  (* A step that neither tests nor returns from a test. *)
  <1>1. ASSUME UNCHANGED <<range, psc, saved, before, status, l1>>,
               pc' \in {"l1p", "l1d", "restore"} => pc' = pc,
               pc' = "idle" /\ op' \in {"external", "internal"} /\ ret' \in {"EOK", "EFAIL"} =>
                 pc = "idle" /\ op' = op /\ ret' = ret /\ ddr' = ddr
        PROVE  TestInv'
    BY <1>1 DEF TestInv, TestsTrue
  <1>2. CASE InitStep
    <2>1. UNCHANGED <<range, psc, saved, before, status, l1, op, ret>>
      BY <1>2 DEF InitStep, servicevars, power
    <2>2. CASE Hardware
      BY <1>1, <2>1, <2>2 DEF Hardware
    <2>3. CASE BoardStep
      <3>1. op = "init" /\ pc' \in StartUp \cup {"idle"}
        BY <2>3, StartUpStays DEF TypeInv, BoardTyped, PlaceOp
      <3>2. pc' \notin {"l1p", "l1d", "restore"}
        BY <3>1, OtherPlaces DEF NotStartUp
      <3>3. QED BY <1>1, <2>1, <3>1, <3>2
    <2>4. QED BY <1>2, <2>2, <2>3 DEF InitStep
  <1>3. CASE CallInit
    <2>1. UNCHANGED <<range, psc, saved, before, status, l1>> /\ op' = "init" /\ pc' \in StartUp \cup {"idle"}
      BY <1>3, FirstPlace DEF CallInit, power, Refuse, Start, StartUp
    <2>2. pc' \notin {"l1p", "l1d", "restore"}
      BY <2>1, OtherPlaces DEF NotStartUp
    <2>3. QED BY <1>1, <2>1, <2>2
  <1>4. CASE GetInfo \/ (\E us \in Usecs : Delay(us)) \/ Spin \/ DelayReturns \/ UNCHANGED vars
    <2>1. UNCHANGED <<range, psc, saved, before, status, l1>>
      BY <1>4 DEF GetInfo, Delay, Spin, DelayReturns, vars, servicevars, power
    <2>2. \/ op' \in {"info", "delay"} /\ pc' \in {"idle", "delay"}
          \/ pc' = pc /\ pc # "idle"
          \/ UNCHANGED <<pc, op, ret, ddr>>
      BY <1>4 DEF GetInfo, Delay, Spin, DelayReturns, vars, boardvars, board, servicevars, AtOnce, Call,
         Become, Done,
                  TypeInv, PlaceOp
    <2>3. QED BY <1>1, <2>1, <2>2
  <1>5. CASE UartStep
    <2>1. UNCHANGED <<range, psc, saved, before, status, l1>>
      BY <1>5 DEF UartStep, UartInit, SetBaudrate, Arrive, UartReadNowhere, UartRead, UartReady,
                  UartNotReady, UartDelayOver, UartTimeout, power
    <2>2. op' \in {"uartinit", "baudrate", "uartread"} /\ pc' \in {"idle", "uartread", "uartDelay", "uartTimeout"}
      BY <1>5 DEF UartStep, UartInit, SetBaudrate, Arrive, UartReadNowhere, UartRead, UartReady,
                  UartNotReady, UartDelayOver, UartTimeout, AtOnce, Call, Become, Done, TypeInv, PlaceOp
    <2>3. QED BY <1>1, <2>1, <2>2
  <1>6. CASE WriteStep
    <2>1. UNCHANGED <<range, psc, saved, before, status, l1>>
      BY <1>6 DEF WriteStep, Configure, WriteTooLong, Write, UartWrite, WriteData, WriteReturns, Transmit, power
    <2>2. \/ op' \in {"configure", "write", "uartwrite"} /\ pc' \in {"idle", "write"}
          \/ UNCHANGED <<pc, op, ret, ddr>>
      BY <1>6 DEF WriteStep, Configure, WriteTooLong, Write, UartWrite, WriteData, WriteReturns, Transmit, AtOnce, Call,
         Done, Become,
                  TypeInv, PlaceOp, still, board
    <2>3. QED BY <1>1, <2>1, <2>2
  <1>7. ASSUME NEW r \in Ranges, ExternalTest(r[1], r[2]) PROVE TestInv'
    <2>1. /\ op' = "external" /\ pc' = "idle" /\ ddr' = ddr
          /\ ret' \in {"EOK", "EFAIL"} => (ret' = "EOK" <=> Healthy(ddr, range'))
      BY <1>7, ExternalExact
    <2>2. ret' \in {"EOK", "EFAIL"} => (ret' = "EOK") = Healthy(ddr', range')
      <3>1. Healthy(ddr', range') \in BOOLEAN
        BY DEF Healthy
      <3>2. SUFFICES ASSUME ret' \in {"EOK", "EFAIL"} PROVE (ret' = "EOK") = Healthy(ddr', range')
        OBVIOUS
      <3>3. ret' = "EOK" <=> Healthy(ddr', range')
        BY <2>1, <3>2
      <3>4. QED BY <3>1, <3>3
    <2>3. TestsTrue'
      BY <2>1, <2>2 DEF TestsTrue
    <2>4. QED BY <2>1, <2>3 DEF TestInv
  <1>8. ASSUME NEW id \in 0 .. CORE_COUNT, InternalRefused(id) PROVE TestInv'
    <2>1. op' = "internal" /\ ret' \in {"EUNSUPPORTED", "EINVALID"} /\ pc' = "idle"
      BY <1>8 DEF InternalRefused, AtOnce, Call
    <2>2. QED BY <2>1 DEF TestInv, TestsTrue
  <1>9. ASSUME NEW id \in 0 .. CORE_COUNT, InternalTest(id) PROVE TestInv'
    <2>1. pc' = "l1p" /\ status' = "EOK" /\ range' = Cell /\ saved' = before' /\ l1' \in L1
      BY <1>9 DEF InternalTest
    <2>2. l1' \in Chip \X Chip
      BY <2>1, ServicesAssumption
    <2>3. QED BY <2>1, <2>2 DEF TestInv, TestsTrue
  <1>10. CASE TestL1("l1p", l1[1], "l1d") \/ TestL1("l1d", l1[2], "restore")
    BY <1>10, TestL1Kept
  <1>11. CASE InternalReturns
    <2>1. pc = "restore" /\ pc' = "idle" /\ op' = op /\ ret' = status /\ psc' = saved /\ UNCHANGED <<l1, before>>
      BY <1>11 DEF InternalReturns, Done
    <2>2. op = "internal"
      BY <2>1 DEF TypeInv, PlaceOp
    <2>3. saved = before /\ (status = "EOK" <=> (Healthy(l1[1], Cell) /\ Healthy(l1[2], Cell)))
      BY <2>1 DEF TestInv
    <2>4. QED BY <2>1, <2>2, <2>3 DEF TestInv, TestsTrue
  <1>12. QED BY <1>2, <1>3, <1>4, <1>5, <1>6, <1>7, <1>8, <1>9, <1>10, <1>11 DEF Next, TestStep

-----------------------------------------------------------------------------
(* Arithmetic of the cycle counter. *)
LEMMA SmallMultiple ==
  ASSUME NEW w \in Nat \ {0}, NEW d \in Int, w * d < w, w * d > - w
  PROVE  d = 0
  <1>1. CASE d >= 1
    <2>1. w * d = w + w * (d - 1) /\ w * (d - 1) >= 0
      <3>1. d - 1 \in Nat
        BY <1>1
      <3>2. w * (d - 1) \in Nat
        BY <3>1
      <3>3. QED BY <3>2
    <2>2. QED BY <2>1
  <1>2. CASE d <= -1
    <2>1. - d - 1 \in Nat
      BY <1>2
    <2>2. w * (- d - 1) \in Nat
      BY <2>1
    <2>3. w * d = - w - w * (- d - 1)
      OBVIOUS
    <2>4. QED BY <2>2, <2>3
  <1>3. QED BY <1>1, <1>2

(* A remainder is determined by any quotient that leaves it in range. *)
LEMMA ModUnique ==
  ASSUME NEW w \in Nat \ {0}, NEW a \in Int, NEW q \in Int, NEW r \in 0 .. w - 1, a = w * q + r
  PROVE  a % w = r
  <1> DEFINE p == a \div w
             s == a % w
  <1>1. p \in Int /\ s \in 0 .. w - 1 /\ a = w * p + s
    OBVIOUS
  <1> HIDE DEF p, s
  <1>2. r - s = w * (p - q)
    BY <1>1
  <1>3. w * (p - q) < w /\ w * (p - q) > - w
    BY <1>1, <1>2
  <1>4. p - q = 0
    BY <1>1, <1>3, SmallMultiple
  <1>5. s = r
    BY <1>1, <1>4
  <1>6. QED BY <1>5 DEF s

(* The counter after some cycles more. *)
LEMMA CounterAdds ==
  ASSUME NEW w \in Nat \ {0}, NEW a \in Int, NEW b \in Int
  PROVE  ((a % w) + b) % w = (a + b) % w
  <1> DEFINE p == a \div w
             s == a % w
             q == (s + b) \div w
             r == (s + b) % w
  <1>1. p \in Int /\ s \in 0 .. w - 1 /\ a = w * p + s
    OBVIOUS
  <1>2. q \in Int /\ r \in 0 .. w - 1 /\ s + b = w * q + r
    <2> HIDE DEF s
    <2>1. QED BY <1>1
  <1> HIDE DEF p, s, q, r
  <1>3. a + b = w * (p + q) + r
    BY <1>1, <1>2
  <1>4. (a + b) % w = r
    <2> DEFINE c == a + b
               e == p + q
    <2>1. c \in Int /\ e \in Int /\ c = w * e + r
      BY <1>1, <1>2, <1>3
    <2> HIDE DEF c, e
    <2>2. c % w = r
      BY <1>2, <2>1, ModUnique
    <2>3. QED BY <2>2 DEF c
  <1>5. QED BY <1>4 DEF r, s

(* A word read as signed is at most the word. *)
LEMMA SignedBelow ==
  ASSUME NEW n \in Nat
  PROVE  Signed(n) \in Int /\ Signed(n) <= n
  <1>1. WORD \in Nat \ {0}
    BY BoardAssumption
  <1>2. n % WORD \in 0 .. WORD - 1 /\ n % WORD <= n
    BY <1>1
  <1>3. QED BY <1>1, <1>2 DEF Signed

(* A word below half its range is the same signed. *)
LEMMA SignedSame ==
  ASSUME NEW n \in Nat, n < WORD \div 2
  PROVE  Signed(n) = n
  <1>1. WORD \in Nat \ {0}
    BY BoardAssumption
  <1>2. n < WORD
    BY <1>1
  <1>3. n % WORD = n
    BY <1>1, <1>2
  <1>4. QED BY <1>3 DEF Signed

(* A delay that ends has lasted as long as asked. *)
LEMMA DelayLasts ==
  ASSUME NEW s \in 0 .. WORD - 1, NEW t \in Int, NEW over \in Nat, NEW n \in Nat, n < WORD \div 2,
         t = (s + over) % WORD, Signed(t - s) >= Signed(n)
  PROVE  over >= n
  <1>1. WORD \in Nat \ {0} /\ s \in Nat
    BY BoardAssumption
  <1>2. (t - s) % WORD = over % WORD
    <2>1. (((s + over) % WORD) + (0 - s)) % WORD = ((s + over) + (0 - s)) % WORD
      <3> DEFINE a == s + over
                 b == 0 - s
      <3>1. a \in Int /\ b \in Int
        BY <1>1
      <3> HIDE DEF a, b
      <3>2. ((a % WORD) + b) % WORD = (a + b) % WORD
        BY <1>1, <3>1, CounterAdds
      <3>3. QED BY <3>2 DEF a, b
    <2>2. (s + over) + (0 - s) = over /\ ((s + over) % WORD) + (0 - s) = t - s
      BY <1>1
    <2>3. QED BY <2>1, <2>2
  <1>3. Signed(t - s) = Signed(over)
    BY <1>2 DEF Signed
  <1>4. QED BY <1>3, SignedBelow, SignedSame

-----------------------------------------------------------------------------
(* How far a delay has come: over is the time since the last reading of    *)
(* start_val, and what was waited before it is counted by waits.           *)
Fits == usecs * frequency < WORD \div 2
Spent(n, over) == elapsed >= n * frequency + over
Waited ==
  /\ pc = "uartread" => Spent(usecs - waits, 0)
  /\ pc = "uartDelay" => \E over \in Nat : tscl = (start + over) % WORD /\ Spent(usecs - waits - 1, over)
  /\ pc = "uartTimeout" => Spent(usecs, 0)
  /\ pc = "idle" /\ (op = "delay" \/ (op = "uartread" /\ ret = "EFAIL")) => Spent(usecs, 0)
DelayInv ==
  /\ pc = "delay" => tscl = (start + elapsed) % WORD
  /\ pc \in {"uartread", "uartDelay"} => waits <= usecs
  /\ pc = "uartDelay" => waits < usecs
  /\ Fits => Waited

(* A counter starts where it was. *)
LEMMA CounterStarts ==
  ASSUME NEW t \in Starts
  PROVE  t = (t + 0) % WORD
  <1>1. WORD \in Nat \ {0} /\ t \in 0 .. WORD - 1
    BY BoardAssumption, ServicesAssumption
  <1>2. QED BY <1>1

(* A turn of the waiting loop keeps the delay exact. *)
LEMMA SpinKept ==
  ASSUME TypeInv, DelayInv, Spin
  PROVE  DelayInv'
  <1>1. PICK d \in Ticks : tscl' = (tscl + d) % WORD /\ elapsed' = elapsed + d
    BY DEF Spin
  <1>2. d \in Nat /\ WORD \in Nat \ {0} /\ start \in Nat /\ elapsed \in Nat /\ usecs \in Nat /\ waits \in Nat
        /\ frequency \in Nat
    BY ServicesAssumption, BoardAssumption DEF TypeInv, ServiceTyped, BoardTyped, FrequencyTyped
  <1>3. UNCHANGED <<pc, op, ret, usecs, start, waits, frequency>> /\ pc \in {"delay", "uartDelay"}
    BY DEF Spin, Become, still
  <1>4. ASSUME NEW o \in Nat PROVE (((start + o) % WORD) + d) % WORD = ((start + o) + d) % WORD
    <2> DEFINE a == start + o
    <2>1. a \in Int /\ d \in Int
      BY <1>2
    <2> HIDE DEF a
    <2>2. ((a % WORD) + d) % WORD = (a + d) % WORD
      BY <1>2, <2>1, CounterAdds
    <2>3. QED BY <2>2 DEF a
  <1>5. CASE pc = "delay"
    <2>1. tscl = (start + elapsed) % WORD
      BY <1>5 DEF DelayInv
    <2>2. (((start + elapsed) % WORD) + d) % WORD = ((start + elapsed) + d) % WORD
      BY <1>2, <1>4
    <2>3. (start + elapsed) + d = start + (elapsed + d)
      BY <1>2
    <2>4. tscl' = (start + elapsed') % WORD
      BY <1>1, <2>1, <2>2, <2>3
    <2>5. QED BY <1>3, <1>5, <2>4 DEF DelayInv, Waited
  <1>6. CASE pc = "uartDelay"
    <2>1. waits < usecs
      BY <1>6 DEF DelayInv
    <2>2. ASSUME Fits PROVE \E o \in Nat : tscl' = (start + o) % WORD /\ elapsed' >= (usecs - waits - 1) * frequency + o
      <3>1. PICK over \in Nat : tscl = (start + over) % WORD /\ Spent(usecs - waits - 1, over)
        BY <1>6, <2>2 DEF DelayInv, Waited
      <3>2. (((start + over) % WORD) + d) % WORD = ((start + over) + d) % WORD
        BY <1>2, <1>4
      <3>3. (start + over) + d = start + (over + d) /\ over + d \in Nat
        BY <1>2
      <3>4. tscl' = (start + (over + d)) % WORD
        BY <1>1, <3>1, <3>2, <3>3
      <3>5. elapsed' >= (usecs - waits - 1) * frequency + (over + d)
        <4> DEFINE m == (usecs - waits - 1) * frequency
        <4>1. m \in Int /\ elapsed >= m + over
          BY <1>2, <3>1 DEF Spent
        <4> HIDE DEF m
        <4>2. elapsed' >= m + (over + d)
          BY <1>1, <1>2, <4>1
        <4>3. QED BY <4>2 DEF m
      <3>6. QED BY <3>3, <3>4, <3>5
    <2>3. Fits' => Fits
      BY <1>3 DEF Fits
    <2>4. Fits' => Waited'
      BY <1>3, <1>6, <2>2, <2>3 DEF Waited, Spent
    <2>5. QED BY <1>3, <1>6, <2>1, <2>4 DEF DelayInv
  <1>7. QED BY <1>3, <1>5, <1>6

(* The delay returns only after its cycles. *)
LEMMA DelayReturnsKept ==
  ASSUME TypeInv, DelayInv, DelayReturns
  PROVE  DelayInv'
  <1>1. UNCHANGED <<usecs, start, tscl, waits, elapsed, frequency>> /\ pc = "delay" /\ pc' = "idle" /\ DelayOver
    BY DEF DelayReturns, Done, delay, still
  <1>2. ASSUME Fits PROVE Spent(usecs, 0)
    <2> DEFINE n == usecs * frequency
    <2>1. n \in Nat /\ n < WORD \div 2
      BY <1>2 DEF Fits, TypeInv, ServiceTyped, BoardTyped, FrequencyTyped
    <2>2. Signed(tscl - start) >= Signed(n)
      BY <1>1 DEF DelayOver, DelayCount
    <2>3. start \in 0 .. WORD - 1 /\ tscl \in Int /\ elapsed \in Nat /\ tscl = (start + elapsed) % WORD
      BY <1>1 DEF TypeInv, ServiceTyped, DelayInv
    <2> HIDE DEF n
    <2>4. elapsed >= n
      BY <2>1, <2>2, <2>3, DelayLasts
    <2>5. elapsed >= n + 0
      BY <2>1, <2>3, <2>4
    <2>6. QED BY <2>5 DEF Spent, n
  <1>3. (Fits' => Fits) /\ (Spent(usecs, 0) => Spent(usecs, 0)')
    BY <1>1 DEF Fits, Spent
  <1>4. QED BY <1>1, <1>2, <1>3 DEF DelayInv, Waited

(* The delay between two looks at the UART is exact. *)
LEMMA UartDelayOverKept ==
  ASSUME TypeInv, DelayInv, UartDelayOver
  PROVE  DelayInv'
  <1>1. UNCHANGED <<usecs, start, tscl, waits, elapsed, frequency>> /\ pc = "uartDelay" /\ pc' = "uartread"
        /\ DelayOver
    BY DEF UartDelayOver, Become, delay, still
  <1>2. usecs \in Nat /\ waits \in Nat /\ frequency \in Nat /\ elapsed \in Nat /\ waits < usecs
        /\ start \in 0 .. WORD - 1 /\ tscl \in Int
    BY <1>1 DEF TypeInv, ServiceTyped, BoardTyped, FrequencyTyped, DelayInv
  <1>3. ASSUME Fits PROVE Spent(usecs - waits, 0)
    <2>1. PICK over \in Nat : tscl = (start + over) % WORD /\ Spent(usecs - waits - 1, over)
      BY <1>1, <1>3 DEF DelayInv, Waited
    <2>2. frequency < WORD \div 2
      <3>1. usecs * frequency = frequency + (usecs - 1) * frequency /\ (usecs - 1) * frequency \in Nat
        BY <1>2
      <3>2. usecs * frequency < WORD \div 2 /\ WORD \div 2 \in Int
        BY <1>3, BoardAssumption DEF Fits
      <3>3. QED BY <1>2, <3>1, <3>2
    <2>3. Signed(tscl - start) >= Signed(frequency)
      <3>1. 1 * frequency = frequency
        BY <1>2
      <3>2. QED BY <1>1, <3>1 DEF DelayOver, DelayCount
    <2>4. over >= frequency
      BY <1>2, <2>1, <2>2, <2>3, DelayLasts
    <2>5. (usecs - waits - 1) * frequency + frequency = (usecs - waits) * frequency
      BY <1>2
    <2>6. elapsed >= (usecs - waits - 1) * frequency + over
      BY <2>1 DEF Spent
    <2> DEFINE m == (usecs - waits - 1) * frequency
    <2>7. m \in Int
      BY <1>2
    <2> HIDE DEF m
    <2>8. elapsed >= m + over /\ m + frequency = (usecs - waits) * frequency
      BY <2>5, <2>6 DEF m
    <2>9. elapsed >= (usecs - waits) * frequency + 0
      BY <1>2, <2>4, <2>7, <2>8
    <2>10. QED BY <2>9 DEF Spent
  <1>4. (Fits' => Fits) /\ (Spent(usecs - waits, 0) => Spent(usecs - waits, 0)')
    BY <1>1 DEF Fits, Spent
  <1>5. QED BY <1>1, <1>2, <1>3, <1>4 DEF DelayInv, Waited

(* Starting the delay between two looks keeps the delay exact. *)
LEMMA UartNotReadyKept ==
  ASSUME TypeInv, DelayInv, UartNotReady
  PROVE  DelayInv'
  <1>1. UNCHANGED <<usecs, elapsed, frequency>> /\ pc = "uartread"
    BY DEF UartNotReady, delay, still
  <1>2. usecs \in Nat /\ waits \in Nat /\ frequency \in Nat /\ elapsed \in Nat /\ waits <= usecs
    BY <1>1 DEF TypeInv, ServiceTyped, BoardTyped, FrequencyTyped, DelayInv
  <1>3. (Fits' => Fits) /\ (Fits => elapsed >= (usecs - waits) * frequency + 0)
    BY <1>1 DEF Fits, DelayInv, Waited, Spent
  <1>4. CASE waits > 0
    <2>1. PICK t \in Starts : start' = t /\ tscl' = t
      BY <1>4 DEF UartNotReady, BeginDelay
    <2>2. pc' = "uartDelay" /\ waits' = waits - 1
      BY <1>4 DEF UartNotReady, Become
    <2>3. usecs - waits' - 1 = usecs - waits /\ waits' < usecs
      BY <1>2, <1>4, <2>2
    <2>4. Fits' => Waited'
      <3>1. tscl' = (start' + 0) % WORD
        BY <2>1, CounterStarts
      <3>2. Fits' => Spent(usecs - waits - 1, 0)'
        BY <1>1, <1>3, <2>3 DEF Spent
      <3>3. Fits' => \E over \in Nat : tscl' = (start' + over) % WORD /\ Spent(usecs - waits - 1, over)'
        BY <3>1, <3>2
      <3>4. QED BY <2>2, <3>3 DEF Waited
    <2>5. QED BY <1>1, <1>2, <2>2, <2>3, <2>4 DEF DelayInv
  <1>5. CASE waits = 0
    <2>1. pc' = "uartTimeout"
      BY <1>5 DEF UartNotReady, Become
    <2>2. usecs - waits = usecs
      BY <1>2, <1>5
    <2>3. Fits' => Spent(usecs, 0)'
      BY <1>1, <1>3, <2>2 DEF Spent
    <2>4. QED BY <2>1, <2>3 DEF DelayInv, Waited
  <1>6. QED BY <1>2, <1>4, <1>5

(* Every step keeps the delays exact. *)
LEMMA DelaysKept ==
  ASSUME TypeInv, DelayInv, [Next]_vars
  PROVE  DelayInv'
  <1>0. "idle" \notin StartUp /\ StartUp \cap {"delay", "uartread", "uartDelay", "uartTimeout"} = {}
    BY OtherPlaces DEF NotStartUp
  (* A step that no delay sees, or that is not one of a delay. *)
  <1>1. ASSUME UNCHANGED <<delay, frequency, pc, op, ret>> PROVE DelayInv'
    BY <1>1 DEF delay, DelayInv, Fits, Waited, Spent
  <1>2. ASSUME pc' \notin {"delay", "uartread", "uartDelay", "uartTimeout"},
               pc' = "idle" => op' # "delay" /\ (op' # "uartread" \/ ret' # "EFAIL")
        PROVE  DelayInv'
    BY <1>2 DEF DelayInv, Waited
  <1>3. CASE InitStep
    <2>1. UNCHANGED <<delay, op, ret>>
      BY <1>3 DEF InitStep, servicevars
    <2>2. CASE Hardware
      BY <1>1, <2>1, <2>2 DEF Hardware
    <2>3. CASE BoardStep
      <3>1. op = "init" /\ pc' \in StartUp \cup {"idle"}
        BY <2>3, StartUpStays DEF TypeInv, BoardTyped, PlaceOp
      <3>2. pc' \notin {"delay", "uartread", "uartDelay", "uartTimeout"}
        BY <1>0, <3>1
      <3>3. QED BY <1>2, <2>1, <3>1, <3>2
    <2>4. QED BY <1>3, <2>2, <2>3 DEF InitStep
  <1>4. CASE CallInit
    <2>1. op' = "init" /\ pc' \in StartUp \cup {"idle"}
      BY <1>4, FirstPlace DEF CallInit, Refuse, Start, StartUp
    <2>2. pc' \notin {"delay", "uartread", "uartDelay", "uartTimeout"}
      BY <1>0, <2>1
    <2>3. QED BY <1>2, <2>1, <2>2
  <1>5. CASE GetInfo \/ UNCHANGED vars
    BY <1>1, <1>2, <1>5 DEF GetInfo, AtOnce, Call, vars, boardvars, servicevars
  <1>6. ASSUME NEW us \in Usecs, Delay(us) PROVE DelayInv'
    <2>1. PICK t \in Starts : start' = t /\ tscl' = t
      BY <1>6 DEF Delay, BeginDelay
    <2>2. pc' = "delay" /\ elapsed' = 0
      BY <1>6 DEF Delay
    <2>3. QED BY <2>1, <2>2, CounterStarts DEF DelayInv, Waited
  <1>7. ASSUME NEW us \in Usecs, UartRead(us) PROVE DelayInv'
    <2>1. pc' = "uartread" /\ usecs' = us /\ waits' = us /\ elapsed' = 0 /\ us \in Nat /\ frequency' = frequency
      BY <1>7, ServicesAssumption DEF UartRead, still
    <2>2. (us - us) * frequency + 0 = 0
      BY <2>1 DEF TypeInv, BoardTyped, FrequencyTyped
    <2>3. Spent(usecs - waits, 0)'
      BY <2>1, <2>2 DEF Spent
    <2>4. QED BY <2>1, <2>3 DEF DelayInv, Waited
  <1>8. CASE Arrive
    BY <1>1, <1>8 DEF Arrive, still
  <1>9. CASE UartReady
    BY <1>2, <1>9 DEF UartReady, Done, TypeInv, PlaceOp
  <1>10. CASE UartTimeout
    <2>1. UNCHANGED <<delay, frequency>> /\ pc = "uartTimeout" /\ pc' = "idle"
      BY <1>10 DEF UartTimeout, Done
    <2>2. QED BY <2>1 DEF delay, DelayInv, Fits, Waited, Spent
  <1>11. CASE UartInit \/ (\E b \in {19200, 115200} : SetBaudrate(b)) \/ UartReadNowhere
    BY <1>2, <1>11 DEF UartInit, SetBaudrate, UartReadNowhere, AtOnce, Call
  <1>12. CASE WriteStep
    <2>1. CASE Transmit
      BY <1>1, <2>1 DEF Transmit, still
    <2>2. CASE ~ Transmit
      BY <1>2, <1>12, <2>2 DEF WriteStep, Configure, WriteTooLong, Write, UartWrite, WriteData, WriteReturns, AtOnce,
         Call, Become,
                               Done, TypeInv, PlaceOp
    <2>3. QED BY <2>1, <2>2
  <1>13. CASE TestStep
    BY <1>2, <1>13 DEF TestStep, ExternalTest, InternalRefused, InternalTest, TestL1, InternalReturns,
       AtOnce, Call,
                       Become, Done, TypeInv, PlaceOp
  <1>14. QED BY <1>3, <1>4, <1>5, <1>6, <1>7, <1>8, <1>9, <1>10, <1>11, <1>12, <1>13, SpinKept,
       DelayReturnsKept,
                UartDelayOverKept, UartNotReadyKept DEF Next, UartStep

ExactInv == LostInv /\ WritesInOrder /\ ReadsInOrder /\ TestInv /\ DelayInv

(* The first state promises nothing yet. *)
LEMMA InitExact == Init => ExactInv
  <1> SUFFICES ASSUME Init PROVE ExactInv
    OBVIOUS
  <1>1. pc = "idle" /\ op = "none" /\ got = <<>> /\ rx = <<>> /\ arrived = 0 /\ line = <<>> /\ thr = <<>>
        /\ todo = <<>> /\ due = <<>> /\ lost = <<>>
    BY DEF Init, BoardInitial
  <1>2. <<>> \o <<>> \o <<>> \o <<>> = <<>> /\ <<>> \o <<>> = [i \in 1 .. 0 |-> i]
    OBVIOUS
  <1>3. LostInv /\ WritesInOrder /\ ReadsInOrder
    BY <1>1, <1>2 DEF LostInv, WritesInOrder, ReadsInOrder
  <1>4. TestInv
    BY <1>1 DEF TestInv, TestsTrue
  <1>5. DelayInv
    BY <1>1 DEF DelayInv, Waited
  <1>6. QED BY <1>3, <1>4, <1>5 DEF ExactInv

(* The services do what they report, for every clock, length of a delay,   *)
(* message, byte and memory, and whatever start-ups have left behind: a    *)
(* delay lasts its cycles of whole MHz although the counter wraps, no byte *)
(* is doubled and none lost but one that waits when the UART is set up     *)
(* anew (evmc66x_uart.c:136), and no memory that does not work passes its test               *)
(* (platform.c:606-723, 730-882).                                          *)
THEOREM ServicesHold == Spec => []ServicesExact
  <1>1. Spec => [](TypeInv /\ ExactInv)
    <2>1. TypeInv /\ ExactInv /\ [Next]_vars => (TypeInv /\ ExactInv)'
      <3>1. LostInv /\ TypeInv /\ WritesInOrder /\ [Next]_vars => WritesInOrder'
        BY LostKept, WritesKept DEF LostInv, WritesInOrder
      <3>2. QED BY <3>1, BoardTypedKept, ServiceTypedKept, PlaceOpKept, LostKept, ReadsKept, TestsKept, DelaysKept
         DEF TypeInv, ExactInv
    <2>2. Init => TypeInv /\ ExactInv
      BY InitTyped, InitExact
    <2>3. QED BY <2>1, <2>2, PTL DEF Spec
  <1>2. TypeInv /\ ExactInv => ServicesExact
    <2> SUFFICES ASSUME TypeInv, ExactInv PROVE ServicesExact
      OBVIOUS
    <2>1. ReadsInOrder /\ WritesInOrder /\ TestsTrue
      BY DEF ExactInv, TestInv
    <2>2. DelayKept
      <3> SUFFICES ASSUME current, Selected, Understood, main.div = 0, main.post = 1,
                          usecs * (TrueClock \div CLK_UNIT) < WORD \div 2, pc = "idle",
                          op = "delay" \/ (op = "uartread" /\ ret = "EFAIL")
                   PROVE  elapsed >= usecs * (TrueClock \div CLK_UNIT)
        BY DEF DelayKept
      <3>1. frequency = TrueClock \div CLK_UNIT
        <4>1. frequency = Measured
          BY DEF TypeInv, BoardTyped, FrequencyTyped
        <4>2. main \in MainPll
          BY DEF TypeInv, BoardTyped, HardTyped
        <4>3. QED BY <4>1, <4>2, MeasuredIsTrue
      <3>2. Fits
        BY <3>1 DEF Fits
      <3>3. Spent(usecs, 0)
        BY <3>2 DEF ExactInv, DelayInv, Waited
      <3>4. usecs * frequency + 0 = usecs * frequency
        BY DEF TypeInv, ServiceTyped, BoardTyped, FrequencyTyped
      <3>5. QED BY <3>1, <3>3, <3>4 DEF Spent
    <2>3. QED BY <2>1, <2>2 DEF ServicesExact
  <1>3. QED BY <1>1, <1>2, PTL
=============================================================================
