----------------------------- MODULE BoardInit -----------------------------
(***************************************************************************)
(* The start-up of the board: platform_init (platform.c) with the PLLs,    *)
(* the DDR3 controller and the power domains (evmc6670.c), and SerDes and  *)
(* SGMII (evmc6670_phy.c).                                                 *)
(*                                                                         *)
(* Abstracted: of the registers, the fields that decide which clock is     *)
(* used are kept; the timings of the DDR3 controller are one step, after   *)
(* which the memory works or does not.  A wait for a time is part of the   *)
(* step that waits.  The hardware is external: a PLL that comes out of     *)
(* reset has locked after the wait the code makes, GOSTAT clears in time   *)
(* or does not, and the other flags are set at any time or never.          *)
(***************************************************************************)
EXTENDS Integers, FiniteSets

CONSTANTS
  PLLM_LOW,      \* 2^6: the multipliers that fit in the register PLLM
  PLLM_MAX,      \* 4095: the multipliers prog_pll1_values accepts
  BASE_CLK, CLK_UNIT, \* PLATFORM_BASE_CLK_RATE_MHZ is BASE_CLK / CLK_UNIT: 12288 / 100
  PLL1_PLLM,     \* PLATFORM_PLL1_PLLM_val
  PLLM_PASS, PLLM_DDR3, \* the multipliers of the other two PLLs
  INIT_TRIES,    \* 10: attempts of platform_init
  WORD,          \* 2^32
  Bit,           \* the bits of a memory word
  Cell,          \* the words of a memory, as their addresses
  PLL_REINIT_DDR3_TEST_START_ADDR, PLL_REINIT_DDR3_TEST_END_ADDR, \* the first 128 KB of DDR3
  Pattern,       \* the address of a word as the set of its bits that are 1
  Memory,        \* what DDR3 can be: a function to cells, and stuck bits
  BootPll,       \* what the boot ROM leaves the main PLL as
  Arguments      \* the arguments of platform_init

Flag == {"pll", "ddr", "ecc", "phy"}
Domain == {"ALWAYSON", "PASS"}
UNKNOWN == WORD - 1 \* (uint32_t) -1
NoArguments == [flags |-> {}, pllm |-> -1] \* a NULL pointer

MainPll == [m : Nat, div : Nat, post : Nat, pllen : BOOLEAN, bypass : BOOLEAN,
            powered : BOOLEAN, reset : BOOLEAN, locked : BOOLEAN]
AuxPll == [m : Nat, bypass : BOOLEAN, reset : BOOLEAN, locked : BOOLEAN]
Chip == [at : [Cell -> Cell], stuck0 : [Cell -> SUBSET Bit], stuck1 : [Cell -> SUBSET Bit]]

ASSUME BoardAssumption ==
  /\ PLLM_LOW \in Nat \ {0} /\ PLLM_MAX \in Nat /\ INIT_TRIES \in Nat \ {0}
  /\ BASE_CLK \in Nat \ {0} /\ CLK_UNIT \in Nat \ {0} /\ PLL1_PLLM \in Nat \ {0} /\ WORD \in Nat \ {0, 1}
  /\ ((PLLM_LOW \div 2) * BASE_CLK) \div CLK_UNIT < WORD \* platform_mcb.frequency holds what can be read
  /\ PLLM_PASS \in Nat /\ PLLM_DDR3 \in Nat
  /\ PLL_REINIT_DDR3_TEST_START_ADDR \in Nat /\ PLL_REINIT_DDR3_TEST_END_ADDR \in Nat
  /\ Cell \subseteq Nat /\ Pattern \in [Cell -> SUBSET Bit]
  /\ \A a, b \in Cell : Pattern[a] = Pattern[b] => a = b
  /\ \A R \in SUBSET Cell : R = {} \/ \E last \in R : \A a \in R : a <= last \* it is finite
  /\ Memory \subseteq Chip /\ BootPll \subseteq MainPll
  /\ \A p \in BootPll : ~ p.bypass => p.powered /\ (p.pllen => ~ p.reset /\ p.locked)
  /\ \A a \in Arguments : a.flags \subseteq Flag /\ (a = NoArguments \/ a.pllm \in Nat)

VARIABLES
  pc,         \* where the call is
  args,       \* p_flags and p_config of platform_init
  loop_count, \* its attempts
  result,     \* what the last call returned
  platform_errno,
  platform_init_return_code,
  frequency,  \* platform_mcb.frequency
  dnum,       \* the core that runs all this
  main,       \* the main PLL and its controller
  aux,        \* the PLLs of the packet accelerator and of DDR3
  ddr, mapped,\* the DDR3 memory, and whether its registers can be reached
  domain,     \* the power domains: "off", "turning", "on"
  edc,        \* error correction has been asked for
  serdes, sgmii \* the SerDes PLLs that have locked, and SGMII port 1

(* Observation only: *)
VARIABLE current  \* the frequency was read after the main PLL was last changed

outcome == <<result, platform_errno, platform_init_return_code>>
local == <<args, loop_count, dnum>>
board == <<ddr, mapped, domain, edc, serdes, sgmii>>
boardvars == <<pc, local, outcome, frequency, main, aux, board, current>>

Flagged(f) == f \in args.flags

Goto(l) == pc' = l /\ UNCHANGED <<local, outcome>>
Return(r) == pc' = "idle" /\ result' = r /\ UNCHANGED <<local, platform_init_return_code>>
Fail(e) == Return("EFAIL") /\ platform_errno' = e

-----------------------------------------------------------------------------
(* platform_memory_test over the words of a range: each word is written    *)
(* with its address, then all are read; then with the complement.          *)
Words(first, end) == {c \in Cell : first <= c /\ c < end}

(* What a chip gives back at a after every word b of the range was written *)
(* with data[b], in ascending order.                                       *)
LastAt(chip, range, a) ==
  CHOOSE b \in range : chip.at[b] = chip.at[a] /\ \A d \in range : chip.at[d] = chip.at[a] => d <= b
Reading(chip, range, data, a) ==
  (data[LastAt(chip, range, a)] \ chip.stuck0[chip.at[a]]) \cup chip.stuck1[chip.at[a]]

ReadsBack(chip, range, data) == \A a \in range : Reading(chip, range, data, a) = data[a]

MemoryTest(chip, range) ==
  /\ ReadsBack(chip, range, Pattern)
  /\ ReadsBack(chip, range, [a \in Cell |-> Bit \ Pattern[a]])

(* What the test is for: every word has a cell of its own that keeps all   *)
(* of its bits.                                                            *)
Healthy(chip, range) ==
  /\ \A a, b \in range : chip.at[a] = chip.at[b] => a = b
  /\ \A a \in range : chip.stuck0[chip.at[a]] = {} /\ chip.stuck1[chip.at[a]] = {}

-----------------------------------------------------------------------------
(* platform_init: the arguments, and the first attempt *)

Refuse ==
  /\ pc = "idle"
  /\ args' = NoArguments /\ result' = "EFAIL" /\ platform_errno' = "INVALID_ARGUMENT"
  /\ UNCHANGED <<pc, loop_count, dnum, platform_init_return_code, frequency, main, aux, board, current>>

FirstStep(flags) == IF "pll" \in flags THEN "bypass" ELSE IF "ddr" \in flags THEN "ddr" ELSE "looped"

Start(a) ==
  /\ pc = "idle" /\ pc' = FirstStep(a.flags)
  /\ args' = a /\ loop_count' = 0 /\ platform_errno' = "none" /\ result' = "none"
  /\ UNCHANGED <<dnum, platform_init_return_code, frequency, main, aux, board, current>>

-----------------------------------------------------------------------------
(* CorePllcHwSetup and prog_pll1_values *)

MainStep(from, to, value) ==
  /\ pc = from /\ Goto(to)
  /\ main' = value
  /\ UNCHANGED <<frequency, aux, board>>

(* Mutant of Bypassed: a PLL that is not in bypass is left as it is. *)
BypassedAfterBoot == IF main.bypass THEN [main EXCEPT !.pllen = FALSE] ELSE main

(* PLLEN is cleared in both branches, and only one cycles the power. *)
Bypassed == [main EXCEPT !.pllen = FALSE]
EnterBypass == MainStep("bypass", IF main.bypass THEN "powerdown" ELSE "values", Bypassed) /\ UNCHANGED current

PowerDown ==
  /\ MainStep("powerdown", "powerup", [main EXCEPT !.bypass = TRUE, !.powered = FALSE, !.locked = FALSE])
  /\ UNCHANGED current
PowerUp == MainStep("powerup", "values", [main EXCEPT !.powered = TRUE]) /\ UNCHANGED current

WantedM == (IF args.pllm # 0 THEN args.pllm ELSE PLL1_PLLM) - 1

(* prog_pll1_values, which nobody asks whether it has set them. *)
SetValues ==
  \/ /\ WantedM <= PLLM_MAX
     /\ MainStep("values", "go1", [main EXCEPT !.m = WantedM, !.div = 0, !.post = 1, !.locked = FALSE])
     /\ current' = FALSE
  \/ /\ WantedM > PLLM_MAX
     /\ MainStep("values", "go1", main)
     /\ UNCHANGED current

(* The polls for GOSTAT before and after the dividers are set, and those   *)
(* of CorePllcGetHwSetup, which reads the values back: nobody looks at     *)
(* them.  After a hundred polls they give up.                              *)
WaitGo ==
  /\ \/ pc = "go1" /\ Goto("go2")
     \/ pc = "go2" /\ Goto("reset")
     \/ pc = "readback" /\ Goto("pa")
  /\ UNCHANGED <<frequency, main, aux, board, current>>
GoStuck ==
  /\ pc \in {"go1", "go2", "readback"}
  /\ Fail("PLL_SETUP")
  /\ UNCHANGED <<frequency, main, aux, board, current>>

ResetPll ==
  MainStep("reset", "release", [main EXCEPT !.reset = TRUE, !.locked = FALSE]) /\ UNCHANGED current
(* The reset ends, and the time it takes to lock is waited for. *)
ReleasePll ==
  MainStep("release", "engage", [main EXCEPT !.reset = FALSE, !.locked = TRUE]) /\ UNCHANGED current
EngagePll ==
  MainStep("engage", "readback", [main EXCEPT !.bypass = FALSE, !.pllen = TRUE]) /\ current' = FALSE

MainPllStep == EnterBypass \/ PowerDown \/ PowerUp \/ SetValues \/ WaitGo \/ GoStuck \/ ResetPll \/ ReleasePll \/ EngagePll

-----------------------------------------------------------------------------
(* SetPaPllConfig and SetDDR3PllConfig, which are alike *)

AuxPath == [pa  |-> <<"pa", "paValues", "paRelease", "paEngage">>,
            ddr |-> <<"ddrpll", "ddrValues", "ddrRelease", "ddrEngage">>]

(* Mutant of AfterAux: the PLL of DDR3 is left as it is. *)
AfterAuxNoDdr(w) == IF w = "ddr" \/ Flagged("ddr") THEN "ddr" ELSE "looped"

AfterAux(w) == IF w = "ddr" THEN "ddr" ELSE IF Flagged("ddr") THEN "ddrpll" ELSE "looped"
AuxM == [pa |-> PLLM_PASS, ddr |-> PLLM_DDR3]

AuxStep(w, n, value) ==
  /\ pc = AuxPath[w][n]
  /\ Goto(IF n < 4 THEN AuxPath[w][n + 1] ELSE AfterAux(w))
  /\ aux' = [aux EXCEPT ![w] = value]
  /\ UNCHANGED <<frequency, main, board, current>>

(* The main PLL has been set by now. *)
AuxRefuse(w) ==
  /\ pc = AuxPath[w][1] /\ dnum # 0
  /\ Fail("PLL_SETUP")
  /\ UNCHANGED <<frequency, main, aux, board, current>>
AuxBypass(w) == dnum = 0 /\ AuxStep(w, 1, [aux[w] EXCEPT !.bypass = TRUE])
AuxValues(w) == AuxStep(w, 2, [aux[w] EXCEPT !.m = AuxM[w], !.reset = TRUE, !.locked = FALSE])
AuxRelease(w) == AuxStep(w, 3, [aux[w] EXCEPT !.reset = FALSE, !.locked = TRUE])
AuxEngage(w) == AuxStep(w, 4, [aux[w] EXCEPT !.bypass = FALSE])

AuxPllStep(w) == AuxRefuse(w) \/ AuxBypass(w) \/ AuxValues(w) \/ AuxRelease(w) \/ AuxEngage(w)

-----------------------------------------------------------------------------
(* xmc_setup and DDR3Init, which cannot fail: the memory works, or not. *)
InitDdr ==
  /\ pc = "ddr" /\ Goto("looped")
  /\ mapped' = TRUE /\ ddr' \in Memory
  /\ UNCHANGED <<frequency, main, aux, domain, edc, serdes, sgmii, current>>

(* Mutant of TriesLeft: one attempt more. *)
OneMoreTry == loop_count < INIT_TRIES

TriesLeft == loop_count + 1 < INIT_TRIES

(* The end of an attempt: a test of the beginning of the DDR3 decides      *)
(* whether there is another.                                               *)
Tested == Words(PLL_REINIT_DDR3_TEST_START_ADDR, PLL_REINIT_DDR3_TEST_END_ADDR)
LoopDone ==
  /\ pc = "looped" /\ pc' = "frequency"
  /\ {"pll", "ddr"} \subseteq args.flags => MemoryTest(ddr, Tested)
  /\ platform_init_return_code' = loop_count
  /\ UNCHANGED <<local, result, platform_errno, frequency, main, aux, board, current>>
TryAgain ==
  /\ pc = "looped" /\ {"pll", "ddr"} \subseteq args.flags /\ ~ MemoryTest(ddr, Tested)
  /\ TriesLeft
  /\ loop_count' = loop_count + 1 /\ platform_errno' = "none" /\ pc' = FirstStep(args.flags)
  /\ UNCHANGED <<args, dnum, result, platform_init_return_code, frequency, main, aux, board, current>>
GiveUp ==
  /\ pc = "looped" /\ {"pll", "ddr"} \subseteq args.flags /\ ~ MemoryTest(ddr, Tested)
  /\ ~ TriesLeft
  /\ loop_count' = loop_count + 1 /\ platform_init_return_code' = loop_count + 1
  /\ platform_errno' = "GENERIC" /\ result' = "EFAIL" /\ pc' = "idle"
  /\ UNCHANGED <<args, dnum, frequency, main, aux, board, current>>

(* platform_get_frequency: PLLM_REG holds the low bits of the multiplier,  *)
(* the divider is read from a register that nothing sets, and a poll that  *)
(* fails makes the frequency -1.  The fraction of a MHz is cut off.        *)
Measured == ((((main.m % PLLM_LOW) + 1) \div 2) * BASE_CLK) \div CLK_UNIT

SaveFrequency ==
  /\ pc = "frequency" /\ pc' = "alwayson"
  /\ \/ frequency # 0 /\ UNCHANGED <<frequency, current, platform_errno>>
     \/ /\ frequency = 0 /\ frequency' = Measured
        /\ current' = TRUE /\ UNCHANGED platform_errno
     \/ /\ frequency = 0 /\ frequency' = UNKNOWN
        /\ platform_errno' = "GENERIC" /\ current' = FALSE
  /\ UNCHANGED <<local, result, platform_init_return_code, main, aux, board>>

-----------------------------------------------------------------------------
(* PowerUpDomains *)
StartDomain(d) ==
  /\ pc = (IF d = "PASS" THEN "pass" ELSE "alwayson")
  /\ Goto(IF d = "PASS" THEN "passWait" ELSE "alwaysonWait")
  /\ domain' = [domain EXCEPT ![d] = "turning"]
  /\ UNCHANGED <<frequency, main, aux, ddr, mapped, edc, serdes, sgmii, current>>

DomainDone(d) ==
  /\ pc = (IF d = "PASS" THEN "passWait" ELSE "alwaysonWait")
  /\ domain[d] = "on"
  /\ Goto(IF d = "PASS" THEN "edc" ELSE "pass")
  /\ UNCHANGED <<frequency, main, aux, board, current>>

(* The error correction of L1P, L2 and MSMC is asked for; whether it is on *)
(* after all is not looked at.                                             *)
EnableEdc ==
  /\ pc = "edc"
  /\ edc' = (edc \/ Flagged("ecc"))
  /\ IF Flagged("phy") THEN Goto("serdes") ELSE Return("EOK") /\ UNCHANGED platform_errno
  /\ UNCHANGED <<frequency, main, aux, ddr, mapped, domain, serdes, sgmii, current>>

(* configSerdes *)
ConfigSerdes ==
  /\ pc = "serdes" /\ Goto("lock0")
  /\ serdes' = {}
  /\ UNCHANGED <<frequency, main, aux, ddr, mapped, domain, edc, sgmii, current>>
SerdesLocked ==
  /\ \/ pc = "lock0" /\ 0 \in serdes /\ Goto("lock1")
     \/ pc = "lock1" /\ 1 \in serdes /\ Goto("softreset")
  /\ UNCHANGED <<frequency, main, aux, board, current>>

SgmiiStep(to, value) ==
  /\ Goto(to) /\ sgmii' = value
  /\ UNCHANGED <<frequency, main, aux, ddr, mapped, domain, edc, serdes, current>>

(* Init_SGMII(1) *)
SoftReset == pc = "softreset" /\ SgmiiStep("configure", [reset |-> TRUE, link |-> FALSE, neg |-> "off"])
ConfigureSgmii ==
  pc = "configure" /\ ~ sgmii.reset /\ SgmiiStep("link", [sgmii EXCEPT !.neg = "pending"])
LinkIsUp == pc = "link" /\ sgmii.link /\ SgmiiStep("negotiate", sgmii)

(* An error of the negotiation ends it, and nobody is told. *)
Negotiated ==
  /\ pc = "negotiate" /\ sgmii.neg \in {"complete", "error"}
  /\ Return("EOK")
  /\ UNCHANGED <<platform_errno, frequency, main, aux, board, current>>

(* The hardware. *)
Hardware ==
  /\ \/ \E d \in Domain : domain[d] = "turning" /\ domain' = [domain EXCEPT ![d] = "on"] /\ UNCHANGED <<serdes, sgmii>>
     \/ \E p \in {0, 1} : pc \in {"lock0", "lock1"} /\ p \notin serdes /\ serdes' = serdes \cup {p} /\ UNCHANGED <<domain, sgmii>>
     \/ sgmii.reset /\ sgmii' = [sgmii EXCEPT !.reset = FALSE] /\ UNCHANGED <<domain, serdes>>
     \/ sgmii.neg = "pending" /\ ~ sgmii.link /\ sgmii' = [sgmii EXCEPT !.link = TRUE] /\ UNCHANGED <<domain, serdes>>
     \/ \E n \in {"complete", "error"} :
          sgmii.link /\ sgmii.neg = "pending" /\ sgmii' = [sgmii EXCEPT !.neg = n] /\ UNCHANGED <<domain, serdes>>
  /\ UNCHANGED <<pc, local, outcome, frequency, main, aux, ddr, mapped, edc, current>>

BoardInitial ==
  /\ pc = "idle" /\ args = NoArguments /\ loop_count = 0 /\ dnum \in {0, 1}
  /\ result = "none" /\ platform_errno = "none" /\ platform_init_return_code = 0
  /\ frequency = 0 /\ current = FALSE
  /\ main \in BootPll /\ aux = [w \in {"pa", "ddr"} |-> [m |-> 0, bypass |-> TRUE, reset |-> FALSE, locked |-> FALSE]]
  /\ ddr \in Memory /\ mapped = FALSE
  /\ domain = [d \in Domain |-> "off"] /\ edc = FALSE
  /\ serdes = {} /\ sgmii = [reset |-> FALSE, link |-> FALSE, neg |-> "off"]

BoardStep ==
  \/ MainPllStep \/ \E w \in {"pa", "ddr"} : AuxPllStep(w)
  \/ InitDdr \/ LoopDone \/ TryAgain \/ GiveUp \/ SaveFrequency
  \/ (\E d \in Domain : StartDomain(d) \/ DomainDone(d)) \/ EnableEdc
  \/ ConfigSerdes \/ SerdesLocked \/ SoftReset \/ ConfigureSgmii \/ LinkIsUp \/ Negotiated

-----------------------------------------------------------------------------
(* The clock at which the core really runs, in cycles in CLK_UNIT          *)
(* microseconds.                                                           *)
Selected == main.pllen /\ ~ main.bypass
TrueClock == IF Selected THEN ((main.m + 1) * BASE_CLK) \div ((main.div + 1) * (main.post + 1)) ELSE BASE_CLK

(* Nothing is clocked by a PLL that is powered down, in reset or not       *)
(* locked: "Enable BYPASS in the PLL contoller" (evmc6670.c:184) comes     *)
(* first, and "Release Bypass" (268) last, on every path, through every    *)
(* attempt, and whatever an earlier call has left.                         *)
ClocksSwitchSafely ==
  /\ Selected => main.powered /\ ~ main.reset /\ main.locked
  /\ \A w \in {"pa", "ddr"} : ~ aux[w].bypass => ~ aux[w].reset /\ aux[w].locked

(* The multiplier is one that platform_get_frequency understands. *)
Understood == main.m + 1 <= PLLM_LOW /\ (main.m + 1) % 2 = 0

(* When platform_init reports success, what its flags ask for has been     *)
(* done: the clocks run at the multiplier asked for, the part of DDR3 it   *)
(* has tested works, the domains are on, the SerDes have locked and the        *)
(* negotiation has ended.  The exceptions are the code's: a multiplier     *)
(* that is too large leaves the old one, and the frequency that is saved   *)
(* "needed by  platform_delay" (platform.c:455) is that of the PLL if it   *)
(* was read since the PLL was set, and divides its clock by two as         *)
(* platform_get_frequency takes for granted: its whole MHz, 983 for 983.04.*)
StartUpComplete ==
  pc = "idle" /\ result = "EOK" =>
    /\ Flagged("pll") =>
         /\ dnum = 0 /\ Selected /\ ~ aux["pa"].bypass /\ aux["pa"].m = PLLM_PASS
         /\ WantedM <= PLLM_MAX => main.m = WantedM
         /\ current /\ Understood /\ main.div = 0 /\ main.post = 1 => frequency = TrueClock \div CLK_UNIT
    /\ Flagged("ddr") => mapped
    /\ {"pll", "ddr"} \subseteq args.flags =>
         ~ aux["ddr"].bypass /\ aux["ddr"].m = PLLM_DDR3 /\ Healthy(ddr, Tested)
    /\ \A d \in Domain : domain[d] = "on"
    /\ Flagged("phy") => serdes = {0, 1} /\ sgmii.neg \in {"complete", "error"}
=============================================================================
