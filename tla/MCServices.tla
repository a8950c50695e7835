----------------------------- MODULE MCServices -----------------------------
(* Small instance of Services for TLC: words of four bits, a multiplier    *)
(* register of two bits, a 64-cycle counter.  The products of Usecs and    *)
(* frequencies are 28 at most where they fit, a tick below half of WORD.   *)
EXTENDS Services

MCCell == {4, 8, 12}
MCPattern == [a \in MCCell |-> {k \in 0 .. 3 : (a \div 2^k) % 2 = 1}]
Sound == [at |-> [a \in MCCell |-> a], stuck0 |-> [a \in MCCell |-> {}], stuck1 |-> [a \in MCCell |-> {}]]
Alias == [Sound EXCEPT !.at[8] = 4]
Stuck0 == [Sound EXCEPT !.stuck0[12] = {1}]
Stuck1 == [Sound EXCEPT !.stuck1[8] = {3}]
MCMemory == {Sound, Alias, Stuck0, Stuck1}
MCL1 == {<<Sound, Sound>>, <<Stuck1, Sound>>, <<Sound, Alias>>}

Cold == [m |-> 0, div |-> 0, post |-> 0, pllen |-> FALSE, bypass |-> TRUE,
         powered |-> TRUE, reset |-> FALSE, locked |-> FALSE]
Warm == [Cold EXCEPT !.m = 5, !.div = 1, !.pllen = TRUE, !.bypass = FALSE, !.locked = TRUE]
Undivided == [Warm EXCEPT !.m = 1, !.div = 0]
MCBootPll == {Cold, Warm, Undivided}

MCArguments ==
  {NoArguments} \cup
  [flags : {{}, {"pll"}, {"pll", "ddr"}, {"ddr", "ecc"}}, pllm : {4}] \cup
  [flags : {{"pll", "ddr", "ecc", "phy"}}, pllm : {0, 3, 6, 17}]

MCRanges == {<<0, 0>>, <<4, 12>>, <<4, 15>>, <<8, 8>>, <<0, 8>>}
MCModules == {[next |-> "ENABLE", asserted |-> a, isolated |-> i] : a \in BOOLEAN, i \in BOOLEAN}
MCMessages == {<<"char", "nl">>, <<"nl", "char", "char">>}

=============================================================================
