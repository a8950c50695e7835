------------------------------- MODULE MCQmss -------------------------------
(***************************************************************************)
(* A small instance of Qmss.                                               *)
(***************************************************************************)
EXTENDS Qmss, TLC

MCHostTx == <<"host0", "host1">>
MCHostRx == <<"host2">>
MCMonoTx == <<"mono0">>
MCMonoRx == <<"mono1">>

CoreSymmetry == Permutations(Cores)
=============================================================================
