-------------------------- MODULE MCWakeDispatcher --------------------------
(* WakeDispatcher for TLC.                                                   *)
EXTENDS WakeDispatcher, TLC

Sym == Permutations(Msgs)
=============================================================================
