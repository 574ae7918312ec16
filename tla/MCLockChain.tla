---------------------------- MODULE MCLockChain ----------------------------
(* LockChain on two names and three calls at a time.                       *)
EXTENDS LockChain, TLC

ProcSymmetry == Permutations(Procs)
=============================================================================
