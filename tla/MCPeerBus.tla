----------------------------- MODULE MCPeerBus -----------------------------
(* Instances of PeerBus for TLC.                                           *)
EXTENDS PeerBusMail, TLC

(* The second and third message carry one timestamp; the second is large.  *)
MCStamp(m) == (m + 2) \div 2
MCSize(m)  == IF m = 2 THEN 3 ELSE 2

ProcSymmetry == Permutations(Procs)
Symmetry == Permutations(Procs) \cup Permutations(Panes)
=============================================================================
