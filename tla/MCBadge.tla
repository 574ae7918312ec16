------------------------------- MODULE MCBadge -------------------------------
(* Badge for TLC.                                                            *)
EXTENDS Badge, TLC

CONSTANTS w1, w2, s1

\* Each session in a workspace of its own, or all in one.
Apart(s) == IF s = s1 THEN w1 ELSE w2
Sym == Permutations(Msgs)
=============================================================================
