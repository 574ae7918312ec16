----------------------------- MODULE MCConsensus -----------------------------
(* An instance of Consensus: two reviewers, who may both delegate, a reviser, *)
(* and one call s1 that the reviewers or a client may make.                   *)
EXTENDS Consensus

CONSTANTS r1, r2, v, s1

MCCalls == {r1, r2, v, s1}
MCReviewers == {r1, r2}
MCDelegates == {<<r1, s1>>, <<r2, s1>>}
MCClients == {s1}
=============================================================================
