------------------------------- MODULE Ranks -------------------------------
(***************************************************************************)
(* Counting through a finite set of numbers: of what is in order already,  *)
(* tickets or the lines of a file, those that meet a condition.            *)
(***************************************************************************)
EXTENDS Naturals, FiniteSets

(* How many members of S there are up to t.                                *)
Rank(S, t) == Cardinality({u \in S : u <= t})

(* The i-th smallest member of S.                                          *)
Nth(S, i) == CHOOSE t \in S : Rank(S, t) = i
=============================================================================
