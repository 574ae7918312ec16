------------------------- MODULE MCCoordinatorLock -------------------------
EXTENDS CoordinatorLock, TLC

\* Everyone is the same user, or everyone another.
SameUser == [p \in Programs |-> "u"]
OwnUser == [p \in Programs |-> p]

Symmetry == Permutations(Pids) \cup Permutations(Dirs)
=============================================================================
