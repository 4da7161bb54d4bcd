--------------------------- MODULE MCProcessLock ---------------------------
(* Instances of ProcessLock for TLC: three process instances, whose pids   *)
(* may all differ or be reused after a death.                              *)
EXTENDS ProcessLock, TLC

CONSTANTS p1, p2, p3, i1, i2, i3

ThreeProcs == {p1, p2, p3}
ThreePids == {i1, i2, i3}

\* Neither the instances nor the pids are told apart.
Symmetry == Permutations(ThreeProcs) \cup Permutations(ThreePids)
=============================================================================
