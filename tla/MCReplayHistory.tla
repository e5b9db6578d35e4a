-------------------------- MODULE MCReplayHistory --------------------------
(* Instances of ReplayHistory for TLC: values for its constants.           *)
EXTENDS ReplayHistory, TLC

CONSTANTS r1, r2, r3, g1, g2

ThreeRequests == {r1, r2, r3}
TwoGets == {g1, g2}
NoHead == {}
One == {1}
Symmetry == Permutations(Tasks) \cup Permutations(GetKeys)
=============================================================================
