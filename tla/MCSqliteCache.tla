--------------------------- MODULE MCSqliteCache ---------------------------
(* Instances of SqliteCache for TLC: values for its constants.             *)
EXTENDS SqliteCache, TLC

CONSTANTS t1, t2, t3, g1, h1, h2, h3

TwoTasks == {t1, t2}
ThreeTasks == {t1, t2, t3}
OneGet == {g1}
NoKey == {}
OneHead == {h1}
ThreeHeads == {h1, h2, h3}
ZeroOne == {0, 1}
One == {1}

Symmetry == Permutations(Tasks) \cup Permutations(HeadKeys)
=============================================================================
