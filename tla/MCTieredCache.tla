---------------------------- MODULE MCTieredCache ----------------------------
EXTENDS TieredCache, TLC

CONSTANTS t1, t2, t3, k, x, y, v1, v2

TwoTasks == {t1, t2}
OneKey == {k}
TwoOthers == {x, y}
TwoValues == {v1, v2}
AlsoLonger == {1, 2}

Symmetry == Permutations(Tasks) \cup Permutations(Values)
            \cup Permutations(Others)
=============================================================================
