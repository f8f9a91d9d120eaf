----------------------------- MODULE MCStaking -----------------------------
EXTENDS Staking, TLC

CONSTANTS g1, g2, g3, k1, k2, k3

GoroutinesDef == {g1, g2, g3}
WorkersDef == {k1, k2, k3}
Symmetry == Permutations(GoroutinesDef) \cup Permutations(WorkersDef)
=============================================================================
