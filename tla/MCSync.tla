------------------------------- MODULE MCSync -------------------------------
EXTENDS SyncOrchestrator, TLC
Symmetry == Permutations(Tasks) \cup Permutations(Triggers) \cup Permutations(Conns)
=============================================================================
