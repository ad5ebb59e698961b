------------------------------ MODULE MCProblems ------------------------------
EXTENDS ProblemLifecycle, TLC
Symmetry == Permutations(Evaluators) \cup Permutations(Rechecks) \cup Permutations(Users)
=============================================================================
