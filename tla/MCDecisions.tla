---------------------------- MODULE MCDecisions -----------------------------
EXTENDS Decisions, TLC

Symmetry == Permutations(Controllers) \cup Permutations(Sessions) \cup Permutations(Choices)
=============================================================================
