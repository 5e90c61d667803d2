----------------------------- MODULE MCJobStore -----------------------------
EXTENDS JobStore, TLC

Symmetry == Permutations(Procs) \cup Permutations(Results) \cup Permutations(Specs)
=============================================================================
