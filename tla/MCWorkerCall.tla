---------------------------- MODULE MCWorkerCall ----------------------------
EXTENDS WorkerCall, TLC

Symmetry == Permutations(Procs) \cup Permutations(Results)
=============================================================================
