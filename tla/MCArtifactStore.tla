-------------------------- MODULE MCArtifactStore --------------------------
EXTENDS ArtifactStore, TLC

Symmetry == Permutations(Procs) \cup Permutations(Paths) \cup Permutations(Contents)
=============================================================================
