--------------------------- MODULE MCScanScheduler ---------------------------
EXTENDS ScanSchedulerProps, TLC

Symmetry == Permutations(Jobs) \union Permutations(Tasks) \union Permutations(Probes)
=============================================================================
