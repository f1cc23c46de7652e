----------------------------- MODULE MCCveCache -----------------------------
EXTENDS CveCacheProps, TLC

Symmetry == Permutations(Scans) \union Permutations(Cves)
=============================================================================
