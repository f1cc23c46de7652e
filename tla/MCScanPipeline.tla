--------------------------- MODULE MCScanPipeline ---------------------------
EXTENDS ScanPipelineProps, TLC

Symmetry == Permutations(Runs)
=============================================================================
