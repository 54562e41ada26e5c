--------------------------- MODULE MCRdpPipeline ---------------------------
EXTENDS RdpPipeline, TLC

\* Pages are interchangeable.
Symmetry == Permutations(Pages)
=============================================================================
