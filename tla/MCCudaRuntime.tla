--------------------------- MODULE MCCudaRuntime ----------------------------
EXTENDS CudaRuntime, TLC

CONSTANTS h1, h2, s1, s2
Symmetry == Permutations(Host) \union Permutations(Stream)
=============================================================================
