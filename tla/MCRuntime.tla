------------------------------ MODULE MCRuntime ------------------------------
EXTENDS Runtime, TLC

CONSTANTS a, b, v, w

WorkerSymmetry == Permutations(Workers)
=============================================================================
