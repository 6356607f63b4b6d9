--------------------------- MODULE MCRecursiveLock ---------------------------
\* The instances of RecursiveLock that TLC checks.
EXTENDS RecursiveLock, TLC

RLSymmetry == Permutations(Threads)
=============================================================================
