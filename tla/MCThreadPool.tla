---------------------------- MODULE MCThreadPool ----------------------------
\* The instances of ThreadPool that TLC checks.
EXTENDS ThreadPool, TLC

PoolSymmetry == Permutations(Callers) \cup Permutations(Workers)
=============================================================================
