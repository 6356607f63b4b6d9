-------------------------- MODULE MCReadWriteMutex --------------------------
\* The instances of ReadWriteMutex that TLC checks.
EXTENDS ReadWriteMutex, TLC

RWSymmetry == Permutations(Threads) \cup Permutations(Depths)
=============================================================================
