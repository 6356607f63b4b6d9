-------------------------- MODULE MCThreadedObject --------------------------
\* The instances of ThreadedObject that TLC checks.
EXTENDS ThreadedObject, TLC

ObjectSymmetry == Permutations(Runners) \cup Permutations(Controllers)
=============================================================================
