------------------------------- MODULE MCPipe -------------------------------
\* The instances of Pipe that TLC checks.
EXTENDS Pipe, TLC

ThreadSymmetry == Permutations(Threads)
=============================================================================
