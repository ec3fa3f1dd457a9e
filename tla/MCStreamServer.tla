---------------------------- MODULE MCStreamServer ----------------------------
EXTENDS StreamServer, TLC
Symmetry == Permutations(Conns)
=============================================================================
