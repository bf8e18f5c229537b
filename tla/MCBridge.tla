------------------------------ MODULE MCBridge ------------------------------
EXTENDS Bridge, TLC

CONSTANTS c1, c2, br0, br1, eth0, eth1

Symmetry == Permutations(Creators) \cup Permutations(Names) \cup Permutations(NICs)
=============================================================================
