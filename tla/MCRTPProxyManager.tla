------------------------- MODULE MCRTPProxyManager -------------------------
EXTENDS RTPProxyManager, TLC
Symmetry == Permutations(Threads) \cup Permutations(Calls) \cup Permutations(Objs)
=============================================================================
