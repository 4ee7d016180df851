--------------------------- MODULE MCRingBufferSPSC ---------------------------
EXTENDS RingBufferSPSC, TLC

CONSTANTS sig1, sig2     \* two other calls of shutdown()

ClosersSymmetry == Permutations(Closers)
=============================================================================
