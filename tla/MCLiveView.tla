------------------------------- MODULE MCLiveView -------------------------------
EXTENDS LiveView, TLC

CONSTANTS v1, v2

\* The first frame after the restart.
MCBlank == {[run |-> 2, number |-> 1]}

ViewerSymmetry == Permutations(Viewers)
=============================================================================
