------------------------------ MODULE MCPipeline ------------------------------
EXTENDS Pipeline, TLC

CONSTANTS sigint, sigterm

SignalSymmetry == Permutations(Signals)
=============================================================================
