----------------------------- MODULE MCPipelineL2 -----------------------------
EXTENDS PipelineL2, TLC

CONSTANTS sigint, sigterm

SignalSymmetry == Permutations(Signals)
=============================================================================
