SPECIFICATION FairSpec
CONSTANTS
  sig1 = sig1
  sig2 = sig2
  N = 3
  Closers = {sig1, sig2}
  MaxItems = 7
INVARIANTS TypeOK SlotExclusive InOrder
PROPERTIES ImplementsChannel ShutdownEndsThreads Delivered
