SPECIFICATION FairSpec
CONSTANTS
  sigint = sigint
  sigterm = sigterm
  Signals = {sigint, sigterm}
INVARIANTS TypeOK RingsOutliveThreads NothingLeaks DestroyedOnce
PROPERTIES ShutdownExits FailedStartExits
