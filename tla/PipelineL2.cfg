SPECIFICATION FairSpec
CONSTANTS
  sigint = sigint
  sigterm = sigterm
  Capacity = 2
  MaxFrames = 8
  Signals = {sigint}
INVARIANTS TypeOK FrontExists QueuesBounded EndDrains
PROPERTIES ImplementsLine ShutdownJoins
