SPECIFICATION FairSpec
CONSTANTS
  MaxFrames = 1
  Hosts = {"main"}
PROPERTIES InterruptStops
