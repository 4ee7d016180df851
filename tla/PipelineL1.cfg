SPECIFICATION FairSpec
CONSTANTS
  MaxFrames = 2
  Hosts = {"main", "recv", "infer", "upload"}
CHECK_DEADLOCK FALSE
INVARIANTS TypeOK EndDrains OnlySignalBlocks
PROPERTIES ImplementsLine EverythingSent EndJoins
