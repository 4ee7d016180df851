SPECIFICATION FairSpec
CONSTANTS
  v1 = v1
  v2 = v2
  Viewers = {v1, v2}
  MaxFrames = 2
  MaxRuns = 2
  Workers = 2
  Blank <- MCBlank
INVARIANTS TypeOK
PROPERTIES YieldsNewer NewestShown
