SPECIFICATION FairSpec
CONSTANTS
  p1 = p1
  p2 = p2
  Pages = {p1, p2}
  MaxReports = 4
  MaxRuns = 2
  MaxPoints = 2
INVARIANTS TypeOK TotalCoversCards FramesCountedOnce
PROPERTIES CardFresh
