SPECIFICATION Spec
CONSTANTS
  v1 = v1
  v2 = v2
  Viewers = {v1}
  MaxFrames = 2
  MaxRuns = 1
  Workers = 2
  Blank = {}
INVARIANTS TimeoutMeansNothingCame
