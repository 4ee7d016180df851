SPECIFICATION FairSpec
CONSTANTS
  ConfThreshold = 40
  IouThreshold = 45
  Folders <- MCFolders
  Outputs <- MCOutputs
INVARIANTS TypeOK SentIsSuppression
PROPERTIES FlagExits
