SPECIFICATION FairSpec
CONSTANTS
  sigint = sigint
  sigterm = sigterm
  Signals = {sigint}
PROPERTIES SignalExits
