SPECIFICATION FairSpec
CONSTANTS
  sigint = sigint
  sigterm = sigterm
  Slots = 2
  MaxFrames = 6
  Signals = {sigint}
INVARIANTS TypeOK SlotsExclusive CoherentUpload
PROPERTIES ImplementsLine ShutdownJoins Uploaded
