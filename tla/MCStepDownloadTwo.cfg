SPECIFICATION Spec
CONSTANTS
  d1 = d1
  d2 = d2
  Garbled = Garbled
  NoStep = NoStep
  Downloader <- Two
  Step <- RaceStep
INVARIANT
  VerifiedStepStarted
