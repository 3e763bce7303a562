SPECIFICATION Spec
CONSTANTS
  d1 = d1
  d2 = d2
  Garbled = Garbled
  NoStep = NoStep
  Downloader <- One
  Step <- MCStep
INVARIANTS
  TypeOK
  VerifiedStepStarted
  SetpointsArrive
  AbortStops
PROPERTIES
  StartsOnlyVerified
