SPECIFICATION FairSpec
CONSTANTS
  agitator = agitator
  Drive <- MCDrive
  Settings <- MCSettings
  Ramp <- MCRamp
  Deadband <- MCDeadband
  LeastGain = 2
  MostGain = 3
  Close = 3
  Chill = 2
  Loss = 1
  Ambient = 3
  First = 4
  Draw = 2
  Vent = 3
  PumpBelow <- MCPumpBelow
  High = 8
  Reading <- MCReading
  Together <- MCTogether
INVARIANTS
  TypeOK
  TargetIsAudited
  WithinSetpoints
  HeatedProductIsHeld
PROPERTIES
  ChilledStaysChilled
  SetpointsAreReached
