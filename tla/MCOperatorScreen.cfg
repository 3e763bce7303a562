SPECIFICATION Spec
CONSTANTS
  Row <- MCRow
  ConfirmRow <- MCConfirmRow
  Mode <- MCMode
  FirstMode <- MCFirstMode
  Manual <- MCManual
  Opens <- MCOpens
  Alarms = 2
  None = None
INVARIANTS
  TypeOK
  RunsOnVerifiedValves
  AnnunciatorTellsAlarms
PROPERTIES
  SettingsAreLocked
