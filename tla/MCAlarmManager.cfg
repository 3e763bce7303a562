SPECIFICATION FairSpec
CONSTANTS
  u1 = u1
  u2 = u2
  Nobody = Nobody
  Actor <- MCActor
  CatalogSize = 3
INVARIANTS
  TypeOK
  SeenConditionIsListed
  TrailTellsState
PROPERTIES
  EveryAlarmIsLatched
  AcknowledgedAlarmClears
