SPECIFICATION Spec
CONSTANTS
  u1 = u1
  operator = operator
  quality = quality
  b0 = b0
  b1 = b1
  b2 = b2
  Nobody = Nobody
  NoBatch = NoBatch
  User <- MCUser
  Role <- MCRole
  Operating <- MCOperating
  FirstUser = u1
  FirstRole = operator
  Batch <- MCBatch
  Seeded = b0
  EndStatus <- MCEndStatus
  MaxTemp = 1
  High = 1
SYMMETRY Symmetry
INVARIANTS
  TypeOK
  ActiveBatchIsRunning
  BatchTrailTellsStatus
  ExcursionIsOnRecord
  HotProductIsListed
PROPERTIES
  RecordIsClosed
