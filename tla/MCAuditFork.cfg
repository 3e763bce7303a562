SPECIFICATION Spec
CONSTANTS
  s1 = s1
  s2 = s2
  s3 = s3
  e1 = e1
  e2 = e2
  Store <- MCStore
  Event <- MCEvent
  MaxRecords = 4
SYMMETRY Symmetry
INVARIANT EveryRecordIsChained
