SPECIFICATION FairSpec
INVARIANTS
  TypeOK
  OneSignalPerPulse
  SocketIsClosed
PROPERTIES
  ThreadEnds
  Reconnects
