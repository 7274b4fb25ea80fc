SPECIFICATION OneReaderSpec
CONSTANTS
  c1 = c1
  c2 = c2
  Client <- MCClients
  Cap = 2
  MaxFrames = 5
CHECK_DEADLOCK FALSE
INVARIANTS
  TypeOK
  DropsOnlyStale
PROPERTIES
  ReaderStream
  BroadcastEnds
