SPECIFICATION FairSpec
CONSTANTS
  p1 = p1
  p2 = p2
  Player <- MCPlayers
  Session <- MCSessions
  Owner <- MCOwner
  InboxCap = 2
  EngineFails = FALSE
CHECK_DEADLOCK FALSE
INVARIANTS
  TypeOK
  OneSessionPerKey
  NoDeadSubscription
PROPERTIES
  StaysSubscribed
  LoopSpec
  Departs
  GetsServed
  ComesToRest
