SPECIFICATION Spec
CONSTANTS
  Value = {0, 1, 2}
  Login = 1
  Cap = 2
  InboxCap = 2
  EngineFails = TRUE
  Prompt = FALSE
  MaxQueries = 1
  MaxRounds = 2
CHECK_DEADLOCK FALSE
INVARIANTS
  TypeOK
  SentIsEntered
PROPERTIES
  OneBetPerRound
  QueueServed
